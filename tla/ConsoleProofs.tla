---------------------------- MODULE ConsoleProofs ----------------------------
(***************************************************************************)
(* The console's ring neither loses nor invents input, nobody sleeps over  *)
(* a line that is there, and the cursor stays on the page.  Most of it is  *)
(* about indices that wrap around twice: at the end of the integers, and   *)
(* at the end of the ring.                                                 *)
(***************************************************************************)
EXTENDS Console, TLAPS, NaturalsInduction, WellFoundedInduction, SequenceTheorems

(* Arithmetic *)

\* Quotient and remainder, for a divisor that is not a number yet.
LEMMA Remainder ==
  ASSUME NEW m \in Nat \ {0}, NEW i \in Int
  PROVE  /\ i % m \in 0 .. m - 1
         /\ i \div m \in Int /\ i = (i \div m) * m + (i % m)
OBVIOUS

\* The remainder of what is less than one turn away.
LEMMA SmallRemainder ==
  ASSUME NEW m \in Nat \ {0}, NEW i \in Int, -m <= i, i < 2 * m
  PROVE  i % m = IF i < 0 THEN i + m ELSE IF i < m THEN i ELSE i - m
<1>1. CASE i < 0 BY <1>1
<1>2. CASE 0 <= i /\ i < m BY <1>2
<1>3. CASE m <= i BY <1>3
<1> QED BY <1>1, <1>2, <1>3

\* A remainder is determined by its quotient.
LEMMA RemainderUnique ==
  ASSUME NEW m \in Nat \ {0}, NEW i \in Int, NEW q \in Int, NEW k \in 0 .. m - 1,
         i = q * m + k
  PROVE  i % m = k
OBVIOUS

\* Adding a multiple of the divisor changes no remainder.
LEMMA RemainderOfMultiple ==
  ASSUME NEW m \in Nat \ {0}, NEW i \in Int, NEW j \in Int
  PROVE  (i + j * m) % m = i % m
<1> DEFINE q == i \div m
           k == i % m
<1>1. q \in Int /\ k \in 0 .. m - 1 /\ i = q * m + k BY Remainder
<1> HIDE DEF q, k
<1>2. i + j * m = (q + j) * m + k /\ q + j \in Int /\ i + j * m \in Int BY <1>1
<1>3. (i + j * m) % m = k BY <1>1, <1>2, RemainderUnique
<1> QED BY <1>3 DEF k

\* Less than m apart, two numbers do not have the same remainder.
LEMMA RemaindersDiffer ==
  ASSUME NEW m \in Nat \ {0}, NEW i \in Int, NEW j \in Int, i < j, j < i + m
  PROVE  i % m # j % m
<1> DEFINE q == i \div m
           t == j \div m
<1>1. q \in Int /\ t \in Int /\ i = q * m + (i % m) /\ j = t * m + (j % m)
      /\ i % m \in Int /\ j % m \in Int
  BY Remainder
<1> HIDE DEF q, t
<1>2. ASSUME i % m = j % m PROVE FALSE
  <2>1. j - i = (t - q) * m /\ t - q \in Int BY <1>1, <1>2
  <2>2. 0 < (t - q) * m /\ (t - q) * m < m BY <2>1
  <2>3. t - q <= 0 \/ t - q >= 1 BY <2>1
  <2>4. t - q <= 0 => (t - q) * m <= 0 BY <2>1
  <2>5. t - q >= 1 => (t - q) * m >= m BY <2>1
  <2> QED BY <2>1, <2>2, <2>3, <2>4, <2>5
<1> QED BY <1>2

\* The constants are numbers.
LEMMA Numbers == /\ INPUT_BUF \in Nat \ {0} /\ Wrap \in Nat \ {0}
                 /\ INPUT_BUF < Wrap /\ 2 * INPUT_BUF <= Wrap
                 /\ ROWS \in Nat \ {0, 1} /\ COLS \in Nat \ {0}
BY ConsoleAssumption

Index == 0 .. Wrap - 1

\* The distance from one index forward to another, as unsigned subtraction gives it.
Dist(i, j) == (j - i) % Wrap

\* What Dist is, its range, and that only an index is no distance from itself.
LEMMA Distance ==
  ASSUME NEW i \in Index, NEW j \in Index
  PROVE  /\ Dist(i, j) = IF i <= j THEN j - i ELSE j - i + Wrap
         /\ Dist(i, j) \in Index
         /\ Dist(i, j) = 0 <=> i = j
<1> USE Numbers DEF Index
<1>1. j - i \in Int /\ -Wrap <= j - i /\ j - i < 2 * Wrap OBVIOUS
<1>2. (j - i) % Wrap = IF j - i < 0 THEN j - i + Wrap ELSE IF j - i < Wrap THEN j - i ELSE j - i - Wrap
  BY ONLY <1>1, Numbers, SmallRemainder
<1> DEFINE d == Dist(i, j)
<1>3. d = IF i <= j THEN j - i ELSE j - i + Wrap
  BY <1>1, <1>2 DEF Dist
<1> HIDE DEF d
<1>4. d \in Index /\ (d = 0 <=> i = j) BY <1>3
<1> QED BY <1>3, <1>4 DEF d

\* A step of an index, forwards or backwards.
LEMMA Steps ==
  ASSUME NEW i \in Index, NEW n \in Int, -Wrap <= n, n <= Wrap
  PROVE  /\ Plus(i, n) = IF i + n >= Wrap THEN i + n - Wrap
                         ELSE IF i + n < 0 THEN i + n + Wrap ELSE i + n
         /\ Plus(i, n) \in Index
<1> USE Numbers DEF Index
<1>1. i + n \in Int /\ -Wrap <= i + n /\ i + n < 2 * Wrap OBVIOUS
<1>2. (i + n) % Wrap = IF i + n < 0 THEN i + n + Wrap ELSE IF i + n < Wrap THEN i + n ELSE i + n - Wrap
  <2>1. PICK k \in Int : k = i + n BY <1>1
  <2>2. k % Wrap = IF k < 0 THEN k + Wrap ELSE IF k < Wrap THEN k ELSE k - Wrap
    BY ONLY <1>1, <2>1, Numbers, SmallRemainder
  <2> QED BY <2>1, <2>2
<1> DEFINE d == Plus(i, n)
<1>3. d = IF i + n >= Wrap THEN i + n - Wrap ELSE IF i + n < 0 THEN i + n + Wrap ELSE i + n
  BY <1>1, <1>2 DEF Plus
<1> HIDE DEF d
<1>4. d \in Index BY <1>3
<1> QED BY <1>3, <1>4 DEF d

\* Two steps forward are one.
LEMMA StepsAdd ==
  ASSUME NEW i \in Index, NEW n \in Nat, NEW m \in Nat, n + m <= Wrap
  PROVE  Plus(Plus(i, n), m) = Plus(i, n + m)
<1> USE Numbers DEF Index
<1>1. n <= Wrap /\ m <= Wrap /\ n \in Int /\ m \in Int /\ n + m \in Int
      /\ -Wrap <= n /\ -Wrap <= m /\ -Wrap <= n + m
  OBVIOUS
<1>2. PICK j \in Index : j = Plus(i, n) BY <1>1, Steps
<1>3. PICK k \in Index : k = Plus(j, m) BY <1>1, Steps
<1>4. PICK l \in Index : l = Plus(i, n + m) BY <1>1, Steps
<1>a. ASSUME NEW x \in Index, NEW y \in Nat, y <= Wrap
      PROVE  Plus(x, y) = IF x + y >= Wrap THEN x + y - Wrap ELSE x + y
  <2>1. y \in Int /\ -Wrap <= y /\ ~(x + y < 0) BY <1>a
  <2>2. Plus(x, y) = IF x + y >= Wrap THEN x + y - Wrap
                     ELSE IF x + y < 0 THEN x + y + Wrap ELSE x + y
    BY <1>a, <2>1, Steps
  <2> QED BY <2>1, <2>2
<1>5. j = IF i + n >= Wrap THEN i + n - Wrap ELSE i + n BY <1>1, <1>2, <1>a
<1>6. k = IF j + m >= Wrap THEN j + m - Wrap ELSE j + m BY <1>1, <1>3, <1>a
<1>7. l = IF i + (n + m) >= Wrap THEN i + (n + m) - Wrap ELSE i + (n + m)
  <2>1. n + m \in Nat OBVIOUS
  <2> QED BY <1>4, <1>a, <2>1
<1>8. k = l BY <1>5, <1>6, <1>7
<1> QED BY <1>2, <1>3, <1>4, <1>8

\* The ring does not notice that an index wraps around, as INPUT_BUF divides Wrap.
LEMMA SlotOfStep ==
  ASSUME NEW i \in Index, NEW n \in Int, -Wrap <= n, n <= Wrap
  PROVE  Slot(Plus(i, n)) = (i + n) % INPUT_BUF /\ Slot(Plus(i, n)) \in Slots
<1> USE Numbers DEF Index
<1> DEFINE c == Wrap \div INPUT_BUF
<1>1. c \in Int /\ Wrap = c * INPUT_BUF
  <2>1. Wrap % INPUT_BUF = 0 BY ConsoleAssumption
  <2> QED BY <2>1, Remainder
<1> HIDE DEF c
<1>2. i + n \in Int BY DEF Index
<1>3. Plus(i, n) \in {i + n, i + n + Wrap, i + n - Wrap}
  BY <1>2, Steps
<1>a. i + n + Wrap = i + n + c * INPUT_BUF /\ i + n - Wrap = i + n + (-c) * INPUT_BUF
  BY <1>1, <1>2
<1>b. (i + n + c * INPUT_BUF) % INPUT_BUF = (i + n) % INPUT_BUF
  BY ONLY <1>1, <1>2, Numbers, RemainderOfMultiple
<1>c. -c \in Int BY <1>1
<1>d. (i + n + (-c) * INPUT_BUF) % INPUT_BUF = (i + n) % INPUT_BUF
  BY ONLY <1>c, <1>2, Numbers, RemainderOfMultiple
<1>4. Plus(i, n) % INPUT_BUF = (i + n) % INPUT_BUF
  BY ONLY <1>3, <1>a, <1>b, <1>d
<1>5. (i + n) % INPUT_BUF \in Slots
  BY <1>2, Remainder DEF Slots
<1> QED BY <1>4, <1>5 DEF Slot

\* An index moves as far as it says.
LEMMA DistanceToStep ==
  ASSUME NEW i \in Index, NEW j \in Index, NEW n \in Int,
         0 <= Dist(i, j) + n, Dist(i, j) + n < Wrap
  PROVE  Dist(i, Plus(j, n)) = Dist(i, j) + n
<1>1. /\ Dist(i, j) = IF i <= j THEN j - i ELSE j - i + Wrap
      /\ Dist(i, j) \in Index
  BY Distance
<1>2. -Wrap <= n /\ n <= Wrap BY <1>1, Numbers DEF Index
<1>3. PICK k \in Index : k = Plus(j, n) BY <1>2, Steps
<1>4. k = IF j + n >= Wrap THEN j + n - Wrap ELSE IF j + n < 0 THEN j + n + Wrap ELSE j + n
  BY <1>2, <1>3, Steps
<1>5. Dist(i, k) = IF i <= k THEN k - i ELSE k - i + Wrap
  BY Distance
<1> QED BY <1>1, <1>3, <1>4, <1>5, Numbers DEF Index

\* And it leaves as much less to go.
LEMMA DistanceFromStep ==
  ASSUME NEW i \in Index, NEW j \in Index, NEW n \in Nat, n <= Dist(i, j)
  PROVE  Dist(Plus(i, n), j) = Dist(i, j) - n
<1>1. /\ Dist(i, j) = IF i <= j THEN j - i ELSE j - i + Wrap
      /\ Dist(i, j) \in Index
  BY Distance
<1>2. n \in Int /\ -Wrap <= n /\ n <= Wrap BY <1>1, Numbers DEF Index
<1>3. PICK k \in Index : k = Plus(i, n) BY <1>2, Steps
<1>4. k = IF i + n >= Wrap THEN i + n - Wrap ELSE IF i + n < 0 THEN i + n + Wrap ELSE i + n
  BY <1>2, <1>3, Steps
<1>5. Dist(k, j) = IF k <= j THEN j - k ELSE j - k + Wrap
  BY Distance
<1> QED BY <1>1, <1>3, <1>4, <1>5, Numbers DEF Index

\* Three indices in this order, within one turn.
LEMMA DistancesAdd ==
  ASSUME NEW i \in Index, NEW j \in Index, NEW k \in Index, Dist(i, j) <= Dist(i, k)
  PROVE  Dist(j, k) = Dist(i, k) - Dist(i, j)
<1>1. Dist(i, j) = IF i <= j THEN j - i ELSE j - i + Wrap BY Distance
<1>2. Dist(i, k) = IF i <= k THEN k - i ELSE k - i + Wrap BY Distance
<1>3. Dist(j, k) = IF j <= k THEN k - j ELSE k - j + Wrap BY Distance
<1> QED BY <1>1, <1>2, <1>3, Numbers DEF Index

\* An index is determined by how far away it is.
LEMMA SameDistance ==
  ASSUME NEW i \in Index, NEW j \in Index, NEW k \in Index, Dist(i, j) = Dist(i, k)
  PROVE  j = k
<1>1. Dist(i, j) = IF i <= j THEN j - i ELSE j - i + Wrap BY Distance
<1>2. Dist(i, k) = IF i <= k THEN k - i ELSE k - i + Wrap BY Distance
<1>3. (IF i <= j THEN j - i ELSE j - i + Wrap) = (IF i <= k THEN k - i ELSE k - i + Wrap)
  BY <1>1, <1>2
<1>4. i \in Int /\ 0 <= i /\ i < Wrap /\ j \in Int /\ 0 <= j /\ j < Wrap
      /\ k \in Int /\ 0 <= k /\ k < Wrap /\ Wrap \in Int
  BY Numbers DEF Index
<1>5. CASE i <= j BY ONLY <1>3, <1>4, <1>5
<1>6. CASE ~(i <= j) BY ONLY <1>3, <1>4, <1>6
<1> QED BY <1>5, <1>6

\* A nonempty set of numbers has a least one.
LEMMA LeastNumber ==
  ASSUME NEW S \in SUBSET Nat, S # {}
  PROVE  \E k \in S : \A j \in S : k <= j
<1> DEFINE R == {ss \in Nat \X Nat : ss[1] < ss[2]}
<1>1. IsWellFoundedOn(R, Nat)
  BY NatLessThanWellFounded DEF OpToRel
<1>2. PICK k \in S : \A j \in S : ~ (<<j, k>> \in R)
  BY <1>1, WFMin
<1>3. ASSUME NEW j \in S, j < k PROVE FALSE
  <2>1. <<j, k>> \in R
    BY <1>3
  <2> QED BY <1>2, <2>1
<1> QED BY <1>3

-----------------------------------------------------------------------------
(* The indices *)

Buffered == Dist(r, e)    \* what the ring holds
Editable == Dist(w, e)    \* the part of it that is still edited

\* The order of the indices, in distances.
LEMMA Indices ==
  ASSUME InputFlows
  PROVE  /\ r \in Index /\ w \in Index /\ e \in Index
         /\ Ready = Dist(r, w) /\ Ready \in Nat /\ Ready <= Buffered
         /\ Buffered \in Nat /\ Buffered <= INPUT_BUF
         /\ Editable = Buffered - Ready /\ Editable \in Nat
         /\ Ready = 0 <=> r = w
         /\ Editable = 0 <=> e = w
         /\ Buffered = INPUT_BUF => Ready # 0
<1>1. r \in Index /\ w \in Index /\ e \in Index
  BY DEF InputFlows, TypeOK, Index
<1>2. Ready = Dist(r, w) /\ Buffered = (e - r) % Wrap
  BY DEF Ready, Dist, Buffered
<1>3. /\ Dist(r, w) \in Index /\ (Dist(r, w) = 0 <=> r = w)
      /\ Dist(r, e) \in Index
      /\ Dist(w, e) \in Index /\ (Dist(w, e) = 0 <=> e = w)
  BY <1>1, Distance
<1>4. Ready <= Buffered /\ Buffered <= INPUT_BUF /\ (Buffered = INPUT_BUF => r # w)
  BY <1>2 DEF InputFlows
<1>5. Editable = Buffered - Ready
  BY <1>1, <1>2, <1>4, DistancesAdd DEF Buffered, Editable
<1> QED BY <1>1, <1>2, <1>3, <1>4, <1>5, Numbers DEF Index, Buffered, Editable

\* What InputFlows asks of the indices, as distances.
FlowsAre == /\ TypeOK
            /\ Dist(r, w) <= Dist(r, e) /\ Dist(r, e) <= INPUT_BUF
            /\ Dist(r, e) = INPUT_BUF => Dist(r, w) # 0
            /\ \A p \in Procs : pc[p] = "asleep" => Dist(r, w) = 0 /\ ~killed[p]

\* These say the same.
LEMMA FlowsFrom == FlowsAre => InputFlows
<1> SUFFICES ASSUME FlowsAre PROVE InputFlows
  OBVIOUS
<1>1. r \in Index /\ w \in Index BY DEF FlowsAre, TypeOK, Index
<1>2. Dist(r, w) = 0 <=> r = w BY <1>1, Distance
<1> QED BY <1>2 DEF FlowsAre, InputFlows, Ready, Dist

\* What the loop of consoleread copies is all there is, or ends where it must stop.
LEMMA CopiesValue ==
  ASSUME InputFlows, NEW p \in Procs
  PROVE  /\ Copies(p) \in 0 .. Ready
         /\ Stops(p, Copies(p)) \/ Copies(p) = Ready
         /\ \A k \in 0 .. Ready : k < Copies(p) => ~Stops(p, k)
         /\ Copies(p) <= left[p]
<1> DEFINE M == {m \in 0 .. Ready : Stops(p, m) \/ m = Ready}
<1>1. Ready \in Nat BY Indices
<1>2. M \in SUBSET Nat /\ Ready \in M BY <1>1
<1>3. PICK c \in M : \A k \in M : c <= k BY <1>2, LeastNumber
<1>4. Copies(p) = CHOOSE m \in M : \A k \in M : m <= k BY DEF Copies
<1>5. Copies(p) \in M /\ \A k \in M : Copies(p) <= k BY <1>3, <1>4
<1>6. \A k \in 0 .. Ready : k < Copies(p) => ~Stops(p, k)
  BY <1>1, <1>5
<1>7. Copies(p) <= left[p]
  <2>1. left[p] \in Nat BY DEF InputFlows, TypeOK
  <2>2. left[p] \in 0 .. Ready => Stops(p, left[p]) BY DEF Stops
  <2> QED BY <1>1, <1>5, <1>6, <2>1, <2>2
<1> QED BY <1>5, <1>6, <1>7

\* What a read copies holds no end of file, and no newline but at its end.
LEMMA CopiedLine ==
  ASSUME InputFlows, NEW p \in Procs, NEW k \in 1 .. Copies(p)
  PROVE  /\ CharAt(k) # Eof
         /\ k < Copies(p) => CharAt(k) # Newline
<1>1. Copies(p) \in 0 .. Ready /\ Ready \in Nat BY CopiesValue, Indices
<1>2. k - 1 \in 0 .. Ready /\ k \in 0 .. Ready /\ k - 1 < Copies(p) /\ k - 1 < Ready /\ k > 0
  BY <1>1
<1>3. ~Stops(p, k - 1) BY <1>2, CopiesValue
<1>4. k < Copies(p) => ~Stops(p, k) BY <1>2, CopiesValue
<1>5. CharAt(k) # Eof
  <2>1. k - 1 + 1 = k BY <1>2
  <2> QED BY <1>2, <1>3, <2>1 DEF Stops
<1>6. k < Copies(p) => CharAt(k) # Newline
  BY <1>2, <1>4 DEF Stops
<1> QED BY <1>5, <1>6

\* ^U goes back at most to what has been committed.
LEMMA ErasedValue ==
  ASSUME InputFlows
  PROVE  Erased \in 0 .. Editable
<1> DEFINE Q(n) == Plus(e, -n) = w \/ buf[Slot(Plus(e, -n - 1))] = Newline
           S == {n \in 0 .. INPUT_BUF : Q(n)}
           d == Editable
<1>1. d \in 0 .. INPUT_BUF BY Indices, Numbers
<1>2. Plus(e, -d) = w
  <2>1. w \in Index /\ e \in Index BY Indices
  <2>2. -d \in Int /\ Dist(w, e) + (-d) = 0 BY <1>1 DEF Editable
  <2>3. Dist(w, Plus(e, -d)) = 0 BY <2>1, <2>2, DistanceToStep, Numbers
  <2>4. Plus(e, -d) \in Index BY <1>1, <2>1, Steps, Numbers
  <2> QED BY <2>1, <2>3, <2>4, Distance
<1>3. d \in S BY <1>1, <1>2
<1> HIDE DEF d
<1>4. S \in SUBSET Nat BY Numbers
<1>5. PICK n \in S : \A k \in S : n <= k BY <1>3, <1>4, LeastNumber
<1>6. \A m \in 0 .. n - 1 : ~Q(m) BY <1>5, Numbers
<1>7. Erased \in 0 .. INPUT_BUF /\ \A m \in 0 .. Erased - 1 : ~Q(m)
  <2>1. \E k \in 0 .. INPUT_BUF :
          /\ \A m \in 0 .. k - 1 : Plus(e, -m) # w /\ buf[Slot(Plus(e, -m - 1))] # Newline
          /\ Plus(e, -k) = w \/ buf[Slot(Plus(e, -k - 1))] = Newline
    BY <1>5, <1>6
  <2> QED BY <2>1 DEF Erased
<1>8. ~(d \in 0 .. Erased - 1) BY <1>2, <1>7
<1>9. Erased \in 0 .. d BY <1>1, <1>7, <1>8, Numbers
<1> QED BY <1>9 DEF d

\* A character is typed: the ring holds one more, and is never overfull.
LEMMA Typed ==
  ASSUME InputFlows, NEW c \in Chars, Type(c)
  PROVE  /\ Buffered < INPUT_BUF
         /\ e' \in Index /\ Dist(r, e') = Buffered + 1 /\ Dist(w, e') = Editable + 1
         /\ Ends(c) <=> c \in {Newline, Eof} \/ Buffered + 1 = INPUT_BUF
<1>1. /\ r \in Index /\ w \in Index /\ e \in Index
      /\ Buffered \in Nat /\ Editable \in Nat /\ Editable <= Buffered
      /\ Ready \in Nat
  BY Indices
<1>2. Buffered < INPUT_BUF /\ e' = Plus(e, 1)
  BY DEF Type, Buffered, Dist
<1>3. e' \in Index BY <1>1, <1>2, Steps, Numbers
<1>4. Dist(r, e') = Buffered + 1
  BY <1>1, <1>2, DistanceToStep, Numbers DEF Buffered
<1>5. Dist(w, e') = Editable + 1
  BY <1>1, <1>2, DistanceToStep, Numbers DEF Editable
<1>6. Plus(r, INPUT_BUF) \in Index
  BY <1>1, Steps, Numbers
<1>7. Dist(r, Plus(r, INPUT_BUF)) = INPUT_BUF
  <2>1. Dist(r, r) = 0 BY <1>1, Distance
  <2> QED BY <1>1, <2>1, DistanceToStep, Numbers
<1>8. Plus(e, 1) = Plus(r, INPUT_BUF) <=> Buffered + 1 = INPUT_BUF
  <2>1. ASSUME Buffered + 1 = INPUT_BUF PROVE e' = Plus(r, INPUT_BUF)
    <3>1. Dist(r, e') = Dist(r, Plus(r, INPUT_BUF)) BY <1>4, <1>7, <2>1
    <3> QED BY <1>1, <1>3, <1>6, <3>1, SameDistance
  <2> QED BY <1>2, <1>4, <1>7, <2>1
<1> QED BY <1>2, <1>3, <1>4, <1>5, <1>8 DEF Ends

\* Characters are taken out of the ring at its reading end.
LEMMA Taken ==
  ASSUME InputFlows, NEW n \in 0 .. Ready, r' = Plus(r, n), UNCHANGED <<w, e>>
  PROVE  /\ r' \in Index
         /\ Dist(r', w) = Ready - n /\ Dist(r', e) = Buffered - n
         /\ r = w => r' = w
         /\ Dist(r, r') = n
<1>1. /\ r \in Index /\ w \in Index /\ e \in Index /\ Ready = Dist(r, w)
      /\ Ready \in Nat /\ Ready <= Buffered /\ Buffered \in Nat /\ Buffered <= INPUT_BUF
      /\ Ready = 0 <=> r = w
  BY Indices
<1>2. r' \in Index BY <1>1, Steps, Numbers
<1>3. Dist(r', w) = Ready - n
  BY <1>1, DistanceFromStep
<1>4. Dist(r', e) = Buffered - n
  <2>1. n \in Nat /\ n <= Dist(r, e) BY <1>1 DEF Buffered
  <2> QED BY <1>1, <2>1, DistanceFromStep DEF Buffered
<1>5. r = w => r' = w
  BY <1>1, <1>2, <1>3, Distance
<1>6. Dist(r, r') = n
  <2>1. Dist(r, r) = 0 BY <1>1, Distance
  <2> QED BY <1>1, <2>1, DistanceToStep, Numbers
<1> QED BY <1>2, <1>3, <1>4, <1>5, <1>6

\* The initial state.
LEMMA ConsoleInit == Init => InputFlows
<1> SUFFICES ASSUME Init PROVE InputFlows
  OBVIOUS
<1>1. TypeOK
  <2>1. \E c \in Chars : c \notin {Newline, Eof} BY ConsoleAssumption
  <2>2. Plain \in Chars BY <2>1 DEF Plain
  <2>3. buf \in [Slots -> Chars] BY <2>2 DEF Init
  <2>4. {r, w, e} \subseteq 0 .. Wrap - 1 /\ pos \in Nat BY Numbers DEF Init
  <2>5. pc \in [Procs -> {"user", "read", "asleep"}] BY DEF Init
  <2>6. left \in [Procs -> Nat] /\ copied \in [Procs -> Nat] BY DEF Init
  <2>7. killed \in [Procs -> BOOLEAN] BY DEF Init
  <2> QED BY <2>3, <2>4, <2>5, <2>6, <2>7 DEF TypeOK
<1>2. r \in Index /\ w = r /\ e = r
  BY Numbers DEF Init, Index
<1>3. Dist(r, w) = 0 /\ Dist(r, e) = 0
  BY <1>2, Distance
<1>4. \A p \in Procs : pc[p] = "asleep" => Dist(r, w) = 0 /\ ~killed[p]
  BY DEF Init
<1> QED BY <1>1, <1>3, <1>4, FlowsFrom, Numbers DEF FlowsAre

\* Every step keeps the types.
LEMMA TypeStep == InputFlows /\ [Next]_consoleVars => TypeOK'
<1> SUFFICES ASSUME InputFlows, [Next]_consoleVars PROVE TypeOK'
  OBVIOUS
<1> USE DEF input, reads
<1>0. TypeOK /\ r \in Index /\ w \in Index /\ e \in Index BY Indices DEF InputFlows
<1>c. ASSUME NEW x \in Nat PROVE Scrolled(x) \in Nat
  <2>1. x \div COLS \in Int /\ x = (x \div COLS) * COLS + (x % COLS) /\ x % COLS \in 0 .. COLS - 1
    BY Remainder, Numbers
  <2>2. x \div COLS >= ROWS - 1 => x >= COLS
    <3> DEFINE q == x \div COLS
    <3>1. ASSUME q >= ROWS - 1 PROVE q * COLS >= COLS
      <4>1. q >= 1 /\ q \in Int BY <2>1, <3>1, Numbers
      <4> HIDE DEF q
      <4> QED BY <4>1, Numbers
    <3> QED BY <2>1, <3>1, Numbers
  <2> QED BY <2>2, Numbers DEF Scrolled
<1>d. ASSUME NEW c \in Chars PROVE Echo(c) \in Nat
  <2>1. pos \in Nat /\ pos % COLS \in 0 .. COLS - 1
    BY <1>0, Remainder, Numbers DEF TypeOK
  <2>2. pos + 1 \in Nat /\ pos + COLS - (pos % COLS) \in Nat BY <2>1, Numbers
  <2> QED BY <1>c, <2>2 DEF Echo, Forward, NextLine
<1>e. ASSUME NEW n \in Nat PROVE Backward(pos, n) \in Nat
  <2>1. (IF pos > n THEN pos - n ELSE 0) \in Nat BY <1>0 DEF TypeOK
  <2> QED BY <1>c, <2>1 DEF Backward
<1>1. ASSUME NEW c \in Chars, Type(c) PROVE TypeOK'
  <2>1. e' \in Index BY <1>1, Typed
  <2>2. buf' \in [Slots -> Chars] BY <1>0, <1>1 DEF Type, TypeOK
  <2>3. w' \in Index /\ r' \in Index BY <1>0, <1>1, <2>1 DEF Type
  <2>4. pc' \in [Procs -> {"user", "read", "asleep"}]
    BY <1>0, <1>1 DEF Type, WakeReaders, TypeOK
  <2> QED BY <1>0, <1>1, <1>d, <2>1, <2>2, <2>3, <2>4 DEF TypeOK, Type, Index
<1>2. CASE Backspace \/ KillLine
  <2>1. e' \in Index /\ pos' \in Nat
    <3>1. CASE Backspace
      <4>1. Plus(e, -1) \in Index BY <1>0, Steps, Numbers
      <4> QED BY <1>e, <3>1, <4>1 DEF Backspace
    <3>2. CASE KillLine
      <4>1. Erased \in Nat /\ Erased <= Wrap BY ErasedValue, Indices, Numbers
      <4>2. Plus(e, -Erased) \in Index
        <5>1. PICK n \in Nat : n = Erased /\ n <= Wrap BY <4>1
        <5>2. -n \in Int /\ -Wrap <= -n /\ -n <= Wrap BY <5>1, Numbers
        <5> QED BY <1>0, <5>1, <5>2, Steps
      <4> QED BY <1>e, <3>2, <4>1, <4>2 DEF KillLine
    <3> QED BY <1>2, <3>1, <3>2
  <2> QED BY <1>0, <1>2, <2>1 DEF TypeOK, Backspace, KillLine, Index
<1>3. ASSUME NEW p \in Procs, NEW n \in Lengths, Call(p, n) PROVE TypeOK'
  <2>1. n \in Nat BY ConsoleAssumption
  <2> QED BY <1>0, <1>3, <2>1 DEF TypeOK, Call
<1>4. ASSUME NEW p \in Procs, NEW c \in Chars, Write(p, c) PROVE TypeOK'
  BY <1>0, <1>4, <1>d DEF TypeOK, Write
<1>5. ASSUME NEW p \in Procs, Read(p) \/ ReadSleeps(p) \/ ReadFails(p) PROVE TypeOK'
  <2>1. Copies(p) \in 0 .. Ready /\ Copies(p) <= left[p] /\ Ready \in Nat /\ Ready <= INPUT_BUF
    BY CopiesValue, Indices, Numbers
  <2>2. r' \in Index
    <3>1. PICK n \in Nat : r' = Plus(r, n) /\ n <= Ready + 1
      BY <1>5, <2>1 DEF Read, ReadSleeps, ReadFails
    <3> QED BY <1>0, <2>1, <3>1, Steps, Numbers
  <2>3. pc' \in [Procs -> {"user", "read", "asleep"}]
    BY <1>0, <1>5 DEF Read, ReadSleeps, ReadFails, Return, TypeOK
  <2>4. left' \in [Procs -> Nat] /\ copied' \in [Procs -> Nat]
    <3>1. CASE Read(p) \/ ReadFails(p)
      BY <1>0, <3>1 DEF Read, ReadFails, Return, TypeOK
    <3>2. CASE ReadSleeps(p)
      BY <1>0, <2>1, <3>2 DEF ReadSleeps, TypeOK
    <3> QED BY <1>5, <3>1, <3>2
  <2>5. UNCHANGED <<buf, w, e, pos, killed>>
    BY <1>5 DEF Read, ReadSleeps, ReadFails
  <2> QED BY <1>0, <2>2, <2>3, <2>4, <2>5 DEF TypeOK, Index
<1>6. ASSUME NEW p \in Procs, KillProc(p) PROVE TypeOK'
  BY <1>0, <1>6 DEF TypeOK, KillProc
<1>7. CASE UNCHANGED consoleVars
  BY <1>0, <1>7 DEF TypeOK, consoleVars
<1> QED BY <1>1, <1>2, <1>3, <1>4, <1>5, <1>6, <1>7 DEF Next

\* Every step keeps the input flowing.
LEMMA FlowStep == InputFlows /\ [Next]_consoleVars => InputFlows'
<1> SUFFICES ASSUME InputFlows, [Next]_consoleVars PROVE InputFlows'
  OBVIOUS
<1>0. /\ TypeOK /\ TypeOK' /\ r \in Index /\ w \in Index /\ e \in Index
      /\ Ready = Dist(r, w) /\ Ready \in Nat /\ Ready <= Buffered /\ Buffered \in Nat
      /\ Buffered <= INPUT_BUF /\ Editable = Buffered - Ready /\ Editable \in Nat
      /\ Buffered = INPUT_BUF => Ready # 0
      /\ Editable = 0 <=> e = w
      /\ Dist(r, w) = 0 <=> r = w
      /\ Buffered = Dist(r, e)
  BY Indices, TypeStep DEF InputFlows, Buffered
<1>a. FlowsAre' => InputFlows'
  BY FlowsFrom, PTL
<1>b. \A p \in Procs : pc[p] = "asleep" => Dist(r, w) = 0 /\ ~killed[p]
  BY <1>0 DEF InputFlows
<1>1. ASSUME NEW c \in Chars, Type(c) PROVE InputFlows'
  <2>1. /\ Buffered < INPUT_BUF
        /\ e' \in Index /\ Dist(r, e') = Buffered + 1 /\ Dist(w, e') = Editable + 1
        /\ Ends(c) <=> c \in {Newline, Eof} \/ Buffered + 1 = INPUT_BUF
        /\ r' = r /\ killed' = killed
    BY <1>1, Typed DEF Type
  <2>2. CASE Ends(c)
    <3>1. w' = e' BY <1>1, <2>2 DEF Type
    <3>2. Dist(r, w)' = Buffered + 1 /\ Dist(r, e)' = Buffered + 1
      BY <2>1, <3>1 DEF Dist
    <3>3. \A p \in Procs : pc'[p] # "asleep"
      BY <1>1, <2>2 DEF Type, WakeReaders
    <3>4. Buffered + 1 <= INPUT_BUF /\ Buffered + 1 # 0 BY <1>0, <2>1, Numbers
    <3> QED BY <1>0, <1>a, <3>2, <3>3, <3>4, Numbers DEF FlowsAre
  <2>3. CASE ~Ends(c)
    <3>1. w' = w /\ pc' = pc BY <1>1, <2>3 DEF Type
    <3>2. Dist(r, w)' = Ready /\ Dist(r, e)' = Buffered + 1
      BY <1>0, <2>1, <3>1 DEF Dist
    <3>3. \A p \in Procs : pc'[p] = "asleep" => Dist(r, w)' = 0 /\ ~killed'[p]
      BY <1>0, <1>b, <2>1, <3>1, <3>2
    <3>4. Buffered + 1 < INPUT_BUF BY <1>0, <2>1, <2>3, Numbers
    <3> QED BY <1>0, <1>a, <3>2, <3>3, <3>4, Numbers DEF FlowsAre
  <2> QED BY <2>2, <2>3
<1>2. CASE Backspace \/ KillLine
  <2>1. UNCHANGED <<r, w, pc, killed>> /\ Dist(r, w)' = Ready
    BY <1>0, <1>2 DEF Backspace, KillLine, reads, Dist
  <2>2. PICK n \in 0 .. Editable : e' = Plus(e, -n)
    <3>1. CASE Backspace
      BY <1>0, <3>1 DEF Backspace
    <3>2. CASE KillLine
      BY <1>0, <3>2, ErasedValue DEF KillLine
    <3> QED BY <1>2, <3>1, <3>2
  <2>3. Dist(r, e') = Buffered - n
    <3>1. -n \in Int /\ 0 <= Dist(r, e) + (-n) /\ Dist(r, e) + (-n) < Wrap
      BY <1>0, <2>2, Numbers
    <3> QED BY <1>0, <2>2, <3>1, DistanceToStep
  <2>4. Dist(r, e)' = Buffered - n BY <2>1, <2>3 DEF Dist
  <2> QED BY <1>0, <1>a, <1>b, <2>1, <2>2, <2>4, Numbers DEF FlowsAre
<1>3. ASSUME NEW p \in Procs, Read(p) \/ ReadSleeps(p) \/ ReadFails(p) PROVE InputFlows'
  <2>1. UNCHANGED <<w, e, killed>> /\ pc[p] = "read"
    BY <1>3 DEF Read, ReadSleeps, ReadFails
  <2>2. PICK n \in 0 .. Ready : r' = Plus(r, n) /\ (ReadSleeps(p) => n = Ready)
    <3>1. Copies(p) \in 0 .. Ready /\ (Stops(p, Copies(p)) \/ Copies(p) = Ready)
      BY CopiesValue
    <3>2. CASE Read(p)
      <4>1. TakesEof(p) => Copies(p) + 1 \in 0 .. Ready
        BY <1>0, <3>1 DEF TakesEof
      <4>2. ReadSleeps(p) => FALSE BY <3>2 DEF Read, ReadSleeps
      <4>3. CASE TakesEof(p) BY <3>2, <4>1, <4>2, <4>3 DEF Read
      <4>4. CASE ~TakesEof(p)
        <5>1. r' = Plus(r, Copies(p)) BY <1>0, <3>1, <3>2, <4>4 DEF Read
        <5> QED BY <3>1, <4>2, <5>1
      <4> QED BY <4>3, <4>4
    <3>3. CASE ReadSleeps(p)
      BY <3>1, <3>3 DEF ReadSleeps
    <3>4. CASE ReadFails(p)
      BY <3>1, <3>4 DEF ReadSleeps, ReadFails
    <3> QED BY <1>3, <3>2, <3>3, <3>4
  <2>3. Dist(r', w) = Ready - n /\ Dist(r', e) = Buffered - n
    BY <2>1, <2>2, Taken
  <2>4. Dist(r, w)' = Ready - n /\ Dist(r, e)' = Buffered - n
    BY <2>1, <2>3 DEF Dist
  <2>5. ASSUME NEW q \in Procs, pc'[q] = "asleep"
        PROVE  Dist(r, w)' = 0 /\ ~killed'[q]
    <3>1. CASE q = p
      <4>1. ReadSleeps(p) /\ ~killed[p]
        BY <1>0, <1>3, <2>5, <3>1 DEF Read, ReadSleeps, ReadFails, Return, TypeOK
      <4> QED BY <1>0, <2>1, <2>2, <2>4, <3>1, <4>1
    <3>2. CASE q # p
      <4>1. pc[q] = "asleep"
        BY <1>0, <1>3, <2>5, <3>2 DEF Read, ReadSleeps, ReadFails, Return, TypeOK
      <4>2. Ready = 0 /\ ~killed[q] BY <1>0, <1>b, <4>1
      <4>3. n = 0 /\ ~killed'[q] BY <2>1, <2>2, <4>2
      <4> QED BY <2>4, <4>2, <4>3
    <3> QED BY <3>1, <3>2
  <2>6. Dist(r, w)' <= Dist(r, e)' /\ Dist(r, e)' <= INPUT_BUF
    BY <1>0, <2>2, <2>4, Numbers
  <2>7. Dist(r, e)' = INPUT_BUF => Dist(r, w)' # 0
    BY <1>0, <2>2, <2>4, Numbers
  <2> QED BY <1>0, <1>a, <2>5, <2>6, <2>7 DEF FlowsAre
<1>4. ASSUME NEW p \in Procs, NEW n \in Lengths, Call(p, n) PROVE InputFlows'
  <2>1. UNCHANGED <<r, w, e, killed>> BY <1>4 DEF Call, input
  <2>2. \A q \in Procs : pc'[q] = "asleep" => pc[q] = "asleep"
    BY <1>0, <1>4 DEF Call, TypeOK
  <2> QED BY <1>0, <1>a, <1>b, <2>1, <2>2 DEF FlowsAre, Dist
<1>5. ASSUME NEW p \in Procs, NEW c \in Chars, Write(p, c) PROVE InputFlows'
  <2>1. UNCHANGED <<r, w, e, killed, pc>> BY <1>5 DEF Write, input, reads
  <2> QED BY <1>0, <1>a, <1>b, <2>1 DEF FlowsAre, Dist
<1>6. ASSUME NEW p \in Procs, KillProc(p) PROVE InputFlows'
  <2>1. UNCHANGED <<r, w, e>> BY <1>6 DEF KillProc, input
  <2>2. \A q \in Procs : pc'[q] = "asleep" => q # p /\ pc[q] = "asleep" /\ killed'[q] = killed[q]
    BY <1>0, <1>6 DEF KillProc, TypeOK
  <2> QED BY <1>0, <1>a, <1>b, <2>1, <2>2 DEF FlowsAre, Dist
<1>7. CASE UNCHANGED consoleVars
  <2>1. UNCHANGED <<r, w, e, killed, pc>> BY <1>7 DEF consoleVars, input
  <2> QED BY <1>0, <1>a, <1>b, <2>1 DEF FlowsAre, Dist
<1> QED BY <1>1, <1>2, <1>3, <1>4, <1>5, <1>6, <1>7 DEF Next

\* A product is monotonic.
LEMMA Product ==
  ASSUME NEW m \in Nat, NEW i \in Int, NEW j \in Int, i <= j
  PROVE  i * m <= j * m
<1>1. (j - i) * m >= 0 BY j - i \in Nat
<1> QED BY <1>1

\* The page is moved up in time: a cursor at most a row below it comes back.
LEMMA ScrolledOnPage ==
  ASSUME NEW x \in Nat, x < (ROWS - 1) * COLS + COLS
  PROVE  Scrolled(x) \in Nat /\ Scrolled(x) < (ROWS - 1) * COLS
<1> DEFINE q == x \div COLS
           k == x % COLS
           page == (ROWS - 1) * COLS
<1>1. q \in Int /\ k \in 0 .. COLS - 1 /\ x = q * COLS + k
  BY Remainder, Numbers
<1>2. page \in Int /\ x < page + COLS BY Numbers
<1>3. Scrolled(x) = IF q >= ROWS - 1 THEN x - COLS ELSE x
  BY DEF Scrolled
<1> HIDE DEF q, k
<1>4. CASE q >= ROWS - 1
  <2>1. q * COLS >= page BY <1>1, <1>4, Product, Numbers
  <2>2. page >= COLS
    <3>1. 1 * COLS <= (ROWS - 1) * COLS BY Product, Numbers
    <3> QED BY <3>1, Numbers
  <2>3. x >= COLS
    <3> HIDE DEF page
    <3>1. q * COLS \in Int BY <1>1, Numbers
    <3> QED BY <1>1, <1>2, <2>1, <2>2, <3>1, Numbers
  <2> HIDE DEF page
  <2>4. Scrolled(x) \in Nat /\ Scrolled(x) < page
    BY <1>2, <1>3, <1>4, <2>3, Numbers
  <2> QED BY <2>4 DEF page
<1>5. CASE ~(q >= ROWS - 1)
  <2>1. q + 1 <= ROWS - 1 BY <1>1, <1>5, Numbers
  <2>2. (q + 1) * COLS <= page BY <1>1, <2>1, Product, Numbers
  <2>3. (q + 1) * COLS = q * COLS + COLS /\ q * COLS \in Int BY <1>1, Numbers
  <2> HIDE DEF page
  <2>4. x < page BY <1>1, <1>2, <2>2, <2>3, Numbers
  <2> QED BY <1>3, <1>5, <2>4 DEF page
<1> QED BY <1>4, <1>5

\* Echo and backspaces leave the cursor on the page.
LEMMA CursorStays ==
  ASSUME TypeOK, CursorOnPage
  PROVE  /\ \A c \in Chars : Echo(c) < (ROWS - 1) * COLS
         /\ \A n \in Nat : Backward(pos, n) < (ROWS - 1) * COLS
<1> DEFINE page == (ROWS - 1) * COLS
<1>1. page \in Int /\ pos \in Nat /\ pos < page /\ pos % COLS \in 0 .. COLS - 1
  BY Remainder, Numbers DEF TypeOK, CursorOnPage
<1>2. ASSUME NEW x \in Nat, x < page + COLS PROVE Scrolled(x) < page
  BY <1>2, ScrolledOnPage
<1> HIDE DEF page
<1>3. ASSUME NEW c \in Chars PROVE Echo(c) < page
  <2>1. pos + 1 \in Nat /\ pos + 1 < page + COLS BY <1>1, Numbers
  <2>2. /\ pos + COLS - (pos % COLS) \in Nat
        /\ pos + COLS - (pos % COLS) < page + COLS
    BY <1>1, Numbers
  <2> QED BY <1>2, <2>1, <2>2 DEF Echo, Forward, NextLine
<1>4. ASSUME NEW n \in Nat PROVE Backward(pos, n) < page
  <2> DEFINE x == IF pos > n THEN pos - n ELSE 0
  <2>1. x \in Nat /\ x < page + COLS BY <1>1, Numbers
  <2> HIDE DEF x
  <2>2. Scrolled(x) < page BY <1>2, <2>1
  <2> QED BY <2>2 DEF Backward, x
<1> QED BY <1>3, <1>4 DEF page

\* Every step keeps the cursor on the page.
LEMMA CursorStep == ConsoleInv /\ [Next]_consoleVars => CursorOnPage'
<1> SUFFICES ASSUME ConsoleInv, [Next]_consoleVars PROVE CursorOnPage'
  OBVIOUS
<1>1. TypeOK /\ InputFlows BY DEF ConsoleInv, InputFlows
<1>2. /\ \A c \in Chars : Echo(c) < (ROWS - 1) * COLS
      /\ \A n \in Nat : Backward(pos, n) < (ROWS - 1) * COLS
      /\ pos < (ROWS - 1) * COLS
  BY <1>1, CursorStays DEF ConsoleInv, CursorOnPage
<1>3. Erased \in Nat BY <1>1, ErasedValue, Indices
<1>4. \/ pos' = pos
      \/ \E c \in Chars : pos' = Echo(c)
      \/ \E n \in Nat : pos' = Backward(pos, n)
  <2>1. CASE \E c \in Chars : Type(c) BY <2>1 DEF Type
  <2>2. CASE Backspace BY <2>2 DEF Backspace
  <2>3. CASE KillLine BY <1>3, <2>3 DEF KillLine
  <2>4. CASE \E p \in Procs : \E c \in Chars \ {Eof} : Write(p, c) BY <2>4 DEF Write
  <2>5. CASE \E p \in Procs : \/ \E n \in Lengths : Call(p, n)
                              \/ Read(p) \/ ReadSleeps(p) \/ ReadFails(p) \/ KillProc(p)
    BY <2>5 DEF Call, Read, ReadSleeps, ReadFails, KillProc
  <2>6. CASE UNCHANGED consoleVars BY <2>6 DEF consoleVars
  <2> QED BY <2>1, <2>2, <2>3, <2>4, <2>5, <2>6 DEF Next
<1> QED BY <1>2, <1>4 DEF CursorOnPage

\* The console's invariant: the indices keep their order across both kinds of wrapping,
\* nobody sleeps over input, and cgaputc does not panic, for every size of the ring, of
\* the screen and of the integers.
THEOREM ConsoleCorrect == Spec => []ConsoleInv
<1>1. Init => ConsoleInv
  <2>1. Init => CursorOnPage
    <3>1. 1 * COLS <= (ROWS - 1) * COLS BY Product, Numbers
    <3>2. 0 < (ROWS - 1) * COLS BY <3>1, Numbers
    <3> QED BY <3>2 DEF Init, CursorOnPage
  <2> QED BY <2>1, ConsoleInit DEF ConsoleInv
<1>2. ConsoleInv /\ [Next]_consoleVars => ConsoleInv'
  BY FlowStep, CursorStep DEF ConsoleInv
<1> QED BY <1>1, <1>2, PTL DEF Spec

\* An end of file is not read together with what came before it: a read that has copied
\* something before it slept takes no ^D out of the ring.
THEOREM EofAlone == Spec => EofByItself
<1> DEFINE Alone == \A p \in Procs :
                      pc[p] = "read" /\ pc'[p] = "user" /\ copied[p] > 0
                        => \A k \in 1 .. (r' - r) % Wrap : CharAt(k) # Eof
<1>1. ConsoleInv /\ [Next]_consoleVars => [Alone]_consoleVars
  <2> SUFFICES ASSUME ConsoleInv, Next,
                      NEW p \in Procs, pc[p] = "read", pc'[p] = "user", copied[p] > 0,
                      NEW k \in 1 .. (r' - r) % Wrap
               PROVE  CharAt(k) # Eof
    OBVIOUS
  <2>1. InputFlows /\ TypeOK BY DEF ConsoleInv, InputFlows
  <2>2. Read(p) \/ ReadFails(p)
    <3>1. CASE \E c \in Chars : Type(c)
      BY <2>1, <3>1 DEF Type, WakeReaders, TypeOK
    <3>2. CASE Backspace \/ KillLine BY <3>2 DEF Backspace, KillLine, reads
    <3>3. ASSUME NEW q \in Procs,
                 \/ \E n \in Lengths : Call(q, n)
                 \/ \E c \in Chars \ {Eof} : Write(q, c)
                 \/ ReadSleeps(q) \/ KillProc(q)
          PROVE  FALSE
      BY <2>1, <3>3 DEF Call, Write, ReadSleeps, KillProc, reads, TypeOK
    <3>4. ASSUME NEW q \in Procs, Read(q) \/ ReadFails(q) PROVE q = p
      BY <2>1, <3>4 DEF Read, ReadFails, Return, TypeOK
    <3> QED BY <3>1, <3>2, <3>3, <3>4 DEF Next
  <2>3. r' = Plus(r, Copies(p)) /\ UNCHANGED <<w, e>>
    <3>1. ~TakesEof(p) BY <2>1 DEF TakesEof, TypeOK
    <3>2. Copies(p) \in Nat BY <2>1, CopiesValue, Indices
    <3> QED BY <2>2, <3>1, <3>2 DEF Read, ReadFails
  <2>4. Dist(r, r') = Copies(p)
    BY <2>1, <2>3, CopiesValue, Taken
  <2> QED BY <2>1, <2>4, CopiedLine DEF Dist
<1> QED BY <1>1, ConsoleCorrect, PTL DEF Spec, EofByItself

-----------------------------------------------------------------------------
(* The ring implements the terminal *)

\* n characters of a ring b, from index i on.
Cut(b, i, n) == [k \in 1 .. n |-> b[Slot(Plus(i, k - 1))]]

Rings == [Slots -> Chars]

\* A part of a ring is a sequence of characters.
LEMMA CutIsSeq ==
  ASSUME NEW b \in Rings, NEW i \in Index, NEW n \in 0 .. INPUT_BUF
  PROVE  /\ Cut(b, i, n) \in Seq(Chars)
         /\ Len(Cut(b, i, n)) = n
         /\ \A k \in 1 .. n : Cut(b, i, n)[k] = b[(i + k - 1) % INPUT_BUF]
<1> DEFINE s == Cut(b, i, n)
<1>1. ASSUME NEW k \in 1 .. n
      PROVE  /\ Slot(Plus(i, k - 1)) \in Slots
             /\ s[k] = b[(i + k - 1) % INPUT_BUF]
  <2>1. k - 1 \in Int /\ -Wrap <= k - 1 /\ k - 1 <= Wrap BY <1>1, Numbers
  <2>2. Slot(Plus(i, k - 1)) = (i + (k - 1)) % INPUT_BUF /\ Slot(Plus(i, k - 1)) \in Slots
    BY <2>1, SlotOfStep
  <2>3. i + (k - 1) = i + k - 1 BY <1>1 DEF Index
  <2> QED BY <1>1, <2>2, <2>3 DEF Cut
<1>2. n \in Nat BY Numbers
<1>3. s \in [1 .. n -> Chars] BY <1>1 DEF Cut, Rings
<1>4. s \in Seq(Chars) BY <1>2, <1>3, SeqDef
<1>5. Len(s) = n
  <2>1. DOMAIN s = 1 .. Len(s) /\ Len(s) \in Nat BY <1>4, LenProperties
  <2>2. DOMAIN s = 1 .. n BY <1>3
  <2>3. PICK l \in Nat : l = Len(s) BY <2>1
  <2>4. 1 .. l = 1 .. n BY <2>1, <2>2, <2>3
  <2>5. (l >= 1 => l \in 1 .. n) /\ (n >= 1 => n \in 1 .. l) BY <1>2, <2>4
  <2> QED BY <1>2, <2>3, <2>5
<1> QED BY <1>1, <1>4, <1>5

\* Two parts that meet.
LEMMA CutsMeet ==
  ASSUME NEW b \in Rings, NEW i \in Index, NEW m \in Nat, NEW n \in Nat, m + n <= INPUT_BUF
  PROVE  Cut(b, i, m) \o Cut(b, Plus(i, m), n) = Cut(b, i, m + n)
<1>1. m \in 0 .. INPUT_BUF /\ n \in 0 .. INPUT_BUF /\ m + n \in 0 .. INPUT_BUF
  BY Numbers
<1>2. PICK j \in Index : j = Plus(i, m) BY <1>1, Steps, Numbers
<1> DEFINE s == Cut(b, i, m)
           t == Cut(b, j, n)
           u == Cut(b, i, m + n)
<1>3. /\ s \in Seq(Chars) /\ Len(s) = m
      /\ \A k \in 1 .. m : s[k] = b[(i + k - 1) % INPUT_BUF]
  BY <1>1, CutIsSeq
<1>4. /\ t \in Seq(Chars) /\ Len(t) = n
      /\ \A k \in 1 .. n : t[k] = b[Slot(Plus(j, k - 1))]
  BY <1>1, CutIsSeq DEF Cut
<1>5. /\ u \in Seq(Chars) /\ Len(u) = m + n
      /\ \A k \in 1 .. m + n : u[k] = b[(i + k - 1) % INPUT_BUF]
  BY <1>1, CutIsSeq
<1>6. ASSUME NEW k \in 1 .. n PROVE t[k] = b[(i + (m + k) - 1) % INPUT_BUF]
  <2>1. k - 1 \in Int /\ k - 1 >= 0 /\ k - 1 < Wrap /\ m + k - 1 <= Wrap /\ m \in Int
        /\ m + k - 1 \in Int /\ -Wrap <= m + k - 1
    BY <1>1, <1>6, Numbers
  <2>2. Plus(j, k - 1) = Plus(i, m + k - 1)
    <3>1. m + (k - 1) = m + k - 1 /\ k - 1 \in Nat /\ m + (k - 1) <= Wrap BY <2>1
    <3> QED BY <1>2, <3>1, StepsAdd
  <2>3. Slot(Plus(i, m + k - 1)) = (i + (m + k - 1)) % INPUT_BUF
    BY <2>1, SlotOfStep
  <2>4. i + (m + k - 1) = i + (m + k) - 1 BY <1>6 DEF Index
  <2> QED BY <1>4, <1>6, <2>2, <2>3, <2>4
<1> HIDE DEF s, t, u
<1>7. /\ s \o t \in Seq(Chars) /\ Len(s \o t) = m + n
      /\ \A k \in 1 .. m + n : (s \o t)[k] = IF k <= m THEN s[k] ELSE t[k - m]
  BY <1>3, <1>4, ConcatProperties
<1>8. ASSUME NEW k \in 1 .. m + n PROVE (s \o t)[k] = u[k]
  <2>1. CASE k <= m
    <3>1. k \in 1 .. m BY <1>8, <2>1
    <3>2. (s \o t)[k] = s[k] BY <1>7, <1>8, <2>1
    <3> QED BY <1>3, <1>5, <1>8, <3>1, <3>2
  <2>2. CASE ~(k <= m)
    <3>1. k - m \in 1 .. n /\ m + (k - m) = k BY <1>8, <2>2
    <3>2. t[k - m] = b[(i + (m + (k - m)) - 1) % INPUT_BUF] BY <1>6, <3>1
    <3> QED BY <1>5, <1>7, <1>8, <2>2, <3>1, <3>2
  <2> QED BY <2>1, <2>2
<1>9. s \o t = u BY <1>5, <1>7, <1>8, SeqEqual
<1> QED BY <1>2, <1>9 DEF s, t, u

\* The first characters of a part, and what is left of it.
LEMMA CutOfCut ==
  ASSUME NEW b \in Rings, NEW i \in Index, NEW m \in Nat, NEW n \in Nat, m + n <= INPUT_BUF
  PROVE  /\ SubSeq(Cut(b, i, m + n), 1, m) = Cut(b, i, m)
         /\ SubSeq(Cut(b, i, m + n), m + 1, m + n) = Cut(b, Plus(i, m), n)
<1>1. m \in 0 .. INPUT_BUF /\ n \in 0 .. INPUT_BUF /\ Plus(i, m) \in Index
  BY Steps, Numbers
<1>2. /\ Cut(b, i, m) \in Seq(Chars) /\ Len(Cut(b, i, m)) = m
      /\ Cut(b, Plus(i, m), n) \in Seq(Chars) /\ Len(Cut(b, Plus(i, m), n)) = n
  BY <1>1, CutIsSeq
<1>3. ASSUME NEW s \in Seq(Chars), NEW t \in Seq(Chars)
      PROVE  /\ SubSeq(s \o t, 1, Len(s)) = s
             /\ SubSeq(s \o t, Len(s) + 1, Len(s) + Len(t)) = t
  <2> DEFINE u == s \o t
             m1 == Len(s)
             n1 == Len(t)
  <2>1. /\ m1 \in Nat /\ n1 \in Nat
        /\ u \in Seq(Chars) /\ Len(u) = m1 + n1
        /\ \A k \in 1 .. m1 + n1 : u[k] = IF k <= m1 THEN s[k] ELSE t[k - m1]
        /\ \A k \in 1 .. m1 + n1 : u[k] \in Chars
    BY LenProperties, ConcatProperties, ElementOfSeq
  <2> HIDE DEF u, m1, n1
  <2>2. SubSeq(u, 1, m1) = s
    <3>1. \A k \in 1 .. m1 : u[k] \in Chars BY <2>1
    <3>2. /\ SubSeq(u, 1, m1) \in Seq(Chars)
          /\ Len(SubSeq(u, 1, m1)) = m1
          /\ \A k \in 1 .. m1 : SubSeq(u, 1, m1)[k] = u[k]
      BY <2>1, <3>1, SubSeqProperties
    <3>3. \A k \in 1 .. m1 : u[k] = s[k] BY <2>1
    <3> QED BY <3>2, <3>3, SeqEqual DEF m1
  <2>3. SubSeq(u, m1 + 1, m1 + n1) = t
    <3> DEFINE v == SubSeq(u, m1 + 1, m1 + n1)
    <3>1. \A k \in m1 + 1 .. m1 + n1 : u[k] \in Chars BY <2>1
    <3>2. PICK x \in Int, y \in Int : x = m1 + 1 /\ y = m1 + n1 BY <2>1
    <3>3. v = SubSeq(u, x, y) BY <3>2
    <3>4. \A k \in x .. y : u[k] \in Chars BY <3>1, <3>2
    <3>5. /\ SubSeq(u, x, y) \in Seq(Chars)
          /\ Len(SubSeq(u, x, y)) = IF x <= y THEN y - x + 1 ELSE 0
          /\ \A k \in 1 .. y - x + 1 : SubSeq(u, x, y)[k] = u[x + k - 1]
      BY <3>4, SubSeqProperties
    <3>6. y - x + 1 = n1 BY <2>1, <3>2
    <3>7. v \in Seq(Chars) /\ Len(v) = n1 BY <2>1, <3>2, <3>3, <3>5, <3>6
    <3>8. ASSUME NEW k \in 1 .. n1 PROVE v[k] = t[k]
      <4>1. v[k] = u[x + k - 1] BY <3>3, <3>5, <3>6
      <4>2. PICK z \in Int : z = x + k - 1 BY <3>8
      <4>3. z \in 1 .. m1 + n1 /\ ~(z <= m1) /\ z - m1 = k BY <2>1, <3>2, <3>8, <4>2
      <4> QED BY <2>1, <4>1, <4>2, <4>3
    <3> HIDE DEF v
    <3>9. v = t BY <3>7, <3>8, SeqEqual DEF n1
    <3> QED BY <3>9 DEF v
  <2> QED BY <2>2, <2>3 DEF u, m1, n1
<1>4. PICK s \in Seq(Chars), t \in Seq(Chars) :
        s = Cut(b, i, m) /\ t = Cut(b, Plus(i, m), n) /\ Len(s) = m /\ Len(t) = n
  BY <1>2
<1>5. s \o t = Cut(b, i, m + n) BY <1>4, CutsMeet
<1>6. SubSeq(s \o t, 1, m) = s /\ SubSeq(s \o t, m + 1, m + n) = t
  BY <1>3, <1>4
<1> QED BY <1>4, <1>5, <1>6

\* A character is put where the ring is free: it comes after what is there.
LEMMA CutGrows ==
  ASSUME NEW b \in Rings, NEW i \in Index, NEW m \in Nat, NEW n \in Nat, m <= n, n < INPUT_BUF,
         NEW c \in Chars, NEW d \in Rings,
         d[Slot(Plus(i, n))] = c,
         \A k \in Slots : k # Slot(Plus(i, n)) => d[k] = b[k]
  PROVE  /\ Cut(d, i, m) = Cut(b, i, m)
         /\ n = m => Cut(d, i, m + 1) = Append(Cut(b, i, m), c)
<1>1. n \in Int /\ -Wrap <= n /\ n <= Wrap BY Numbers
<1>2. Slot(Plus(i, n)) = (i + n) % INPUT_BUF /\ Slot(Plus(i, n)) \in Slots
  BY <1>1, SlotOfStep
<1>3. ASSUME NEW k \in 1 .. m PROVE d[Slot(Plus(i, k - 1))] = b[Slot(Plus(i, k - 1))]
  <2>1. k - 1 \in Int /\ -Wrap <= k - 1 /\ k - 1 <= Wrap BY <1>3, Numbers
  <2>2. Slot(Plus(i, k - 1)) = (i + (k - 1)) % INPUT_BUF /\ Slot(Plus(i, k - 1)) \in Slots
    BY <2>1, SlotOfStep
  <2>3. i + (k - 1) < i + n /\ i + n < i + (k - 1) + INPUT_BUF
        /\ i + (k - 1) \in Int /\ i + n \in Int
    BY <1>3, Numbers DEF Index
  <2>4. (i + (k - 1)) % INPUT_BUF # (i + n) % INPUT_BUF
    BY ONLY <2>3, Numbers, RemaindersDiffer
  <2> QED BY <1>2, <2>2, <2>4 DEF Rings
<1>4. Cut(d, i, m) = Cut(b, i, m) BY <1>3 DEF Cut
<1>5. ASSUME n = m PROVE Cut(d, i, m + 1) = Append(Cut(b, i, m), c)
  <2> DEFINE s == Cut(b, i, m)
             u == Cut(d, i, m + 1)
  <2>1. s \in Seq(Chars) /\ Len(s) = m
    <3>1. m \in 0 .. INPUT_BUF BY Numbers
    <3> QED BY <3>1, CutIsSeq
  <2>2. u \in Seq(Chars) /\ Len(u) = m + 1
    <3>1. m + 1 \in 0 .. INPUT_BUF BY <1>5, Numbers
    <3> QED BY <3>1, CutIsSeq
  <2>3. \A k \in 1 .. m : u[k] = s[k] BY <1>3 DEF Cut
  <2>4. u[m + 1] = c
    <3>1. m + 1 - 1 = n BY <1>5
    <3>2. u[m + 1] = d[Slot(Plus(i, n))] BY <3>1 DEF Cut
    <3> QED BY <1>2, <3>2 DEF Rings
  <2> HIDE DEF s, u
  <2>5. /\ Append(s, c) \in Seq(Chars) /\ Len(Append(s, c)) = m + 1
        /\ \A k \in 1 .. m : Append(s, c)[k] = s[k]
        /\ Append(s, c)[m + 1] = c
    BY <2>1, AppendProperties
  <2>6. \A k \in 1 .. m + 1 : u[k] = Append(s, c)[k]
    BY <2>3, <2>4, <2>5
  <2>7. u = Append(s, c) BY <2>2, <2>5, <2>6, SeqEqual
  <2> QED BY <2>7 DEF s, u
<1> QED BY <1>4, <1>5

\* The two parts of the ring that the terminal shows.
ReadySeq == [k \in 1 .. Ready |-> CharAt(k)]
LineSeq  == [k \in 1 .. (e - w) % Wrap |-> buf[Slot(Plus(w, k - 1))]]

\* They are parts of the ring, before and after a step.
LEMMA Views ==
  /\ ReadySeq = Cut(buf, r, Ready) /\ ReadySeq' = Cut(buf', r', Dist(r', w'))
  /\ LineSeq = Cut(buf, w, Editable) /\ LineSeq' = Cut(buf', w', Dist(w', e'))
BY DEF ReadySeq, LineSeq, Cut, Ready, CharAt, Editable, Dist

\* The line that is still edited holds no newline: ^U always erases all of it.
LineOpen == \A k \in 1 .. Dist(w, e) : LineSeq[k] # Newline

\* The two parts meet, and the second ends where the next character goes.
LEMMA PartsMeet ==
  ASSUME InputFlows
  PROVE  /\ w = Plus(r, Ready) /\ e = Plus(w, Editable) /\ e = Plus(r, Buffered)
         /\ ReadySeq \in Seq(Chars) /\ Len(ReadySeq) = Ready
         /\ LineSeq \in Seq(Chars) /\ Len(LineSeq) = Editable
         /\ buf \in Rings
<1>1. /\ r \in Index /\ w \in Index /\ e \in Index /\ Ready = Dist(r, w)
      /\ Ready \in Nat /\ Ready <= Buffered /\ Buffered \in Nat /\ Buffered <= INPUT_BUF
      /\ Editable = Buffered - Ready /\ Editable \in Nat
      /\ Editable = Dist(w, e) /\ Buffered = Dist(r, e)
  BY Indices DEF Editable, Buffered
<1>2. ASSUME NEW i \in Index, NEW j \in Index, Dist(i, j) <= INPUT_BUF
      PROVE  j = Plus(i, Dist(i, j))
  <2>1. Dist(i, i) = 0 /\ Dist(i, j) \in Index BY Distance
  <2>2. PICK n \in Nat : n = Dist(i, j) /\ n < Wrap /\ n \in Int /\ -Wrap <= n BY <2>1, Numbers DEF Index
  <2>3. Dist(i, Plus(i, n)) = n BY <2>1, <2>2, DistanceToStep
  <2>4. Plus(i, n) \in Index BY <2>2, Steps, Numbers
  <2> QED BY <2>2, <2>3, <2>4, SameDistance
<1>3. buf \in Rings BY DEF InputFlows, TypeOK, Rings
<1>4. Ready \in 0 .. INPUT_BUF /\ Editable \in 0 .. INPUT_BUF /\ Ready <= INPUT_BUF
      /\ Editable <= INPUT_BUF
  BY <1>1, Numbers
<1> QED BY <1>1, <1>2, <1>3, <1>4, CutIsSeq, Views

\* Going back from the end of the line is going less far from its start.
LEMMA StepBack ==
  ASSUME InputFlows, NEW n \in 0 .. Editable
  PROVE  /\ Plus(e, -n) = Plus(w, Editable - n) /\ Plus(e, -n) \in Index
         /\ Dist(w, Plus(e, -n)) = Editable - n
<1>1. w \in Index /\ e \in Index /\ Editable \in Nat /\ Editable <= INPUT_BUF
      /\ Editable = Dist(w, e)
  <2>1. Ready \in Nat /\ Buffered \in Nat /\ Buffered <= INPUT_BUF /\ Editable = Buffered - Ready
    BY Indices
  <2> QED BY <2>1, Indices, Numbers DEF Editable
<1>2. PICK m \in Int : m = -n /\ -Wrap <= m /\ m <= 0 /\ 0 <= Dist(w, e) + m
                      /\ Dist(w, e) + m < Wrap /\ Editable + m = Editable - n
  BY <1>1, Numbers
<1>3. Plus(e, m) \in Index BY <1>1, <1>2, Steps, Numbers
<1>4. Dist(w, Plus(e, m)) = Editable + m BY <1>1, <1>2, DistanceToStep
<1>5. PICK k \in Nat : k = Editable - n BY <1>1
<1>6. Plus(w, k) \in Index /\ Dist(w, Plus(w, k)) = k
  <2>1. k \in Int /\ -Wrap <= k /\ k <= Wrap /\ k < Wrap BY <1>1, <1>5, Numbers
  <2>2. Dist(w, w) = 0 BY <1>1, Distance
  <2> QED BY <1>1, <2>1, <2>2, Steps, DistanceToStep
<1>7. Plus(e, m) = Plus(w, k) BY <1>1, <1>2, <1>3, <1>4, <1>5, <1>6, SameDistance
<1> QED BY <1>2, <1>3, <1>4, <1>5, <1>7

\* ^U erases the whole line.
LEMMA ErasesLine ==
  ASSUME InputFlows, LineOpen
  PROVE  Erased = Editable
<1>1. w \in Index /\ e \in Index /\ Editable \in Nat /\ Editable <= INPUT_BUF
      /\ Editable = Dist(w, e)
  <2>1. Ready \in Nat /\ Buffered \in Nat /\ Buffered <= INPUT_BUF /\ Editable = Buffered - Ready
    BY Indices
  <2> QED BY <2>1, Indices, Numbers DEF Editable
<1> DEFINE Q(n) == Plus(e, -n) = w \/ buf[Slot(Plus(e, -n - 1))] = Newline
<1>2. ASSUME NEW n \in 0 .. Editable, n < Editable PROVE ~Q(n)
  <2>1. Plus(e, -n) # w
    <3>1. Dist(w, w) = 0 /\ Dist(w, Plus(e, -n)) = Editable - n BY <1>1, Distance, StepBack
    <3> QED BY <1>1, <1>2, <3>1
  <2>2. PICK k \in 1 .. Editable : k = Editable - n BY <1>1, <1>2
  <2>3. Plus(e, -n - 1) = Plus(w, k - 1)
    <3>1. n + 1 \in 0 .. Editable /\ -(n + 1) = -n - 1 /\ Editable - (n + 1) = k - 1
      BY <1>1, <1>2, <2>2
    <3>2. Plus(e, -(n + 1)) = Plus(w, Editable - (n + 1)) BY <3>1, StepBack
    <3> QED BY <3>1, <3>2
  <2>4. LineSeq[k] = buf[Slot(Plus(w, k - 1))]
    BY <1>1 DEF LineSeq, Dist
  <2> QED BY <1>1, <2>1, <2>3, <2>4 DEF LineOpen
<1>3. Q(Editable)
  <2>1. Editable \in 0 .. Editable /\ Editable - Editable = 0 BY <1>1
  <2>2. Dist(w, Plus(e, -Editable)) = 0 /\ Plus(e, -Editable) \in Index BY <2>1, StepBack
  <2> QED BY <1>1, <2>2, Distance
<1>4. \E k \in 0 .. INPUT_BUF :
        /\ \A m \in 0 .. k - 1 : Plus(e, -m) # w /\ buf[Slot(Plus(e, -m - 1))] # Newline
        /\ Plus(e, -k) = w \/ buf[Slot(Plus(e, -k - 1))] = Newline
  <2>1. Editable \in 0 .. INPUT_BUF BY <1>1, Numbers
  <2>2. \A m \in 0 .. Editable - 1 : ~Q(m) BY <1>1, <1>2
  <2> QED BY <1>3, <2>1, <2>2
<1>5. Erased \in 0 .. INPUT_BUF /\ Q(Erased)
  BY <1>4 DEF Erased
<1>6. Erased \in 0 .. Editable BY ErasedValue
<1> QED BY <1>1, <1>2, <1>5, <1>6

\* A character joins the line, and may end it.
LEMMA TypedLine ==
  ASSUME InputFlows, LineOpen, NEW c \in Chars, Type(c)
  PROVE  Term!Type(c) /\ LineOpen'
<1>1. /\ r \in Index /\ w \in Index /\ e \in Index
      /\ Ready \in Nat /\ Editable \in Nat /\ Buffered \in Nat /\ Buffered = Ready + Editable
      /\ Ready = Dist(r, w) /\ Editable = Dist(w, e)
      /\ w = Plus(r, Ready) /\ e = Plus(w, Editable) /\ e = Plus(r, Buffered)
      /\ ReadySeq \in Seq(Chars) /\ Len(ReadySeq) = Ready
      /\ LineSeq \in Seq(Chars) /\ Len(LineSeq) = Editable
      /\ buf \in Rings
  <2>1. Buffered = Ready + Editable BY Indices
  <2>2. Editable = Dist(w, e) BY DEF Editable
  <2> QED BY <2>1, <2>2, Indices, PartsMeet
<1>2. /\ Buffered < INPUT_BUF
      /\ e' \in Index /\ Dist(r, e') = Buffered + 1 /\ Dist(w, e') = Editable + 1
      /\ Ends(c) <=> c \in {Newline, Eof} \/ Buffered + 1 = INPUT_BUF
  BY Typed
<1>3. /\ buf' = [buf EXCEPT ![Slot(e)] = c] /\ r' = r
      /\ (Ends(c) => w' = e') /\ (~Ends(c) => w' = w)
  BY DEF Type
<1>4. buf' \in Rings BY <1>1, <1>3 DEF Rings
<1>a. buf'[Slot(e)] = c /\ \A k \in Slots : k # Slot(e) => buf'[k] = buf[k]
  <2>1. Slot(e) \in Slots
    <3>1. e \in Int BY <1>1, Numbers DEF Index
    <3> QED BY ONLY <3>1, Remainder, Numbers DEF Slot, Slots
  <2> QED BY <1>1, <1>3, <2>1 DEF Rings
<1>5. Cut(buf', r, Ready) = ReadySeq
  <2>1. Slot(e) = Slot(Plus(r, Buffered)) /\ Ready <= Buffered BY <1>1
  <2>2. Cut(buf', r, Ready) = Cut(buf, r, Ready) BY <1>1, <1>2, <1>4, <1>a, <2>1, CutGrows
  <2> QED BY <2>2, Views
<1>6. Cut(buf', w, Editable + 1) = Append(LineSeq, c)
  <2>1. Slot(e) = Slot(Plus(w, Editable)) BY <1>1
  <2>2. Editable < INPUT_BUF BY <1>1, <1>2, Numbers
  <2>3. Cut(buf', w, Editable + 1) = Append(Cut(buf, w, Editable), c)
    BY <1>1, <1>4, <1>a, <2>1, <2>2, CutGrows
  <2> QED BY <2>3, Views
<1>7. Len(ReadySeq) + Len(LineSeq) < INPUT_BUF /\ Len(ReadySeq) + Len(LineSeq) = Buffered
  BY <1>1, <1>2
<1>8. CASE Ends(c)
  <2>1. Dist(r', w') = Buffered + 1 /\ Dist(w', e') = 0
    BY <1>2, <1>3, <1>8, Distance
  <2>2. ReadySeq' = ReadySeq \o Append(LineSeq, c)
    <3>1. Editable + 1 \in Nat /\ Ready + (Editable + 1) <= INPUT_BUF
          /\ Ready + (Editable + 1) = Buffered + 1
      BY <1>1, <1>2, Numbers
    <3>2. Cut(buf', r, Ready) \o Cut(buf', Plus(r, Ready), Editable + 1) = Cut(buf', r, Ready + (Editable + 1))
      <4>1. PICK n \in Nat : n = Editable + 1 BY <3>1
      <4>2. r \in Index /\ Ready \in Nat /\ Ready + n <= INPUT_BUF BY <1>1, <3>1, <4>1
      <4> QED BY ONLY <1>4, <4>1, <4>2, CutsMeet
    <3>3. ReadySeq' = Cut(buf', r, Buffered + 1) BY <1>3, <2>1, Views
    <3> QED BY <1>1, <1>5, <1>6, <3>1, <3>2, <3>3
  <2>3. LineSeq' = <<>>
    <3>1. LineSeq' = Cut(buf', w', 0) BY <2>1, Views
    <3>2. Cut(buf', e', 0) \in Seq(Chars) /\ Len(Cut(buf', e', 0)) = 0
      <4>1. 0 \in 0 .. INPUT_BUF BY Numbers
      <4> QED BY <1>2, <1>4, <4>1, CutIsSeq
    <3> QED BY <1>3, <1>8, <3>1, <3>2, EmptySeq
  <2>4. LineOpen'
    <3>1. Dist(w, e)' = 0 BY <2>1 DEF Dist
    <3> QED BY <3>1 DEF LineOpen
  <2>5. c \in {Newline, Eof} \/ Len(ReadySeq) + Len(LineSeq) + 1 = INPUT_BUF
    BY <1>2, <1>7, <1>8
  <2> QED BY <1>7, <2>2, <2>3, <2>4, <2>5 DEF Term!Type, ReadySeq, LineSeq
<1>9. CASE ~Ends(c)
  <2>1. Dist(r', w') = Ready /\ Dist(w', e') = Editable + 1 /\ w' = w
    BY <1>1, <1>2, <1>3, <1>9
  <2>2. ReadySeq' = ReadySeq BY <1>3, <1>5, <2>1, Views
  <2>3. LineSeq' = Append(LineSeq, c) BY <1>6, <2>1, Views
  <2>4. ~(c \in {Newline, Eof} \/ Len(ReadySeq) + Len(LineSeq) + 1 = INPUT_BUF)
    BY <1>2, <1>7, <1>9
  <2>5. LineOpen'
    <3>1. Dist(w, e)' = Editable + 1 BY <2>1 DEF Dist
    <3>2. ASSUME NEW k \in 1 .. Editable + 1 PROVE LineSeq'[k] # Newline
      <4>1. /\ \A i \in 1 .. Editable : Append(LineSeq, c)[i] = LineSeq[i]
            /\ Append(LineSeq, c)[Editable + 1] = c
        BY <1>1, AppendProperties
      <4>2. CASE k = Editable + 1 BY <2>3, <2>4, <4>1, <4>2
      <4>3. CASE k # Editable + 1
        <5>1. k \in 1 .. Editable BY <1>1, <3>2, <4>3
        <5> QED BY <1>1, <2>3, <4>1, <5>1 DEF LineOpen
      <4> QED BY <4>2, <4>3
    <3> QED BY <3>1, <3>2 DEF LineOpen
  <2> QED BY <1>7, <2>2, <2>3, <2>4, <2>5 DEF Term!Type, ReadySeq, LineSeq
<1> QED BY <1>8, <1>9

\* Backspaces take characters off the end of the line, and nothing else.
LEMMA ErasedLine ==
  ASSUME InputFlows, LineOpen, NEW n \in 0 .. Editable, e' = Plus(e, -n),
         UNCHANGED <<buf, r, w>>
  PROVE  /\ ReadySeq' = ReadySeq
         /\ LineSeq' = SubSeq(LineSeq, 1, Editable - n)
         /\ LineOpen'
<1>1. /\ w \in Index /\ Editable \in Nat /\ Editable <= INPUT_BUF /\ buf \in Rings
      /\ Editable = Dist(w, e) /\ Dist(w, e') = Editable - n
  <2>1. Ready \in Nat /\ Buffered \in Nat /\ Buffered <= INPUT_BUF /\ Editable = Buffered - Ready
    BY Indices
  <2> QED BY <2>1, Indices, Numbers, PartsMeet, StepBack DEF Editable
<1>2. ReadySeq' = ReadySeq BY Views DEF Ready, Dist
<1>3. PICK m \in Nat : m = Editable - n /\ m + n = Editable /\ m <= Editable BY <1>1
<1>4. LineSeq' = Cut(buf, w, m) BY <1>1, <1>3, Views
<1>5. SubSeq(Cut(buf, w, m + n), 1, m) = Cut(buf, w, m)
  <2>1. n \in Nat /\ m + n <= INPUT_BUF BY <1>1, <1>3
  <2> QED BY <1>1, <2>1, CutOfCut
<1>6. LineSeq' = SubSeq(LineSeq, 1, Editable - n) BY <1>3, <1>4, <1>5, Views
<1>7. LineOpen'
  <2>1. Dist(w, e)' = m BY <1>1, <1>3 DEF Dist
  <2>2. ASSUME NEW k \in 1 .. m PROVE LineSeq'[k] # Newline
    <3>1. k \in 1 .. Editable BY <1>1, <1>3
    <3>2. LineSeq'[k] = LineSeq[k]
      BY <1>3, <1>4, <3>1, Views DEF Cut
    <3> QED BY <1>1, <3>1, <3>2 DEF LineOpen
  <2> QED BY <2>1, <2>2 DEF LineOpen
<1> QED BY <1>2, <1>6, <1>7

\* A read takes a piece of one line, or an end of file, or nothing.
LEMMA ReadLine ==
  ASSUME InputFlows, LineOpen, NEW p \in Procs, Read(p) \/ ReadSleeps(p) \/ ReadFails(p)
  PROVE  /\ (\E m \in 1 .. INPUT_BUF : Term!Read(m)) \/ UNCHANGED <<ReadySeq, LineSeq>>
         /\ LineOpen'
<1>1. /\ r \in Index /\ w \in Index /\ e \in Index
      /\ Ready \in Nat /\ Ready <= INPUT_BUF /\ Ready = Dist(r, w)
      /\ ReadySeq \in Seq(Chars) /\ Len(ReadySeq) = Ready
      /\ LineSeq \in Seq(Chars)
      /\ buf \in Rings
      /\ Copies(p) \in 0 .. Ready
  <2>1. Ready \in Nat /\ Ready <= Buffered /\ Buffered \in Nat /\ Buffered <= INPUT_BUF
    BY Indices
  <2>2. Ready <= INPUT_BUF BY <2>1, Numbers
  <2>3. Copies(p) \in 0 .. Ready BY CopiesValue
  <2> QED BY <2>2, <2>3, Indices, PartsMeet
<1>2. UNCHANGED <<buf, w, e>> BY DEF Read, ReadSleeps, ReadFails
<1>3. LineSeq' = LineSeq /\ LineOpen'
  <2>1. LineSeq' = LineSeq BY <1>2 DEF LineSeq
  <2> QED BY <1>2, <2>1 DEF LineOpen, Dist
<1>4. PICK n \in 0 .. Ready :
        /\ r' = Plus(r, n)
        /\ n = Copies(p) \/ (n = 1 /\ Copies(p) = 0)
  <2>1. CASE TakesEof(p) /\ Read(p)
    <3>1. 1 \in 0 .. Ready BY <1>1, <2>1 DEF TakesEof
    <3>2. r' = Plus(r, 1) BY <2>1 DEF Read, TakesEof
    <3> QED BY <2>1, <3>1, <3>2 DEF TakesEof
  <2>2. CASE ~(TakesEof(p) /\ Read(p))
    <3>1. r' = Plus(r, Copies(p)) BY <1>1, <2>2 DEF Read, ReadSleeps, ReadFails
    <3> QED BY <1>1, <3>1
  <2> QED BY <2>1, <2>2
<1>5. ReadySeq' = SubSeq(ReadySeq, n + 1, Ready)
  <2>1. PICK m \in Nat : m = Ready - n /\ n + m = Ready /\ n + m <= INPUT_BUF /\ n \in Nat BY <1>1
  <2>2. Dist(r', w') = m BY <1>2, <1>4, <2>1, Taken
  <2>3. ReadySeq' = Cut(buf, Plus(r, n), m) BY <1>2, <1>4, <2>2, Views
  <2>4. SubSeq(Cut(buf, r, n + m), n + 1, n + m) = Cut(buf, Plus(r, n), m)
    <3>1. buf \in Rings /\ r \in Index BY <1>1
    <3> QED BY ONLY <2>1, <3>1, CutOfCut
  <2> QED BY <2>1, <2>3, <2>4, Views
<1>6. CASE n = 0
  <2>1. SubSeq(ReadySeq, 1, Len(ReadySeq)) = ReadySeq BY <1>1, SubSeqFull
  <2>2. n + 1 = 1 BY <1>6
  <2>3. ReadySeq' = SubSeq(ReadySeq, 1, Ready) BY <1>5, <2>2
  <2>4. ReadySeq' = ReadySeq BY <1>1, <2>1, <2>3
  <2> QED BY <1>3, <2>4
<1>7. CASE n # 0
  <2>1. n \in 1 .. INPUT_BUF /\ n <= Ready BY <1>1, <1>7, Numbers
  <2>2. ASSUME NEW k \in 1 .. n, n = Copies(p)
        PROVE  /\ ReadySeq[k] # Eof
               /\ k < n => ReadySeq[k] # Newline
    <3>1. ReadySeq[k] = CharAt(k) BY <1>1, <2>1 DEF ReadySeq
    <3> QED BY <2>2, <3>1, CopiedLine
  <2>3. \A k \in 1 .. n - 1 : ReadySeq[k] # Newline
    <3>1. CASE n = Copies(p) BY <2>1, <2>2, <3>1
    <3>2. CASE n = 1 BY <3>2
    <3> QED BY <1>4, <3>1, <3>2
  <2>4. n = 1 \/ \A k \in 1 .. n : ReadySeq[k] # Eof
    BY <1>4, <2>2
  <2>5. /\ n <= Len(ReadySeq)
        /\ ReadySeq' = SubSeq(ReadySeq, n + 1, Len(ReadySeq))
    BY <1>1, <1>5, <2>1
  <2>6. Term!Read(n)
    BY <1>3, <2>3, <2>4, <2>5 DEF Term!Read, ReadySeq, LineSeq
  <2> QED BY <1>3, <2>1, <2>6
<1> QED BY <1>6, <1>7

\* Every step of the console is one of the terminal, or none.
LEMMA TerminalStep ==
  ConsoleInv /\ LineOpen /\ [Next]_consoleVars
    => [Term!Next]_(Term!terminalVars) /\ LineOpen'
<1> SUFFICES ASSUME InputFlows, LineOpen, [Next]_consoleVars
             PROVE  [Term!Next]_(Term!terminalVars) /\ LineOpen'
  BY DEF ConsoleInv
<1>a. UNCHANGED <<ReadySeq, LineSeq>> => UNCHANGED Term!terminalVars
  BY DEF Term!terminalVars, ReadySeq, LineSeq
<1>1. ASSUME NEW c \in Chars, Type(c)
      PROVE  [Term!Next]_(Term!terminalVars) /\ LineOpen'
  BY <1>1, TypedLine DEF Term!Next
<1>2. /\ Editable \in Nat /\ Len(LineSeq) = Editable /\ LineSeq \in Seq(Chars)
      /\ Editable = 0 <=> e = w
  BY Indices, PartsMeet
<1>3. CASE Backspace
  <2>1. 1 \in 0 .. Editable /\ LineSeq # <<>>
    BY <1>2, <1>3, EmptySeq DEF Backspace
  <2>2. /\ ReadySeq' = ReadySeq /\ LineOpen'
        /\ LineSeq' = SubSeq(LineSeq, 1, Len(LineSeq) - 1)
    BY <1>2, <1>3, <2>1, ErasedLine DEF Backspace
  <2>3. Term!Erase BY <2>1, <2>2 DEF Term!Erase, ReadySeq, LineSeq
  <2> QED BY <2>2, <2>3 DEF Term!Next
<1>4. CASE KillLine
  <2>1. Editable \in 0 .. Editable /\ e' = Plus(e, -Editable) BY <1>2, <1>4, ErasesLine DEF KillLine
  <2>2. /\ ReadySeq' = ReadySeq /\ LineOpen'
        /\ LineSeq' = SubSeq(LineSeq, 1, Editable - Editable)
    BY <1>4, <2>1, ErasedLine DEF KillLine
  <2>3. LineSeq' = <<>>
    <3>1. Editable - Editable = 0 BY <1>2
    <3>2. SubSeq(LineSeq, 1, 0) = <<>> BY SubSeqEmpty
    <3> QED BY <2>2, <3>1, <3>2
  <2>4. Term!Kill BY <2>2, <2>3 DEF Term!Kill, ReadySeq, LineSeq
  <2> QED BY <2>2, <2>4 DEF Term!Next
<1>5. ASSUME NEW p \in Procs, Read(p) \/ ReadSleeps(p) \/ ReadFails(p)
      PROVE  [Term!Next]_(Term!terminalVars) /\ LineOpen'
  BY <1>5, <1>a, ReadLine DEF Term!Next
<1>6. ASSUME UNCHANGED input
      PROVE  [Term!Next]_(Term!terminalVars) /\ LineOpen'
  <2>1. UNCHANGED <<ReadySeq, LineSeq>>
    BY <1>6 DEF ReadySeq, LineSeq, Ready, CharAt, input
  <2>2. LineOpen' BY <1>6, <2>1 DEF LineOpen, Dist, input
  <2> QED BY <1>a, <2>1, <2>2
<1>7. ASSUME NEW p \in Procs,
             \/ \E n \in Lengths : Call(p, n)
             \/ \E c \in Chars \ {Eof} : Write(p, c)
             \/ KillProc(p)
      PROVE  UNCHANGED input
  BY <1>7 DEF Call, Write, KillProc
<1>8. ASSUME UNCHANGED consoleVars PROVE UNCHANGED input
  BY <1>8 DEF consoleVars
<1> QED BY <1>1, <1>3, <1>4, <1>5, <1>6, <1>7, <1>8 DEF Next

\* The ring is a terminal: what is typed can be edited until it ends, what has ended is
\* read in the order it was typed and a line at a time, whatever wraps around.
THEOREM ConsoleIsATerminal == Spec => ImplementsTerminal
<1>1. Init => Term!Init /\ LineOpen
  <2> SUFFICES ASSUME Init PROVE Term!Init /\ LineOpen
    OBVIOUS
  <2>1. /\ Ready = 0 /\ Editable = 0 /\ LineSeq \in Seq(Chars) /\ Len(LineSeq) = 0
        /\ ReadySeq \in Seq(Chars) /\ Len(ReadySeq) = 0
    BY ConsoleInit, Indices, PartsMeet DEF Init
  <2>2. ReadySeq = <<>> /\ LineSeq = <<>> BY <2>1, EmptySeq
  <2>3. Term!Init BY <2>2 DEF Term!Init, ReadySeq, LineSeq
  <2> QED BY <2>1, <2>3 DEF LineOpen, Editable
<1>2. Init => ConsoleInv
  <2>1. 1 * COLS <= (ROWS - 1) * COLS BY Product, Numbers
  <2>2. 0 < (ROWS - 1) * COLS BY <2>1, Numbers
  <2> QED BY <2>2, ConsoleInit DEF Init, CursorOnPage, ConsoleInv
<1>3. ConsoleInv /\ [Next]_consoleVars => ConsoleInv'
  BY FlowStep, CursorStep DEF ConsoleInv
<1> QED BY <1>1, <1>2, <1>3, TerminalStep, PTL DEF Spec, ImplementsTerminal, Term!Spec
=============================================================================
