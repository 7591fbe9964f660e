--------------------------- MODULE AirportProofs ---------------------------
(***************************************************************************)
(* The airport for any finite set of passengers, any number of kiosks and  *)
(* belts and any belt capacity.  The VIP channel: its type invariant, the  *)
(* invariant LockInv on locks and counters (inductive together with        *)
(* TypeOK), and what follows from the two.  The stations: the books of     *)
(* every one are right, and a station that holds one passenger serves the  *)
(* caller.                                                                 *)
(***************************************************************************)
EXTENDS Airports, VipChannel, FiniteSetTheorems, SequenceTheorems, TLAPS

-----------------------------------------------------------------------------
(* The VIP channel *)

\* Where thread p stands after a step of it, seen by a set of program points.
LEMMA AtGoto ==
  ASSUME TypeOK, NEW p \in Passengers, NEW from, NEW to, Goto(p, from, to)
  PROVE  \A S : /\ to \in S => At(S)' = At(S) \cup {p}
                /\ to \notin S => At(S)' = At(S) \ {p}
                /\ p \in At(S) <=> from \in S
  BY DEF At, Goto, TypeOK

\* What the counters say of the sets they count.
LEMMA CountFacts ==
  ASSUME NEW n, NEW S \in SUBSET Passengers, n = Cardinality(S)
  PROVE  /\ n \in Nat
         /\ n = 0 <=> S = {}
         /\ \A p \in Passengers \ S : n + 1 = Cardinality(S \cup {p})
         /\ \A p \in S : n - 1 = Cardinality(S \ {p}) /\ n > 0
         /\ \A p \in S : n = 1 <=> S = {p}
<1>1. IsFiniteSet(S)
  BY PassengersAssumption, FS_Subset
<1>2. n \in Nat /\ (n = 0 <=> S = {})
  BY <1>1, FS_CardinalityType, FS_EmptySet
<1>3. \A p \in Passengers \ S : n + 1 = Cardinality(S \cup {p})
  BY <1>1, FS_AddElement
<1>4. ASSUME NEW p \in S PROVE n - 1 = Cardinality(S \ {p}) /\ n > 0
  <2>1. S # {}
    OBVIOUS
  <2>2. Cardinality(S \ {p}) = Cardinality(S) - 1
    BY <1>1, FS_RemoveElement
  <2> QED BY <1>2, <2>1, <2>2
<1>5. ASSUME NEW p \in S PROVE n = 1 <=> S = {p}
  <2>1. n - 1 = 0 <=> S \ {p} = {}
    BY <1>1, <1>4, FS_RemoveElement, FS_EmptySet
  <2> QED BY <2>1, <1>2
<1> QED BY <1>2, <1>3, <1>4, <1>5

\* The two counters, before a step.
LEMMA CounterFacts ==
  ASSUME CountersExact
  PROVE  /\ lr_count = 0 <=> LrCounted = {}
         /\ \A p \in Passengers \ LrCounted :
              lr_count + 1 = Cardinality(LrCounted \cup {p})
         /\ \A p \in LrCounted : /\ lr_count - 1 = Cardinality(LrCounted \ {p})
                                 /\ lr_count > 0
                                 /\ lr_count = 1 <=> LrCounted = {p}
         /\ rl_count = 0 <=> RlCounted = {}
         /\ \A p \in Passengers \ RlCounted :
              rl_count + 1 = Cardinality(RlCounted \cup {p})
         /\ \A p \in RlCounted : /\ rl_count - 1 = Cardinality(RlCounted \ {p})
                                 /\ rl_count > 0
                                 /\ rl_count = 1 <=> RlCounted = {p}
<1>1. lr_count = Cardinality(LrCounted) /\ rl_count = Cardinality(RlCounted)
  BY DEF CountersExact
<1>2. LrCounted \in SUBSET Passengers /\ RlCounted \in SUBSET Passengers
  BY DEF LrCounted, RlCounted, At
<1> QED BY <1>1, <1>2, CountFacts

-----------------------------------------------------------------------------
IInv == TypeOK /\ LockInv

\* No thread is between its program points and no lock is locked at the start.
LEMMA InitInv == Init => IInv
<1> SUFFICES ASSUME Init PROVE IInv
  OBVIOUS
<1>1. TypeOK
  BY DEF Init, TypeOK
<1>2. \A S : S \cap Sides = {} => At(S) = {}
  BY DEF Init, At, Sides
<1>3. /\ LrCounted = {} /\ RlCounted = {} /\ LrInside = {} /\ RlInside = {}
      /\ LrOwners = {} /\ RlOwners = {} /\ LeftHolders = {} /\ GateHolders = {}
  BY <1>2 DEF Sides, LrCounted, RlCounted, LrInside, RlInside, LrOwners, RlOwners,
              LeftHolders, GateHolders
<1>4. CountersExact
  BY <1>3, FS_EmptySet DEF Init, CountersExact
<1>5. CounterMutexes /\ SharedMutexes
  BY <1>3 DEF Init, CounterMutexes, SharedMutexes
<1>6. LeadersAlone
  BY DEF Init, LeadersAlone, Sides
<1> QED BY <1>1, <1>4, <1>5, <1>6 DEF IInv, LockInv

\* Every step keeps the types.
LEMMA TypeStep == IInv /\ [Next]_chanVars => TypeOK'
<1> SUFFICES ASSUME IInv, [Next]_chanVars PROVE TypeOK'
  OBVIOUS
<1> USE DEF TypeOK, Goto, locks, Sides, LrSteps, RlSteps
<1>1. CASE UNCHANGED chanVars
  BY <1>1 DEF IInv, chanVars
<1>2. ASSUME NEW p \in Passengers, LrCall(p) \/ RlCall(p) PROVE TypeOK'
  BY <1>2 DEF IInv, LrCall, RlCall
<1>3. ASSUME NEW p \in Passengers, LeftToRightVIP(p) PROVE TypeOK'
  <2>1. pc[p] = "lrWalk" => lr_count > 0
    BY CounterFacts DEF IInv, LockInv, LrCounted, At
  <2>2. CASE LrCount(p)
    BY <2>2 DEF IInv, LrCount
  <2>3. CASE LrUncount(p)
    BY <2>1, <2>3 DEF IInv, LrUncount
  <2>4. CASE LrLockLeft(p) \/ LrLockChannel(p) \/ LrEnter(p)
    BY <2>4 DEF IInv, LrLockLeft, LrLockChannel, LrEnter
  <2>5. CASE LrFreeChannel(p) \/ LrFreeLeft(p) \/ LrReturn(p)
    BY <2>5 DEF IInv, LrFreeChannel, LrFreeLeft, LrReturn
  <2> QED BY <1>3, <2>2, <2>3, <2>4, <2>5 DEF LeftToRightVIP
<1>4. ASSUME NEW p \in Passengers, RightToLeftVIP(p) PROVE TypeOK'
  <2>1. pc[p] = "rlWalk" => rl_count > 0
    BY CounterFacts DEF IInv, LockInv, RlCounted, At
  <2>2. CASE RlCount(p)
    BY <2>2 DEF IInv, RlCount
  <2>3. CASE RlUncount(p)
    BY <2>1, <2>3 DEF IInv, RlUncount
  <2>4. CASE RlGate(p) \/ RlGatePass(p) \/ RlLockChannel(p) \/ RlEnter(p)
    BY <2>4 DEF IInv, RlGate, RlGatePass, RlLockChannel, RlEnter
  <2>5. CASE RlFreeChannel(p) \/ RlReturn(p)
    BY <2>5 DEF IInv, RlFreeChannel, RlReturn
  <2> QED BY <1>4, <2>2, <2>3, <2>4, <2>5 DEF RightToLeftVIP
<1> QED BY <1>1, <1>2, <1>3, <1>4 DEF Next, Cross

-----------------------------------------------------------------------------
\* Every step of a left passenger keeps the counters and the mutexes in line with the
\* program points of the threads: LeftToRightVIP.
LEMMA LrStepKeepsLockInv ==
  ASSUME IInv, TypeOK', NEW p \in Passengers, LrCall(p) \/ LeftToRightVIP(p)
  PROVE  LockInv'
<1> USE DEF IInv, LockInv, Goto, At, TypeOK, locks
<1>1. CASE LrCall(p)
  <2>1. LrCounted' = LrCounted /\ RlCounted' = RlCounted
    BY <1>1 DEF LrCall, LrCounted, RlCounted
  <2>2. CountersExact'
    BY <1>1, <2>1 DEF LrCall, CountersExact
  <2>3. CounterMutexes'
    BY <1>1 DEF LrCall, CounterMutexes, LrInside, RlInside
  <2>4. LeadersAlone'
    BY <1>1, <2>1
    DEF LrCall, CounterMutexes, LeadersAlone, LrInside, RlInside
  <2>5. SharedMutexes'
    BY <1>1
    DEF LrCall, SharedMutexes, LeadersAlone, CounterMutexes, LrInside, RlInside,
        LrCounted, RlCounted, LrOwners, RlOwners, LeftHolders, GateHolders
  <2> QED BY <2>2, <2>3, <2>4, <2>5
<1>2. CASE LrCount(p)
  <2>1. p \notin LrCounted /\ LrCounted' = LrCounted \cup {p} /\ RlCounted' = RlCounted
    BY <1>2 DEF LrCount, LrCounted, RlCounted
  <2>2. CountersExact'
    BY <1>2, <2>1, CounterFacts DEF LrCount, CountersExact
  <2>3. CounterMutexes'
    BY <1>2 DEF LrCount, CounterMutexes, LrInside, RlInside
  <2>4. LrInside = {}
    BY <1>2 DEF LrCount, CounterMutexes
  <2>5. LeadersAlone'
    BY <1>2, <2>1, <2>4, CounterFacts DEF LrCount, LeadersAlone, LrInside
  <2>6. lr_count # 0 => \E q \in LrCounted : pc[q] = "lrWalk"
    BY <2>4, CounterFacts DEF LrCounted, LrInside
  <2>7. lr_count # 0 => LrOwners # {} /\ LeftHolders # {}
    BY <2>6 DEF LrCounted, LrOwners, LeftHolders
  <2>8. /\ LrOwners' = LrOwners \cup (IF lr_count = 0 THEN {} ELSE {p})
        /\ LeftHolders' = LeftHolders \cup (IF lr_count = 0 THEN {} ELSE {p})
        /\ RlOwners' = RlOwners /\ GateHolders' = GateHolders
    BY <1>2 DEF LrCount, LrOwners, RlOwners, LeftHolders, GateHolders
  <2>9. SharedMutexes'
    BY <1>2, <2>7, <2>8 DEF LrCount, SharedMutexes
  <2> QED BY <2>2, <2>3, <2>5, <2>9
<1>3. CASE LrLockLeft(p)
  <2>1. LrCounted' = LrCounted /\ RlCounted' = RlCounted
    BY <1>3 DEF LrLockLeft, LrCounted, RlCounted
  <2>2. CountersExact'
    BY <1>3, <2>1 DEF LrLockLeft, CountersExact
  <2>3. CounterMutexes'
    BY <1>3 DEF LrLockLeft, CounterMutexes, LrInside, RlInside
  <2>4. LeadersAlone'
    BY <1>3, <2>1
    DEF LrLockLeft, CounterMutexes, LeadersAlone, LrInside, RlInside
  <2>5. SharedMutexes'
    BY <1>3
    DEF LrLockLeft, SharedMutexes, LeadersAlone, CounterMutexes, LrInside, RlInside,
        LrCounted, RlCounted, LrOwners, RlOwners, LeftHolders, GateHolders
  <2> QED BY <2>2, <2>3, <2>4, <2>5
<1>4. CASE LrLockChannel(p)
  <2>1. LrCounted' = LrCounted /\ RlCounted' = RlCounted
    BY <1>4 DEF LrLockChannel, LrCounted, RlCounted
  <2>2. CountersExact'
    BY <1>4, <2>1 DEF LrLockChannel, CountersExact
  <2>3. CounterMutexes'
    BY <1>4 DEF LrLockChannel, CounterMutexes, LrInside, RlInside
  <2>4. LeadersAlone'
    BY <1>4, <2>1
    DEF LrLockChannel, CounterMutexes, LeadersAlone, LrInside, RlInside
  <2>5. SharedMutexes'
    BY <1>4
    DEF LrLockChannel, SharedMutexes, LeadersAlone, CounterMutexes, LrInside, RlInside,
        LrCounted, RlCounted, LrOwners, RlOwners, LeftHolders, GateHolders
  <2> QED BY <2>2, <2>3, <2>4, <2>5
<1>5. CASE LrEnter(p)
  <2>1. LrCounted' = LrCounted /\ RlCounted' = RlCounted
    BY <1>5 DEF LrEnter, LrCounted, RlCounted
  <2>2. CountersExact'
    BY <1>5, <2>1 DEF LrEnter, CountersExact
  <2>3. CounterMutexes'
    BY <1>5 DEF LrEnter, CounterMutexes, LrInside, RlInside
  <2>4. LeadersAlone'
    BY <1>5, <2>1
    DEF LrEnter, CounterMutexes, LeadersAlone, LrInside, RlInside
  <2>5. SharedMutexes'
    BY <1>5
    DEF LrEnter, SharedMutexes, LeadersAlone, CounterMutexes, LrInside, RlInside,
        LrCounted, RlCounted, LrOwners, RlOwners, LeftHolders, GateHolders
  <2> QED BY <2>2, <2>3, <2>4, <2>5
<1>6. CASE LrUncount(p)
  <2>1. p \in LrCounted /\ LrCounted' = LrCounted \ {p} /\ RlCounted' = RlCounted
    BY <1>6 DEF LrUncount, LrCounted, RlCounted
  <2>2. CountersExact'
    BY <1>6, <2>1, CounterFacts DEF LrUncount, CountersExact
  <2>3. CounterMutexes'
    BY <1>6 DEF LrUncount, CounterMutexes, LrInside, RlInside
  <2>4. LrInside = {}
    BY <1>6 DEF LrUncount, CounterMutexes
  <2>5. \A q \in LrCounted : pc[q] = "lrWalk"
    BY <2>4 DEF LrCounted, LrInside
  <2>6. lr_count = 1 <=> LrCounted' = {}
    BY <2>1, CounterFacts
  <2>7. LeadersAlone'
    BY <1>6, <2>1, <2>4, <2>6 DEF LrUncount, LeadersAlone, LrInside
  <2>8. /\ LrOwners' = LrCounted' \cup (IF lr_count = 1 THEN {p} ELSE {})
        /\ LeftHolders' = LrOwners'
        /\ RlOwners' = RlOwners /\ GateHolders' = GateHolders
    BY <1>6, <2>1, <2>4, <2>5
    DEF LrUncount, LrInside, LrCounted, LrOwners, RlOwners, LeftHolders, GateHolders
  <2>9. p \in LrOwners /\ p \in LeftHolders
    BY <1>6 DEF LrUncount, LrOwners, RlOwners, LeftHolders
  <2>10. SharedMutexes'
    BY <1>6, <2>6, <2>8, <2>9 DEF LrUncount, SharedMutexes
  <2> QED BY <2>2, <2>3, <2>7, <2>10
<1>7. CASE LrFreeChannel(p)
  <2>1. LrCounted' = LrCounted /\ RlCounted' = RlCounted
    BY <1>7 DEF LrFreeChannel, LrCounted, RlCounted
  <2>2. CountersExact'
    BY <1>7, <2>1 DEF LrFreeChannel, CountersExact
  <2>3. CounterMutexes'
    BY <1>7 DEF LrFreeChannel, CounterMutexes, LrInside, RlInside
  <2>4. LeadersAlone'
    BY <1>7, <2>1
    DEF LrFreeChannel, CounterMutexes, LeadersAlone, LrInside, RlInside
  <2>5. SharedMutexes'
    BY <1>7
    DEF LrFreeChannel, SharedMutexes, LeadersAlone, CounterMutexes, LrInside, RlInside,
        LrCounted, RlCounted, LrOwners, RlOwners, LeftHolders, GateHolders
  <2> QED BY <2>2, <2>3, <2>4, <2>5
<1>8. CASE LrFreeLeft(p)
  <2>1. LrCounted' = LrCounted /\ RlCounted' = RlCounted
    BY <1>8 DEF LrFreeLeft, LrCounted, RlCounted
  <2>2. CountersExact'
    BY <1>8, <2>1 DEF LrFreeLeft, CountersExact
  <2>3. CounterMutexes'
    BY <1>8 DEF LrFreeLeft, CounterMutexes, LrInside, RlInside
  <2>4. LeadersAlone'
    BY <1>8, <2>1
    DEF LrFreeLeft, CounterMutexes, LeadersAlone, LrInside, RlInside
  <2>5. SharedMutexes'
    BY <1>8
    DEF LrFreeLeft, SharedMutexes, LeadersAlone, CounterMutexes, LrInside, RlInside,
        LrCounted, RlCounted, LrOwners, RlOwners, LeftHolders, GateHolders
  <2> QED BY <2>2, <2>3, <2>4, <2>5
<1>9. CASE LrReturn(p)
  <2>1. LrCounted' = LrCounted /\ RlCounted' = RlCounted
    BY <1>9 DEF LrReturn, LrCounted, RlCounted
  <2>2. CountersExact'
    BY <1>9, <2>1 DEF LrReturn, CountersExact
  <2>3. CounterMutexes'
    BY <1>9 DEF LrReturn, CounterMutexes, LrInside, RlInside
  <2>4. LeadersAlone'
    BY <1>9, <2>1
    DEF LrReturn, CounterMutexes, LeadersAlone, LrInside, RlInside
  <2>5. SharedMutexes'
    BY <1>9
    DEF LrReturn, SharedMutexes, LeadersAlone, CounterMutexes, LrInside, RlInside,
        LrCounted, RlCounted, LrOwners, RlOwners, LeftHolders, GateHolders
  <2> QED BY <2>2, <2>3, <2>4, <2>5
<1> QED BY <1>1, <1>2, <1>3, <1>4, <1>5, <1>6, <1>7, <1>8, <1>9 DEF LeftToRightVIP

-----------------------------------------------------------------------------
\* Every step of a right passenger keeps the counters and the mutexes in line with the
\* program points of the threads: RightToLeftVIP.
LEMMA RlStepKeepsLockInv ==
  ASSUME IInv, TypeOK', NEW p \in Passengers, RlCall(p) \/ RightToLeftVIP(p)
  PROVE  LockInv'
<1> USE DEF IInv, LockInv, Goto, At, TypeOK, locks
<1>1. CASE RlCall(p)
  <2>1. RlCounted' = RlCounted /\ LrCounted' = LrCounted
    BY <1>1 DEF RlCall, LrCounted, RlCounted
  <2>2. CountersExact'
    BY <1>1, <2>1 DEF RlCall, CountersExact
  <2>3. CounterMutexes'
    BY <1>1 DEF RlCall, CounterMutexes, LrInside, RlInside
  <2>4. LeadersAlone'
    BY <1>1, <2>1
    DEF RlCall, CounterMutexes, LeadersAlone, LrInside, RlInside
  <2>5. SharedMutexes'
    BY <1>1
    DEF RlCall, SharedMutexes, LeadersAlone, CounterMutexes, LrInside, RlInside,
        LrCounted, RlCounted, LrOwners, RlOwners, LeftHolders, GateHolders
  <2> QED BY <2>2, <2>3, <2>4, <2>5
<1>2. CASE RlGate(p)
  <2>1. RlCounted' = RlCounted /\ LrCounted' = LrCounted
    BY <1>2 DEF RlGate, LrCounted, RlCounted
  <2>2. CountersExact'
    BY <1>2, <2>1 DEF RlGate, CountersExact
  <2>3. CounterMutexes'
    BY <1>2 DEF RlGate, CounterMutexes, LrInside, RlInside
  <2>4. LeadersAlone'
    BY <1>2, <2>1
    DEF RlGate, CounterMutexes, LeadersAlone, LrInside, RlInside
  <2>5. SharedMutexes'
    BY <1>2
    DEF RlGate, SharedMutexes, LeadersAlone, CounterMutexes, LrInside, RlInside,
        LrCounted, RlCounted, LrOwners, RlOwners, LeftHolders, GateHolders
  <2> QED BY <2>2, <2>3, <2>4, <2>5
<1>3. CASE RlGatePass(p)
  <2>1. RlCounted' = RlCounted /\ LrCounted' = LrCounted
    BY <1>3 DEF RlGatePass, LrCounted, RlCounted
  <2>2. CountersExact'
    BY <1>3, <2>1 DEF RlGatePass, CountersExact
  <2>3. CounterMutexes'
    BY <1>3 DEF RlGatePass, CounterMutexes, LrInside, RlInside
  <2>4. LeadersAlone'
    BY <1>3, <2>1
    DEF RlGatePass, CounterMutexes, LeadersAlone, LrInside, RlInside
  <2>5. SharedMutexes'
    BY <1>3
    DEF RlGatePass, SharedMutexes, LeadersAlone, CounterMutexes, LrInside, RlInside,
        LrCounted, RlCounted, LrOwners, RlOwners, LeftHolders, GateHolders
  <2> QED BY <2>2, <2>3, <2>4, <2>5
<1>4. CASE RlCount(p)
  <2>1. p \notin RlCounted /\ RlCounted' = RlCounted \cup {p} /\ LrCounted' = LrCounted
    BY <1>4 DEF RlCount, LrCounted, RlCounted
  <2>2. CountersExact'
    BY <1>4, <2>1, CounterFacts DEF RlCount, CountersExact
  <2>3. CounterMutexes'
    BY <1>4 DEF RlCount, CounterMutexes, LrInside, RlInside
  <2>4. RlInside = {}
    BY <1>4 DEF RlCount, CounterMutexes
  <2>5. LeadersAlone'
    BY <1>4, <2>1, <2>4, CounterFacts DEF RlCount, LeadersAlone, RlInside
  <2>6. rl_count # 0 => \E q \in RlCounted : pc[q] = "rlWalk"
    BY <2>4, CounterFacts DEF RlCounted, RlInside
  <2>7. rl_count # 0 => RlOwners # {}
    BY <2>6 DEF RlCounted, RlOwners, LeftHolders
  <2>8. /\ RlOwners' = RlOwners \cup (IF rl_count = 0 THEN {} ELSE {p})
        /\ LeftHolders' = LeftHolders
        /\ LrOwners' = LrOwners /\ GateHolders' = GateHolders
    BY <1>4 DEF RlCount, LrOwners, RlOwners, LeftHolders, GateHolders
  <2>9. SharedMutexes'
    BY <1>4, <2>7, <2>8 DEF RlCount, SharedMutexes
  <2> QED BY <2>2, <2>3, <2>5, <2>9
<1>5. CASE RlLockChannel(p)
  <2>1. RlCounted' = RlCounted /\ LrCounted' = LrCounted
    BY <1>5 DEF RlLockChannel, LrCounted, RlCounted
  <2>2. CountersExact'
    BY <1>5, <2>1 DEF RlLockChannel, CountersExact
  <2>3. CounterMutexes'
    BY <1>5 DEF RlLockChannel, CounterMutexes, LrInside, RlInside
  <2>4. LeadersAlone'
    BY <1>5, <2>1
    DEF RlLockChannel, CounterMutexes, LeadersAlone, LrInside, RlInside
  <2>5. SharedMutexes'
    BY <1>5
    DEF RlLockChannel, SharedMutexes, LeadersAlone, CounterMutexes, LrInside, RlInside,
        LrCounted, RlCounted, LrOwners, RlOwners, LeftHolders, GateHolders
  <2> QED BY <2>2, <2>3, <2>4, <2>5
<1>6. CASE RlEnter(p)
  <2>1. RlCounted' = RlCounted /\ LrCounted' = LrCounted
    BY <1>6 DEF RlEnter, LrCounted, RlCounted
  <2>2. CountersExact'
    BY <1>6, <2>1 DEF RlEnter, CountersExact
  <2>3. CounterMutexes'
    BY <1>6 DEF RlEnter, CounterMutexes, LrInside, RlInside
  <2>4. LeadersAlone'
    BY <1>6, <2>1
    DEF RlEnter, CounterMutexes, LeadersAlone, LrInside, RlInside
  <2>5. SharedMutexes'
    BY <1>6
    DEF RlEnter, SharedMutexes, LeadersAlone, CounterMutexes, LrInside, RlInside,
        LrCounted, RlCounted, LrOwners, RlOwners, LeftHolders, GateHolders
  <2> QED BY <2>2, <2>3, <2>4, <2>5
<1>7. CASE RlUncount(p)
  <2>1. p \in RlCounted /\ RlCounted' = RlCounted \ {p} /\ LrCounted' = LrCounted
    BY <1>7 DEF RlUncount, LrCounted, RlCounted
  <2>2. CountersExact'
    BY <1>7, <2>1, CounterFacts DEF RlUncount, CountersExact
  <2>3. CounterMutexes'
    BY <1>7 DEF RlUncount, CounterMutexes, LrInside, RlInside
  <2>4. RlInside = {}
    BY <1>7 DEF RlUncount, CounterMutexes
  <2>5. \A q \in RlCounted : pc[q] = "rlWalk"
    BY <2>4 DEF RlCounted, RlInside
  <2>6. rl_count = 1 <=> RlCounted' = {}
    BY <2>1, CounterFacts
  <2>7. LeadersAlone'
    BY <1>7, <2>1, <2>4, <2>6 DEF RlUncount, LeadersAlone, RlInside
  <2>8. /\ RlOwners' = RlCounted' \cup (IF rl_count = 1 THEN {p} ELSE {})
        /\ LeftHolders' = LeftHolders
        /\ LrOwners' = LrOwners /\ GateHolders' = GateHolders
    BY <1>7, <2>1, <2>4, <2>5
    DEF RlUncount, RlInside, RlCounted, LrOwners, RlOwners, LeftHolders, GateHolders
  <2>9. p \in RlOwners
    BY <1>7 DEF RlUncount, LrOwners, RlOwners, LeftHolders
  <2>10. SharedMutexes'
    BY <1>7, <2>6, <2>8, <2>9 DEF RlUncount, SharedMutexes
  <2> QED BY <2>2, <2>3, <2>7, <2>10
<1>8. CASE RlFreeChannel(p)
  <2>1. RlCounted' = RlCounted /\ LrCounted' = LrCounted
    BY <1>8 DEF RlFreeChannel, LrCounted, RlCounted
  <2>2. CountersExact'
    BY <1>8, <2>1 DEF RlFreeChannel, CountersExact
  <2>3. CounterMutexes'
    BY <1>8 DEF RlFreeChannel, CounterMutexes, LrInside, RlInside
  <2>4. LeadersAlone'
    BY <1>8, <2>1
    DEF RlFreeChannel, CounterMutexes, LeadersAlone, LrInside, RlInside
  <2>5. SharedMutexes'
    BY <1>8
    DEF RlFreeChannel, SharedMutexes, LeadersAlone, CounterMutexes, LrInside, RlInside,
        LrCounted, RlCounted, LrOwners, RlOwners, LeftHolders, GateHolders
  <2> QED BY <2>2, <2>3, <2>4, <2>5
<1>9. CASE RlReturn(p)
  <2>1. RlCounted' = RlCounted /\ LrCounted' = LrCounted
    BY <1>9 DEF RlReturn, LrCounted, RlCounted
  <2>2. CountersExact'
    BY <1>9, <2>1 DEF RlReturn, CountersExact
  <2>3. CounterMutexes'
    BY <1>9 DEF RlReturn, CounterMutexes, LrInside, RlInside
  <2>4. LeadersAlone'
    BY <1>9, <2>1
    DEF RlReturn, CounterMutexes, LeadersAlone, LrInside, RlInside
  <2>5. SharedMutexes'
    BY <1>9
    DEF RlReturn, SharedMutexes, LeadersAlone, CounterMutexes, LrInside, RlInside,
        LrCounted, RlCounted, LrOwners, RlOwners, LeftHolders, GateHolders
  <2> QED BY <2>2, <2>3, <2>4, <2>5
<1> QED BY <1>1, <1>2, <1>3, <1>4, <1>5, <1>6, <1>7, <1>8, <1>9 DEF RightToLeftVIP

-----------------------------------------------------------------------------
\* The locks and the counters agree with the threads in every reachable state,
\* whatever the number of passengers.
THEOREM Invariance == Spec => []IInv
<1>1. IInv /\ [Next]_chanVars => IInv'
  <2> SUFFICES ASSUME IInv, [Next]_chanVars PROVE IInv'
    OBVIOUS
  <2>1. TypeOK'
    BY TypeStep
  <2>2. CASE UNCHANGED chanVars
    BY <2>1, <2>2
    DEF IInv, LockInv, chanVars, locks, CountersExact, CounterMutexes, LeadersAlone,
        SharedMutexes, LrCounted, RlCounted, LrInside, RlInside, LrOwners, RlOwners,
        LeftHolders, GateHolders, At
  <2>3. CASE Next
    BY <2>1, <2>3, LrStepKeepsLockInv, RlStepKeepsLockInv DEF IInv, Next, Cross
  <2> QED BY <2>2, <2>3
<1> QED BY <1>1, InitInv, PTL DEF Spec

\* Type correctness; in particular no counter is ever decremented below zero.
THEOREM TypeCorrect == Spec => []TypeOK
BY Invariance, PTL DEF IInv

\* The bookkeeping of the channel, for every number of passengers.
THEOREM LocksAgree == Spec => []LockInv
BY Invariance, PTL DEF IInv

\* Mutual exclusion of the two directions: somebody walking owns the channel for
\* its direction, and SharedMutexes gives the channel to one direction.
THEOREM WalkwayOneDirection == Spec => []OneDirection
<1>1. IInv => OneDirection
  BY DEF IInv, LockInv, SharedMutexes, LrOwners, RlOwners, OneDirection, At
<1> QED BY <1>1, Invariance, PTL

\* The gate: only RlGate takes a passenger past it, it needs left_side_empty
\* free, and that lock is held while a left passenger waits, enters or walks.
THEOREM GateKeepsOut == Spec => GateClosed
<1>1. IInv /\ [Next]_chanVars =>
        [\A p \in Passengers : pc[p] = "rlGate" /\ pc'[p] # "rlGate" =>
            At({"lrChan", "lrUnlock", "lrWalk"}) = {}]_chanVars
  <2> SUFFICES ASSUME IInv, Next, NEW p \in Passengers,
                      pc[p] = "rlGate", pc'[p] # "rlGate"
               PROVE  At({"lrChan", "lrUnlock", "lrWalk"}) = {}
    BY DEF Next
  <2>1. RlGate(p)
    BY DEF IInv, TypeOK, Next, Cross, LeftToRightVIP, RightToLeftVIP, Goto, LrCall,
           LrCount, LrLockLeft, LrLockChannel, LrEnter, LrUncount, LrFreeChannel,
           LrFreeLeft, LrReturn, RlCall, RlGate, RlGatePass, RlCount, RlLockChannel,
           RlEnter, RlUncount, RlFreeChannel, RlReturn
  <2>2. LeftHolders = {}
    BY <2>1 DEF RlGate, IInv, LockInv, SharedMutexes
  <2> QED BY <2>2 DEF LeftHolders, At
<1> QED BY <1>1, Invariance, PTL DEF Spec, GateClosed

-----------------------------------------------------------------------------
(* The locks implement the abstract walkway. *)

LeftPoints == {"L", "lrLock", "lrLeft", "lrChan", "lrUnlock", "rlFreeChan", "rlDone"}

\* A step that stays on its side, or on the walkway, is invisible.
LEMMA QuietStep ==
  ASSUME TypeOK, NEW p \in Passengers, NEW from, NEW to, Goto(p, from, to),
         from \in LeftPoints <=> to \in LeftPoints,
         from \notin {"lrWalk", "rlWalk"}, to \notin {"lrWalk", "rlWalk"}
  PROVE  UNCHANGED Abstract!walkVars
<1>1. /\ At(LeftPoints)' = At(LeftPoints)
      /\ At({"lrWalk"})' = At({"lrWalk"})
      /\ At({"rlWalk"})' = At({"rlWalk"})
  BY DEF At, Goto, TypeOK
<1> QED BY <1>1 DEF Abstract!walkVars, LeftPoints

\* Every step is a step of the walkway or a stuttering one: passengers enter it
\* when they give the counter's mutex back and leave it when they are uncounted.
THEOREM ChannelImplementsWalkway == Spec => ImplementsWalkway
<1>1. Init => Abstract!Init
  BY DEF Init, Abstract!Init, At, Sides
<1>2. IInv /\ [Next]_chanVars => [Abstract!Next]_(Abstract!walkVars)
  <2> SUFFICES ASSUME IInv, [Next]_chanVars
               PROVE  [Abstract!Next]_(Abstract!walkVars)
    OBVIOUS
  <2> USE DEF LeftPoints
  <2>1. CASE UNCHANGED chanVars
    BY <2>1 DEF chanVars, Abstract!walkVars, At
  <2>2. ASSUME NEW p \in Passengers,
               \/ LrCall(p) \/ LrCount(p) \/ LrLockLeft(p) \/ LrLockChannel(p)
               \/ LrFreeChannel(p) \/ LrFreeLeft(p) \/ LrReturn(p)
        PROVE  UNCHANGED Abstract!walkVars
    BY <2>2, QuietStep
    DEF IInv, LrCall, LrCount, LrLockLeft, LrLockChannel, LrFreeChannel, LrFreeLeft,
        LrReturn
  <2>3. ASSUME NEW p \in Passengers,
               \/ RlCall(p) \/ RlGate(p) \/ RlGatePass(p) \/ RlCount(p)
               \/ RlLockChannel(p) \/ RlFreeChannel(p) \/ RlReturn(p)
        PROVE  UNCHANGED Abstract!walkVars
    BY <2>3, QuietStep
    DEF IInv, RlCall, RlGate, RlGatePass, RlCount, RlLockChannel, RlFreeChannel,
        RlReturn
  <2>4. ASSUME NEW p \in Passengers, LrEnter(p) PROVE Abstract!EnterLeftRight(p)
    <3>1. At({"rlWalk"}) = {}
      BY <2>4 DEF LrEnter, Goto, IInv, LockInv, SharedMutexes, LrOwners, RlOwners, At
    <3> QED BY <2>4, <3>1 DEF LrEnter, Goto, At, IInv, TypeOK, Abstract!EnterLeftRight
  <2>5. ASSUME NEW p \in Passengers, LrUncount(p) PROVE Abstract!LeaveLeftRight(p)
    BY <2>5 DEF LrUncount, Goto, At, IInv, TypeOK, Abstract!LeaveLeftRight
  <2>6. ASSUME NEW p \in Passengers, RlEnter(p) PROVE Abstract!EnterRightLeft(p)
    <3>1. At({"lrWalk"}) = {}
      BY <2>6 DEF RlEnter, Goto, IInv, LockInv, SharedMutexes, LrOwners, RlOwners, At
    <3> QED BY <2>6, <3>1
            DEF RlEnter, Goto, At, IInv, TypeOK, Abstract!EnterRightLeft, Abstract!Right
  <2>7. ASSUME NEW p \in Passengers, RlUncount(p) PROVE Abstract!LeaveRightLeft(p)
    BY <2>7 DEF RlUncount, Goto, At, IInv, TypeOK, Abstract!LeaveRightLeft
  <2> QED BY <2>1, <2>2, <2>3, <2>4, <2>5, <2>6, <2>7
          DEF Next, Cross, LeftToRightVIP, RightToLeftVIP, Abstract!Next
<1> QED BY <1>1, <1>2, Invariance, PTL DEF Spec, ImplementsWalkway, Abstract!Spec

-----------------------------------------------------------------------------
(* The stations *)

\* Cardinalities of sets of passengers when one of them joins or leaves.
LEMMA PassengerCount ==
  ASSUME NEW S \in SUBSET Passengers
  PROVE  /\ Cardinality(S) \in Nat
         /\ Cardinality(S) = 0 <=> S = {}
         /\ \A p \in Passengers : p \notin S =>
              Cardinality(S \cup {p}) = Cardinality(S) + 1
         /\ \A p \in S : Cardinality(S \ {p}) = Cardinality(S) - 1
<1>1. IsFiniteSet(S)
  BY PassengersAssumption, FS_Subset
<1>2. Cardinality(S) \in Nat /\ (Cardinality(S) = 0 <=> S = {})
  BY <1>1, FS_CardinalityType, FS_EmptySet
<1>3. \A p \in Passengers : p \notin S => Cardinality(S \cup {p}) = Cardinality(S) + 1
  BY <1>1, FS_AddElement
<1>4. \A p \in S : Cardinality(S \ {p}) = Cardinality(S) - 1
  BY <1>1, FS_RemoveElement
<1> QED BY <1>2, <1>3, <1>4

\* A set with one member at most.
LEMMA AtMostOne ==
  ASSUME NEW S \in SUBSET Passengers, Cardinality(S) \leq 1
  PROVE  \A p, q \in S : p = q
<1>1. SUFFICES ASSUME NEW p \in S, NEW q \in S, p # q PROVE FALSE
  OBVIOUS
<1>2. Cardinality(S \ {p}) = Cardinality(S) - 1 /\ Cardinality(S) \in Nat
  BY PassengerCount
<1>3. S \ {p} \in SUBSET Passengers /\ S \ {p} # {}
  BY <1>1
<1>4. Cardinality(S \ {p}) \in Nat \ {0}
  BY <1>3, PassengerCount
<1> QED BY <1>2, <1>4

-----------------------------------------------------------------------------
\* A step outside the stations' functions leaves their sets of threads alone.
LEMMA OutsideSets ==
  ASSUME AirportTypeOK, NEW p \in Passengers,
         LosePass(p) \/ KeepPass(p) \/ Leave(p) \/ Walk(p) \/ ComeOut(p)
  PROVE  \A s \in Stations : /\ Inside(s)' = Inside(s)
                             /\ Queued(s)' = Queued(s)
                             /\ Serving(s)' = Serving(s)
                             /\ InStation(s, {"wait"})' = InStation(s, {"wait"})
<1> USE DEF AirportTypeOK, Inside, Queued, Serving, InStation
<1>1. CASE LosePass(p) \/ KeepPass(p)
  BY <1>1 DEF LosePass, KeepPass, Advance
<1>2. CASE Walk(p)
  BY <1>2 DEF Walk
<1>3. ASSUME NEW st, MoveTo(p, st), step[p] \notin {"push", "wait", "turn", "serve"}
      PROVE  \A s \in Stations : /\ Inside(s)' = Inside(s)
                                 /\ Queued(s)' = Queued(s)
                                 /\ Serving(s)' = Serving(s)
                                 /\ InStation(s, {"wait"})' = InStation(s, {"wait"})
  BY <1>3 DEF MoveTo, EntryStep
<1>4. CASE Leave(p)
  BY <1>3, <1>4 DEF Leave
<1>5. CASE ComeOut(p)
  <2>1. stage[p] \notin Stations
    BY <1>5, AirportAssumption DEF ComeOut, Stations
  <2>2. PICK st \in {"boarding", "skiosk"} : MoveTo(p, st)
    BY <1>5 DEF ComeOut
  <2>3. step'[p] \notin {"push", "wait", "turn", "serve"}
    BY <2>2 DEF MoveTo, EntryStep
  <2> QED BY <2>1, <2>2, <2>3 DEF MoveTo
<1> QED BY <1>1, <1>2, <1>4, <1>5

-----------------------------------------------------------------------------
AInv == AirportTypeOK /\ StationInv /\ OwnPass

\* Nobody is inside of a station, and every station is empty.
LEMMA AirportInitInv == AirportInit => AInv
<1> SUFFICES ASSUME AirportInit PROVE AInv
  OBVIOUS
<1>1. \A s \in Stations : Capacity(s) \in Nat
  BY AirportAssumption DEF Capacity
<1>2. AirportTypeOK
  <2>1. "kiosk" \in Stages /\ "arrive" \in Steps
    BY DEF Stages, Stations, Steps
  <2>2. queue \in [Stations -> Seq(Passengers)]
    BY EmptySeq DEF AirportInit
  <2>3. empty \in [Stations -> Nat] /\ full \in [Stations -> Nat]
    BY <1>1 DEF AirportInit, InitEmpty
  <2> QED BY <2>1, <2>2, <2>3 DEF AirportInit, AirportTypeOK
<1>3. \A s \in Stations : /\ Inside(s) = {} /\ Queued(s) = {} /\ Serving(s) = {}
                          /\ InStation(s, {"wait"}) = {}
  BY DEF AirportInit, Inside, Queued, Serving, InStation
<1>4. StationBooks
  <2>1. Cardinality({}) = 0
    BY FS_EmptySet
  <2> SUFFICES ASSUME NEW s \in Stations
               PROVE  /\ empty[s] + Cardinality(Inside(s)) = Capacity(s)
                      /\ full[s] = Cardinality(InStation(s, {"wait"}))
                      /\ Len(queue[s]) = Cardinality(Queued(s))
    BY DEF StationBooks
  <2>2. empty[s] = Capacity(s) /\ full[s] = 0 /\ queue[s] = <<>>
    BY DEF AirportInit, InitEmpty
  <2>3. /\ Cardinality(Inside(s)) = 0 /\ Cardinality(Queued(s)) = 0
        /\ Cardinality(InStation(s, {"wait"})) = 0
    BY <1>3, <2>1
  <2>4. Capacity(s) \in Nat /\ Len(queue[s]) = 0
    BY <1>1, <2>2, EmptySeq
  <2> QED BY <2>2, <2>3, <2>4
<1>5. StationLocks
  BY <1>3 DEF AirportInit, StationLocks
<1>6. OwnPass
  BY <1>3 DEF AirportInit, OwnPass, ServesItself, LeavesServed
<1> QED BY <1>2, <1>4, <1>5, <1>6 DEF AInv, StationInv

\* What the books say of a station that a thread is inside of.
LEMMA BooksFacts ==
  ASSUME AInv, NEW s \in Stations, NEW p \in Queued(s)
  PROVE  /\ queue[s] \in Seq(Passengers) /\ Len(queue[s]) > 0
         /\ Capacity(s) = 1 => queue[s] = <<p>> /\ Inside(s) = {p}
<1>1. Queued(s) \in SUBSET Passengers /\ Inside(s) \in SUBSET Passengers
      /\ p \in Inside(s) /\ Queued(s) \subseteq Inside(s)
  BY DEF Queued, Inside, InStation
<1>2. Len(queue[s]) = Cardinality(Queued(s)) /\ queue[s] \in Seq(Passengers)
  BY DEF AInv, StationInv, StationBooks, AirportTypeOK
<1>3. Len(queue[s]) > 0
  BY <1>1, <1>2, PassengerCount
<1>4. ASSUME Capacity(s) = 1 PROVE queue[s] = <<p>> /\ Inside(s) = {p}
  <2>1. empty[s] + Cardinality(Inside(s)) = 1 /\ empty[s] \in Nat
    BY <1>4 DEF AInv, StationInv, StationBooks, AirportTypeOK
  <2>2. Cardinality(Inside(s)) \in Nat /\ Cardinality(Inside(s)) \leq 1
    BY <1>1, <2>1, PassengerCount
  <2>3. Inside(s) = {p}
    BY <1>1, <2>2, AtMostOne
  <2>4. Queued(s) = {p}
    BY <1>1, <2>3
  <2>5. Len(queue[s]) = 1
    BY <1>2, <2>4, FS_Singleton
  <2>6. queue[s][1] = p
    BY <1>4, <2>4, <2>5, <1>2 DEF AInv, OwnPass, LeavesServed
  <2> QED BY <1>2, <2>3, <2>5, <2>6
<1> QED BY <1>2, <1>3, <1>4

\* The types: the books say why no semaphore is taken below zero.
LEMMA AirportTypeStep == AInv /\ [AirportNext]_airVars => AirportTypeOK'
<1> SUFFICES ASSUME AInv, [AirportNext]_airVars PROVE AirportTypeOK'
  OBVIOUS
<1> USE DEF AInv, AirportTypeOK, stationVars
<1>1. CASE UNCHANGED airVars
  BY <1>1 DEF airVars
<1>2. ASSUME NEW p \in Passengers, NEW s \in Stations, AtStation(p, s)
      PROVE  AirportTypeOK'
  <2> USE DEF Advance, Steps
  <2>0. LockOf(s) \in Locks
    BY DEF LockOf, Locks, Stations
  <2>1. CASE Reserve(p, s)
    BY <2>1 DEF Reserve
  <2>2. CASE Push(p, s)
    BY <2>2, AppendProperties DEF Push
  <2>3. CASE Take(p, s)
    BY <2>3 DEF Take
  <2>4. CASE Serve(p, s)
    BY <2>0, <2>4 DEF Serve
  <2>5. CASE Finish(p, s)
    <3>1. p \in Queued(s)
      BY <2>5 DEF Finish, Queued, InStation
    <3>2. queue[s] \in Seq(Passengers) /\ queue[s] # <<>>
      BY <3>1, BooksFacts, EmptySeq
    <3>3. Head(queue[s]) \in Passengers /\ Tail(queue[s]) \in Seq(Passengers)
      BY <3>2, HeadTailProperties
    <3> QED BY <2>0, <2>5, <3>3 DEF Finish
  <2> QED BY <1>2, <2>1, <2>2, <2>3, <2>4, <2>5 DEF AtStation
<1>3. ASSUME NEW p \in Passengers, LosePass(p) \/ KeepPass(p) PROVE AirportTypeOK'
  BY <1>3 DEF LosePass, KeepPass, Advance, Steps
<1>4. ASSUME NEW p \in Passengers, Walk(p) PROVE AirportTypeOK'
  BY <1>4 DEF Walk
<1>5. ASSUME NEW p \in Passengers, Leave(p) \/ ComeOut(p) PROVE AirportTypeOK'
  <2>1. PICK st \in Stages : MoveTo(p, st)
    BY <1>5 DEF Leave, ComeOut, NextStages, Stages, Stations
  <2> QED BY <2>1 DEF MoveTo, EntryStep, Steps
<1> QED BY <1>1, <1>2, <1>3, <1>4, <1>5
        DEF AirportNext, PassengerLifeCycle, AllBoarded

-----------------------------------------------------------------------------
\* A thread in one of the sets below is at one station only.
LEMMA OneStation ==
  ASSUME NEW s \in Stations, NEW t \in Stations, NEW p \in Serving(s),
         p \in Serving(t)
  PROVE  s = t
BY DEF Serving, InStation

\* Each station function keeps the books of its station and of the others.
LEMMA BooksStep ==
  ASSUME AInv, AirportTypeOK', NEW p \in Passengers, NEW s \in Stations,
         AtStation(p, s)
  PROVE  StationBooks'
<1> SUFFICES ASSUME NEW t \in Stations
             PROVE  /\ (empty[t] + Cardinality(Inside(t)))' = Capacity(t)
                    /\ full'[t] = Cardinality(InStation(t, {"wait"}))'
                    /\ Len(queue'[t]) = Cardinality(Queued(t))'
  BY DEF StationBooks
<1>1. /\ empty[t] + Cardinality(Inside(t)) = Capacity(t)
      /\ full[t] = Cardinality(InStation(t, {"wait"}))
      /\ Len(queue[t]) = Cardinality(Queued(t))
      /\ queue[t] \in Seq(Passengers) /\ empty[t] \in Nat /\ full[t] \in Nat
  BY DEF AInv, StationInv, StationBooks, AirportTypeOK
<1>2. \A S \in SUBSET Passengers :
        /\ Cardinality(S) \in Nat
        /\ \A q \in Passengers : q \notin S => Cardinality(S \cup {q}) = Cardinality(S) + 1
        /\ \A q \in S : Cardinality(S \ {q}) = Cardinality(S) - 1
  BY PassengerCount
<1>3. /\ Inside(t) \in SUBSET Passengers /\ Queued(t) \in SUBSET Passengers
      /\ InStation(t, {"wait"}) \in SUBSET Passengers
  BY DEF Inside, Queued, InStation
<1> USE DEF Inside, Queued
<1>4. CASE t # s
  <2>1. /\ Inside(t)' = Inside(t) /\ Queued(t)' = Queued(t)
        /\ InStation(t, {"wait"})' = InStation(t, {"wait"})
    BY <1>4 DEF AtStation, Reserve, Push, Take, Serve, Finish, Advance, InStation,
                AInv, AirportTypeOK
  <2>2. empty'[t] = empty[t] /\ full'[t] = full[t] /\ queue'[t] = queue[t]
    BY <1>4 DEF AtStation, Reserve, Push, Take, Serve, Finish, AInv, AirportTypeOK
  <2> QED BY <1>1, <2>1, <2>2
<1>5. CASE t = s /\ Reserve(p, s)
  <2>1. /\ p \notin Inside(s) /\ Inside(s)' = Inside(s) \cup {p}
        /\ Queued(s)' = Queued(s)
        /\ InStation(s, {"wait"})' = InStation(s, {"wait"})
    BY <1>5 DEF Reserve, Advance, InStation, AInv, AirportTypeOK
  <2>2. empty'[s] = empty[s] - 1 /\ full'[s] = full[s] /\ queue'[s] = queue[s]
    BY <1>5 DEF Reserve, AInv, AirportTypeOK
  <2> QED BY <1>1, <1>2, <1>3, <1>5, <2>1, <2>2
<1>6. CASE t = s /\ Push(p, s)
  <2>1. /\ Inside(s)' = Inside(s)
        /\ p \notin Queued(s) /\ Queued(s)' = Queued(s) \cup {p}
        /\ p \notin InStation(s, {"wait"})
        /\ InStation(s, {"wait"})' = InStation(s, {"wait"}) \cup {p}
    BY <1>6 DEF Push, Advance, InStation, AInv, AirportTypeOK
  <2>2. /\ empty'[s] = empty[s] /\ full'[s] = full[s] + 1
        /\ queue'[s] = Append(queue[s], p)
    BY <1>6 DEF Push, AInv, AirportTypeOK
  <2>3. Len(queue'[s]) = Len(queue[s]) + 1
    BY <1>1, <1>6, <2>2, AppendProperties
  <2> QED BY <1>1, <1>2, <1>3, <1>6, <2>1, <2>2, <2>3
<1>7. CASE t = s /\ Take(p, s)
  <2>1. /\ Inside(s)' = Inside(s) /\ Queued(s)' = Queued(s)
        /\ p \in InStation(s, {"wait"})
        /\ InStation(s, {"wait"})' = InStation(s, {"wait"}) \ {p}
    BY <1>7 DEF Take, Advance, InStation, AInv, AirportTypeOK
  <2>2. empty'[s] = empty[s] /\ full'[s] = full[s] - 1 /\ queue'[s] = queue[s]
    BY <1>7 DEF Take, AInv, AirportTypeOK
  <2> QED BY <1>1, <1>2, <1>3, <1>7, <2>1, <2>2
<1>8. CASE t = s /\ Serve(p, s)
  <2>1. /\ Inside(s)' = Inside(s) /\ Queued(s)' = Queued(s)
        /\ InStation(s, {"wait"})' = InStation(s, {"wait"})
    BY <1>8 DEF Serve, Advance, InStation, AInv, AirportTypeOK
  <2> QED BY <1>1, <1>8, <2>1 DEF Serve
<1>9. CASE t = s /\ Finish(p, s)
  <2>1. /\ p \in Inside(s) /\ Inside(s)' = Inside(s) \ {p}
        /\ p \in Queued(s) /\ Queued(s)' = Queued(s) \ {p}
        /\ InStation(s, {"wait"})' = InStation(s, {"wait"})
    BY <1>9 DEF Finish, Advance, InStation, AInv, AirportTypeOK
  <2>2. empty'[s] = empty[s] + 1 /\ full'[s] = full[s] /\ queue'[s] = Tail(queue[s])
    BY <1>9 DEF Finish, AInv, AirportTypeOK
  <2>3. Len(queue[s]) > 0
    BY <2>1, BooksFacts
  <2>4. Len(queue'[s]) = Len(queue[s]) - 1
    BY <1>1, <1>9, <2>2, <2>3, EmptySeq, HeadTailProperties
  <2> QED BY <1>1, <1>2, <1>3, <1>9, <2>1, <2>2, <2>4
<1> QED BY <1>4, <1>5, <1>6, <1>7, <1>8, <1>9 DEF AtStation

\* The lock of a station, or of the belts, goes with the one thread serving.
LEMMA LocksStep ==
  ASSUME AInv, AirportTypeOK', NEW p \in Passengers, NEW s \in Stations,
         AtStation(p, s)
  PROVE  StationLocks'
<1>0. /\ \A l \in Locks :
           locked[l] <=> \E t \in Stations : LockOf(t) = l /\ Serving(t) # {}
      /\ \A t, u \in Stations : LockOf(t) = LockOf(u) =>
           \A q \in Serving(t), r \in Serving(u) : q = r
      /\ LockOf(s) \in Locks
  BY DEF AInv, StationInv, StationLocks, LockOf, Locks, Stations
<1>1. CASE Reserve(p, s) \/ Push(p, s) \/ Take(p, s)
  <2>1. \A t \in Stations : Serving(t)' = Serving(t)
    BY <1>1 DEF Reserve, Push, Take, Advance, Serving, InStation, AInv, AirportTypeOK
  <2>2. locked' = locked
    BY <1>1 DEF Reserve, Push, Take
  <2> QED BY <1>0, <2>1, <2>2 DEF StationLocks
<1>2. CASE Serve(p, s)
  <2>1. \A t \in Stations : Serving(t)' = IF t = s THEN Serving(s) \cup {p} ELSE Serving(t)
    BY <1>2 DEF Serve, Advance, Serving, InStation, AInv, AirportTypeOK
  <2>2. \A t \in Stations : LockOf(t) = LockOf(s) => Serving(t) = {}
    BY <1>0, <1>2 DEF Serve
  <2>3. \A l \in Locks : locked'[l] = IF l = LockOf(s) THEN TRUE ELSE locked[l]
    BY <1>0, <1>2 DEF Serve, AInv, AirportTypeOK
  <2>4. \A l \in Locks :
          locked'[l] <=> \E t \in Stations : LockOf(t) = l /\ Serving(t)' # {}
    BY <1>0, <2>1, <2>2, <2>3
  <2>5. \A t, u \in Stations : LockOf(t) = LockOf(u) =>
          \A q \in Serving(t)', r \in Serving(u)' : q = r
    BY <1>0, <2>1, <2>2
  <2> QED BY <2>4, <2>5 DEF StationLocks
<1>3. CASE Finish(p, s)
  <2>1. \A t \in Stations : Serving(t)' = IF t = s THEN Serving(s) \ {p} ELSE Serving(t)
    BY <1>3 DEF Finish, Advance, Serving, InStation, AInv, AirportTypeOK
  <2>2. p \in Serving(s)
    BY <1>3 DEF Finish, Advance, Serving, InStation
  <2>3. \A t \in Stations : LockOf(t) = LockOf(s) => Serving(t)' = {}
    BY <1>0, <2>1, <2>2, OneStation
  <2>4. \A l \in Locks : locked'[l] = IF l = LockOf(s) THEN FALSE ELSE locked[l]
    BY <1>0, <1>3 DEF Finish, AInv, AirportTypeOK
  <2>5. \A l \in Locks :
          locked'[l] <=> \E t \in Stations : LockOf(t) = l /\ Serving(t)' # {}
    BY <1>0, <2>1, <2>3, <2>4
  <2>6. \A t, u \in Stations : LockOf(t) = LockOf(u) =>
          \A q \in Serving(t)', r \in Serving(u)' : q = r
    BY <1>0, <2>1
  <2> QED BY <2>5, <2>6 DEF StationLocks
<1> QED BY <1>1, <1>2, <1>3 DEF AtStation

\* At a station that holds one passenger, the queue holds that passenger.
LEMMA OwnPassStep ==
  ASSUME AInv, AirportTypeOK', StationBooks', NEW p \in Passengers,
         NEW s \in Stations, AtStation(p, s)
  PROVE  OwnPass'
<1> SUFFICES ASSUME NEW t \in Stations, Capacity(t) = 1
             PROVE  ServesItself(t)' /\ LeavesServed(t)'
  BY DEF OwnPass
<1>0. ServesItself(t) /\ LeavesServed(t)
  BY DEF AInv, OwnPass
<1>1. CASE t # s
  <2>1. Queued(t)' = Queued(t) /\ Serving(t)' = Serving(t) /\ queue'[t] = queue[t]
    BY <1>1 DEF AtStation, Reserve, Push, Take, Serve, Finish, Advance, Queued,
                Serving, InStation, AInv, AirportTypeOK
  <2> QED BY <1>0, <2>1 DEF ServesItself, LeavesServed
<1>2. CASE t = s /\ (Reserve(p, s) \/ Take(p, s))
  <2>1. Queued(t)' = Queued(t) /\ Serving(t)' = Serving(t) /\ queue'[t] = queue[t]
    BY <1>2 DEF Reserve, Take, Advance, Queued, Serving, InStation, AInv, AirportTypeOK
  <2> QED BY <1>0, <2>1 DEF ServesItself, LeavesServed
<1>3. CASE t = s /\ Push(p, s)
  <2>0. /\ empty[s] + Cardinality(Inside(s)) = 1
        /\ empty[s] \in Nat
        /\ Inside(s) \in SUBSET Passengers
    BY <1>3 DEF AInv, StationInv, StationBooks, AirportTypeOK, Inside, InStation
  <2>1. Cardinality(Inside(s)) \leq 1
    BY <2>0, PassengerCount
  <2>2. p \in Inside(s) /\ p \notin Queued(s) /\ Queued(s) \subseteq Inside(s)
    BY <1>3 DEF Push, Advance, Inside, Queued, InStation
  <2>3. Inside(s) \in SUBSET Passengers
    BY DEF Inside, InStation
  <2>4. Inside(s) = {p} /\ Queued(s) = {}
    BY <2>1, <2>2, <2>3, AtMostOne
  <2>5. Len(queue[s]) = 0 /\ queue[s] \in Seq(Passengers)
    BY <2>4, FS_EmptySet DEF AInv, StationInv, StationBooks, AirportTypeOK
  <2>6. queue'[s] = <<p>>
    BY <1>3, <2>5, EmptySeq DEF Push, AInv, AirportTypeOK
  <2>7. p \in Queued(s)' /\ Serving(s)' = {}
    BY <1>3, <2>4 DEF Push, Advance, Queued, Serving, InStation, Inside, AInv, AirportTypeOK
  <2> QED BY <1>3, <2>6, <2>7 DEF ServesItself, LeavesServed
<1>4. CASE t = s /\ Serve(p, s)
  <2>1. p \in Queued(s) /\ Queued(s)' = Queued(s) /\ queue' = queue
    BY <1>4 DEF Serve, Advance, Queued, InStation, AInv, AirportTypeOK
  <2>2. queue[s] = <<p>> /\ Inside(s) = {p}
    BY <1>4, <2>1, BooksFacts
  <2>3. Serving(s)' \subseteq {p}
    BY <1>4, <2>2 DEF Serve, Advance, Serving, InStation, Inside, AInv, AirportTypeOK
  <2> QED BY <1>0, <1>4, <2>1, <2>2, <2>3 DEF ServesItself, LeavesServed
<1>5. CASE t = s /\ Finish(p, s)
  <2>1. p \in Queued(s)
    BY <1>5 DEF Finish, Advance, Queued, InStation
  <2>2. queue[s] = <<p>> /\ Inside(s) = {p}
    BY <1>5, <2>1, BooksFacts
  <2>3. queue'[s] = <<>>
    BY <1>5, <2>2 DEF Finish, AInv, AirportTypeOK
  <2>4. Serving(s)' = {}
    BY <1>5, <2>2 DEF Finish, Advance, Serving, InStation, Inside, AInv, AirportTypeOK
  <2> QED BY <1>5, <2>3, <2>4 DEF ServesItself, LeavesServed
<1> QED BY <1>1, <1>2, <1>3, <1>4, <1>5 DEF AtStation

-----------------------------------------------------------------------------
\* A step of the program preserves the invariant: station functions by the lemmas
\* above, all other steps because they leave the stations alone.
LEMMA AirportStep == AInv /\ [AirportNext]_airVars => AInv'
<1> SUFFICES ASSUME AInv, [AirportNext]_airVars PROVE AInv'
  OBVIOUS
<1>1. AirportTypeOK'
  BY AirportTypeStep
<1>2. ASSUME NEW p \in Passengers, NEW s \in Stations, AtStation(p, s) PROVE AInv'
  BY <1>1, <1>2, BooksStep, LocksStep, OwnPassStep DEF AInv, StationInv
<1>3. ASSUME stationVars' = stationVars,
             \A s \in Stations : /\ Inside(s)' = Inside(s) /\ Queued(s)' = Queued(s)
                                 /\ Serving(s)' = Serving(s)
                                 /\ InStation(s, {"wait"})' = InStation(s, {"wait"})
      PROVE  AInv'
  BY <1>1, <1>3
  DEF AInv, StationInv, StationBooks, StationLocks, OwnPass, ServesItself,
      LeavesServed, stationVars
<1>4. ASSUME NEW p \in Passengers,
             LosePass(p) \/ KeepPass(p) \/ Leave(p) \/ Walk(p) \/ ComeOut(p)
      PROVE  AInv'
  <2>1. stationVars' = stationVars
    BY <1>4 DEF LosePass, KeepPass, Leave, Walk, ComeOut, MoveTo
  <2> QED BY <1>3, <1>4, <2>1, OutsideSets DEF AInv
<1>5. CASE UNCHANGED airVars
  BY <1>3, <1>5 DEF airVars, Inside, Queued, Serving, InStation
<1> QED BY <1>2, <1>4, <1>5 DEF AirportNext, PassengerLifeCycle, AllBoarded

\* The stations of the complete program, from its first state on.
THEOREM AirportInvariance == AirportSpec => []AInv
BY AirportInitInv, AirportStep, PTL DEF AirportSpec

\* Type correctness of the airport.
THEOREM AirportTypeCorrect == AirportSpec => []AirportTypeOK
BY AirportInvariance, PTL DEF AInv

\* Semaphores, queues and locks of all stations agree with the threads.
THEOREM StationsAgree == AirportSpec => []StationInv
BY AirportInvariance, PTL DEF AInv

\* The officer and the special kiosk serve the passenger whose thread calls.
THEOREM OfficerServesCaller == AirportSpec => []OwnPass
BY AirportInvariance, PTL DEF AInv

-----------------------------------------------------------------------------
\* The life cycle uses the channel as VipChannel says it may be used: whatever a
\* passenger does at the stations, the channel sees one of its own steps or none.
THEOREM AirportUsesChannel == AirportSpec => Spec
<1>1. AirportInit => Init
  BY DEF AirportInit
<1>2. [AirportNext]_airVars => [Next]_chanVars
  <2> SUFFICES ASSUME [AirportNext]_airVars PROVE [Next]_chanVars
    OBVIOUS
  <2>1. ASSUME NEW p \in Passengers, Walk(p) PROVE Next
    BY <2>1 DEF Walk, Next
  <2>2. ASSUME NEW p \in Passengers,
               \/ \E s \in Stations : AtStation(p, s)
               \/ LosePass(p) \/ KeepPass(p) \/ Leave(p) \/ ComeOut(p)
        PROVE  UNCHANGED chanVars
    BY <2>2 DEF AtStation, Reserve, Push, Take, Serve, Finish, LosePass, KeepPass,
                Advance, Leave, ComeOut, MoveTo
  <2>3. CASE UNCHANGED airVars
    BY <2>3 DEF airVars
  <2> QED BY <2>1, <2>2, <2>3 DEF AirportNext, PassengerLifeCycle, AllBoarded
<1> QED BY <1>1, <1>2, PTL DEF AirportSpec, Spec

\* So the walkway has one direction in the whole airport, too.
THEOREM AirportOneDirection == AirportSpec => []OneDirection
BY AirportUsesChannel, WalkwayOneDirection, PTL

-----------------------------------------------------------------------------
(* The first program: the same stations, with shorter ways between them. *)

\* A thread of the first program is a station function of the complete one, or
\* moves the passenger from one station to the next.
LEMMA FirstStep ==
  ASSUME AInv, NEW p \in Passengers, FirstLifeCycle(p)
  PROVE  AInv'
<1>1. ASSUME NEW s \in FirstStations, FirstStation(p, s) PROVE AInv'
  <2>1. s \in Stations BY DEF FirstStations, Stations
  <2>2. AirportNext BY <1>1, <2>1 DEF FirstStation, AirportNext, PassengerLifeCycle
  <2> QED BY <2>2, AirportStep
<1>2. CASE FirstLeave(p)
  <2>1. PICK st \in Stages \ {"LR", "RL", "kiosk", "skiosk"} :
          MoveTo(p, st) /\ step[p] = "done"
    <3>1. PICK st \in Belts \cup {"boarding", "boarded"} : MoveTo(p, st)
      BY <1>2 DEF FirstLeave
    <3>2. st \in Stages \ {"LR", "RL", "kiosk", "skiosk"}
      BY AirportAssumption DEF Stages, Stations
    <3> QED BY <1>2, <3>1, <3>2 DEF FirstLeave
  <2>2. AirportTypeOK' BY <2>1 DEF MoveTo, EntryStep, Steps, AInv, AirportTypeOK, stationVars
  <2>3. \A s \in Stations : /\ Inside(s)' = Inside(s) /\ Queued(s)' = Queued(s)
                            /\ Serving(s)' = Serving(s)
                            /\ InStation(s, {"wait"})' = InStation(s, {"wait"})
    BY <2>1 DEF MoveTo, EntryStep, Inside, Queued, Serving, InStation, AInv, AirportTypeOK
  <2>4. stationVars' = stationVars BY <2>1 DEF MoveTo
  <2> QED BY <2>2, <2>3, <2>4
      DEF AInv, StationInv, StationBooks, StationLocks, OwnPass, ServesItself,
          LeavesServed, stationVars
<1> QED BY <1>1, <1>2 DEF FirstLifeCycle

-----------------------------------------------------------------------------
(* The program whose machines are threads. *)

\* Who is at a station, so far into its queue.
Line(s, steps) == {p \in Passengers : at[p] = s /\ way[p] \in steps}

MachineTypes ==
  /\ at \in [Passengers -> Mach!Stations \cup {"boarded"}]
  /\ way \in [Passengers -> {"announce", "arrive", "push", "in"}]
  /\ machine \in [Mach!Stations -> {"idle", "turn", "serve"}]
  /\ line \in [Mach!Stations -> Seq(Passengers)]
  /\ room \in [Mach!Stations -> Nat]
  /\ waiting \in [Mach!Stations -> Nat]
  /\ bin_sem \in BOOLEAN

\* The books of one station; nobody stands in a queue twice.
Book(s) ==
  /\ room[s] + Cardinality(Line(s, {"push", "in"})) = Mach!Capacity(s)
  /\ {line[s][i] : i \in DOMAIN line[s]} = Line(s, {"in"})
  /\ \A i, j \in DOMAIN line[s] : line[s][i] = line[s][j] => i = j
  /\ Len(line[s]) = Cardinality(Line(s, {"in"}))
  /\ Len(line[s]) = waiting[s] + IF machine[s] = "idle" THEN 0 ELSE 1

\* The lock of the airport goes with the one machine that serves.
OneServes ==
  /\ bin_sem <=> \E s \in Mach!Stations : machine[s] = "serve"
  /\ \A s, t \in Mach!Stations : machine[s] = "serve" /\ machine[t] = "serve" => s = t

MachineInv == MachineTypes /\ (\A s \in Mach!Stations : Book(s)) /\ OneServes

\* Machines counts as FiniteSets does.
LEMMA SameCount == \A S : Mach!Cardinality(S) = Cardinality(S)
BY Zenon DEF Mach!Cardinality, Cardinality

\* The rooms of the stations, and how many are in a line.
LEMMA Rooms ==
  ASSUME NEW s \in Mach!Stations
  PROVE  /\ Mach!Capacity(s) \in Nat /\ s # "boarded"
         /\ \A steps : /\ Line(s, steps) \in SUBSET Passengers
                       /\ Cardinality(Line(s, steps)) \in Nat
<1>1. Mach!Capacity(s) \in Nat BY AirportAssumption DEF Mach!Capacity
<1>2. s # "boarded" BY AirportAssumption DEF Mach!Stations
<1>3. ASSUME NEW steps
      PROVE  Line(s, steps) \in SUBSET Passengers /\ Cardinality(Line(s, steps)) \in Nat
  <2>1. Line(s, steps) \in SUBSET Passengers BY DEF Line
  <2> QED BY <2>1, PassengerCount
<1> QED BY <1>1, <1>2, <1>3

\* A station that nobody enters or leaves, and that is not served, keeps its book.
LEMMA BookKept ==
  ASSUME NEW s \in Mach!Stations, Book(s),
         line'[s] = line[s], room'[s] = room[s], waiting'[s] = waiting[s],
         machine'[s] = machine[s],
         Line(s, {"push", "in"})' = Line(s, {"push", "in"}),
         Line(s, {"in"})' = Line(s, {"in"})
  PROVE  Book(s)'
BY DEF Book

\* A passenger on its way into a queue.
LEMMA WayStep ==
  ASSUME MachineInv, NEW p \in Passengers, NEW s \in Mach!Stations,
         Mach!Announce(p, s) \/ Mach!Reserve(p, s) \/ Mach!Push(p, s)
  PROVE  MachineInv'
<1>1. at[p] = s /\ at' = at /\ machine' = machine /\ bin_sem' = bin_sem
  BY DEF Mach!Announce, Mach!Reserve, Mach!Push, Mach!Advance
<1>2. MachineTypes BY DEF MachineInv
<1>3. PICK to \in {"arrive", "push", "in"} : way' = [way EXCEPT ![p] = to]
  BY DEF Mach!Announce, Mach!Reserve, Mach!Push, Mach!Advance
<1>4. /\ way' \in [Passengers -> {"announce", "arrive", "push", "in"}]
      /\ \A q \in Passengers : way'[q] = IF q = p THEN to ELSE way[q]
  BY <1>2, <1>3 DEF MachineTypes
<1>5. \A t \in Mach!Stations : t # s =>
        /\ Line(t, {"push", "in"})' = Line(t, {"push", "in"})
        /\ Line(t, {"in"})' = Line(t, {"in"})
  BY <1>1, <1>4 DEF Line
<1>6. OneServes' BY <1>1 DEF MachineInv, OneServes
<1>7. Book(s) /\ \A t \in Mach!Stations : Book(t) BY DEF MachineInv
<1>8. /\ Line(s, {"push", "in"}) \in SUBSET Passengers /\ Line(s, {"in"}) \in SUBSET Passengers
      /\ Cardinality(Line(s, {"push", "in"})) \in Nat /\ Cardinality(Line(s, {"in"})) \in Nat
      /\ Mach!Capacity(s) \in Nat
  BY Rooms
<1>9. CASE Mach!Announce(p, s)
  <2>1. way[p] = "announce" /\ to = "arrive" /\ line' = line /\ room' = room /\ waiting' = waiting
    <3>1. way[p] = "announce" /\ way' = [way EXCEPT ![p] = "arrive"]
          /\ line' = line /\ room' = room /\ waiting' = waiting
      BY <1>9 DEF Mach!Announce, Mach!Advance
    <3> QED BY <1>2, <1>4, <3>1 DEF MachineTypes
  <2>2. \A t \in Mach!Stations : /\ Line(t, {"push", "in"})' = Line(t, {"push", "in"})
                                 /\ Line(t, {"in"})' = Line(t, {"in"})
    BY <1>1, <1>4, <2>1 DEF Line
  <2>3. \A t \in Mach!Stations : Book(t)' BY <1>1, <1>7, <2>1, <2>2, BookKept
  <2>4. MachineTypes' BY <1>1, <1>2, <1>4, <2>1 DEF MachineTypes
  <2> QED BY <1>6, <2>3, <2>4 DEF MachineInv
<1>10. CASE Mach!Reserve(p, s)
  <2>1. /\ way[p] = "arrive" /\ to = "push" /\ line' = line /\ waiting' = waiting
        /\ room[s] > 0 /\ room' = [room EXCEPT ![s] = @ - 1]
    <3>1. /\ way[p] = "arrive" /\ way' = [way EXCEPT ![p] = "push"]
          /\ line' = line /\ waiting' = waiting
          /\ room[s] > 0 /\ room' = [room EXCEPT ![s] = @ - 1]
      BY <1>10 DEF Mach!Reserve, Mach!Advance
    <3> QED BY <1>2, <1>4, <3>1 DEF MachineTypes
  <2>2. /\ room' \in [Mach!Stations -> Nat] /\ room'[s] = room[s] - 1 /\ room[s] \in Nat
        /\ \A t \in Mach!Stations : t # s => room'[t] = room[t]
    BY <1>2, <2>1 DEF MachineTypes
  <2>3. /\ p \notin Line(s, {"push", "in"})
        /\ Line(s, {"push", "in"})' = Line(s, {"push", "in"}) \cup {p}
        /\ Line(s, {"in"})' = Line(s, {"in"})
    BY <1>1, <1>4, <2>1 DEF Line
  <2>4. Cardinality(Line(s, {"push", "in"})') = Cardinality(Line(s, {"push", "in"})) + 1
    BY <1>8, <2>3, PassengerCount
  <2>5. Book(s)' BY <1>1, <1>7, <1>8, <2>1, <2>2, <2>3, <2>4 DEF Book
  <2>6. \A t \in Mach!Stations : t # s => Book(t)'
    BY <1>1, <1>5, <1>7, <2>1, <2>2, BookKept
  <2>7. MachineTypes' BY <1>1, <1>2, <1>4, <2>1, <2>2 DEF MachineTypes
  <2> QED BY <1>6, <2>5, <2>6, <2>7 DEF MachineInv
<1>11. CASE Mach!Push(p, s)
  <2>1. /\ way[p] = "push" /\ to = "in" /\ room' = room
        /\ line' = [line EXCEPT ![s] = Append(@, p)]
        /\ waiting' = [waiting EXCEPT ![s] = @ + 1]
    <3>1. /\ way[p] = "push" /\ way' = [way EXCEPT ![p] = "in"] /\ room' = room
          /\ line' = [line EXCEPT ![s] = Append(@, p)]
          /\ waiting' = [waiting EXCEPT ![s] = @ + 1]
      BY <1>11 DEF Mach!Push, Mach!Advance
    <3> QED BY <1>2, <1>4, <3>1 DEF MachineTypes
  <2>2. PICK l \in Seq(Passengers) : l = line[s] BY <1>2 DEF MachineTypes
  <2>3. /\ Append(l, p) \in Seq(Passengers) /\ Len(Append(l, p)) = Len(l) + 1
        /\ \A i \in 1 .. Len(l) : Append(l, p)[i] = l[i]
        /\ Append(l, p)[Len(l) + 1] = p
        /\ Len(l) \in Nat /\ DOMAIN l = 1 .. Len(l)
        /\ DOMAIN Append(l, p) = 1 .. Len(l) + 1
    BY AppendProperties, LenProperties
  <2>4. /\ line' \in [Mach!Stations -> Seq(Passengers)] /\ line'[s] = Append(l, p)
        /\ \A t \in Mach!Stations : t # s => line'[t] = line[t]
    BY <1>2, <2>1, <2>2, <2>3 DEF MachineTypes
  <2>5. /\ waiting' \in [Mach!Stations -> Nat] /\ waiting'[s] = waiting[s] + 1
        /\ waiting[s] \in Nat
        /\ \A t \in Mach!Stations : t # s => waiting'[t] = waiting[t]
    BY <1>2, <2>1 DEF MachineTypes
  <2>6. /\ p \notin Line(s, {"in"}) /\ Line(s, {"in"})' = Line(s, {"in"}) \cup {p}
        /\ Line(s, {"push", "in"})' = Line(s, {"push", "in"})
    BY <1>1, <1>4, <2>1 DEF Line
  <2>7. Cardinality(Line(s, {"in"})') = Cardinality(Line(s, {"in"})) + 1
    BY <1>8, <2>6, PassengerCount
  <2>8. /\ {l[i] : i \in 1 .. Len(l)} = Line(s, {"in"})
        /\ \A i, j \in 1 .. Len(l) : l[i] = l[j] => i = j
        /\ Len(l) = Cardinality(Line(s, {"in"}))
        /\ Len(l) = waiting[s] + IF machine[s] = "idle" THEN 0 ELSE 1
    BY <1>7, <2>2, <2>3 DEF Book
  <2>9. {Append(l, p)[i] : i \in 1 .. Len(l) + 1} = Line(s, {"in"}) \cup {p}
    <3>1. 1 .. Len(l) + 1 = 1 .. Len(l) \cup {Len(l) + 1} BY <2>3
    <3> QED BY <2>3, <2>8, <3>1
  <2>10. \A i, j \in 1 .. Len(l) + 1 : Append(l, p)[i] = Append(l, p)[j] => i = j
    <3>1. \A i \in 1 .. Len(l) : l[i] # p BY <2>6, <2>8
    <3>2. \A i \in 1 .. Len(l) + 1 : i \in 1 .. Len(l) \/ i = Len(l) + 1 BY <2>3
    <3> HIDE DEF Line
    <3> QED BY <2>3, <2>8, <3>1, <3>2
  <2>11. Book(s)'
    BY <1>1, <1>7, <1>8, <2>1, <2>3, <2>4, <2>5, <2>6, <2>7, <2>8, <2>9, <2>10 DEF Book
  <2>12. \A t \in Mach!Stations : t # s => Book(t)'
    BY <1>1, <1>5, <1>7, <2>1, <2>4, <2>5, BookKept
  <2>13. MachineTypes' BY <1>1, <1>2, <1>4, <2>1, <2>4, <2>5 DEF MachineTypes
  <2> QED BY <1>6, <2>11, <2>12, <2>13 DEF MachineInv
<1> QED BY <1>9, <1>10, <1>11

\* A machine waits for a passenger, and for the lock.
LEMMA MachineTurns ==
  ASSUME MachineInv, NEW s \in Mach!Stations, Mach!Take(s) \/ Mach!Serve(s)
  PROVE  MachineInv'
<1>1. /\ at' = at /\ way' = way /\ line' = line /\ room' = room
  BY DEF Mach!Take, Mach!Serve
<1>2. MachineTypes /\ OneServes /\ \A t \in Mach!Stations : Book(t) BY DEF MachineInv
<1>3. \A t \in Mach!Stations : /\ Line(t, {"push", "in"})' = Line(t, {"push", "in"})
                               /\ Line(t, {"in"})' = Line(t, {"in"})
  BY <1>1 DEF Line
<1>4. CASE Mach!Take(s)
  <2>1. /\ machine[s] = "idle" /\ machine' = [machine EXCEPT ![s] = "turn"]
        /\ waiting[s] > 0 /\ waiting' = [waiting EXCEPT ![s] = @ - 1] /\ bin_sem' = bin_sem
    BY <1>4 DEF Mach!Take, Mach!Turns
  <2>2. /\ machine' \in [Mach!Stations -> {"idle", "turn", "serve"}]
        /\ waiting' \in [Mach!Stations -> Nat]
        /\ waiting[s] \in Nat /\ waiting'[s] = waiting[s] - 1 /\ machine'[s] = "turn"
        /\ \A t \in Mach!Stations : t # s => waiting'[t] = waiting[t] /\ machine'[t] = machine[t]
    BY <1>2, <2>1 DEF MachineTypes
  <2>3. Book(s)'
    <3>1. Len(line[s]) = waiting[s] + 0 BY <1>2, <2>1 DEF Book
    <3>2. Len(line[s]) = waiting'[s] + 1 BY <2>2, <3>1
    <3> QED BY <1>1, <1>2, <1>3, <2>2, <3>2 DEF Book
  <2>4. \A t \in Mach!Stations : t # s => Book(t)' BY <1>1, <1>2, <1>3, <2>2, BookKept
  <2>5. \A t \in Mach!Stations : machine'[t] = "serve" <=> machine[t] = "serve" BY <2>1, <2>2
  <2>6. OneServes' BY <1>2, <2>1, <2>5 DEF OneServes
  <2>7. MachineTypes' BY <1>1, <1>2, <2>1, <2>2 DEF MachineTypes
  <2> QED BY <2>3, <2>4, <2>6, <2>7 DEF MachineInv
<1>5. CASE Mach!Serve(s)
  <2>1. /\ machine[s] = "turn" /\ machine' = [machine EXCEPT ![s] = "serve"]
        /\ waiting' = waiting /\ ~bin_sem /\ bin_sem' = TRUE
    BY <1>5 DEF Mach!Serve, Mach!Turns
  <2>2. /\ machine' \in [Mach!Stations -> {"idle", "turn", "serve"}] /\ machine'[s] = "serve"
        /\ \A t \in Mach!Stations : t # s => machine'[t] = machine[t]
    BY <1>2, <2>1 DEF MachineTypes
  <2>3. Book(s)' BY <1>1, <1>2, <1>3, <2>1, <2>2 DEF Book
  <2>4. \A t \in Mach!Stations : t # s => Book(t)' BY <1>1, <1>2, <1>3, <2>1, <2>2, BookKept
  <2>5. \A t \in Mach!Stations : machine[t] # "serve" BY <1>2, <2>1 DEF OneServes
  <2>6. OneServes' BY <2>1, <2>2, <2>5 DEF OneServes
  <2>7. MachineTypes' BY <1>1, <1>2, <2>1, <2>2 DEF MachineTypes
  <2> QED BY <2>3, <2>4, <2>6, <2>7 DEF MachineInv
<1> QED BY <1>4, <1>5

\* A machine has served whom it finds at the front, and sends it on.
LEMMA MachineFinishes ==
  ASSUME MachineInv, NEW s \in Mach!Stations,
         NEW nxt \in (Mach!Stations \cup {"boarded"}) \ {s}, NEW first \in {"announce", "arrive", "in"},
         first = "in" => nxt = "boarded", Mach!Finish(s, nxt, first)
  PROVE  MachineInv'
<1>1. /\ machine[s] = "serve" /\ machine' = [machine EXCEPT ![s] = "idle"]
      /\ at' = [at EXCEPT ![Head(line[s])] = nxt]
      /\ way' = [way EXCEPT ![Head(line[s])] = first]
      /\ line' = [line EXCEPT ![s] = Tail(@)]
      /\ room' = [room EXCEPT ![s] = @ + 1]
      /\ bin_sem' = FALSE /\ waiting' = waiting
  BY DEF Mach!Finish, Mach!Turns
<1>2. MachineTypes /\ OneServes /\ \A t \in Mach!Stations : Book(t) BY DEF MachineInv
<1>3. PICK l \in Seq(Passengers) : l = line[s] BY <1>2 DEF MachineTypes
<1>4. Len(l) \in Nat /\ DOMAIN l = 1 .. Len(l) BY LenProperties
<1>5. /\ {l[i] : i \in 1 .. Len(l)} = Line(s, {"in"})
      /\ \A i, j \in 1 .. Len(l) : l[i] = l[j] => i = j
      /\ Len(l) = Cardinality(Line(s, {"in"}))
      /\ Len(l) = waiting[s] + 1 /\ waiting[s] \in Nat
  <2>1. waiting[s] \in Nat BY <1>2 DEF MachineTypes
  <2>2. Len(l) = waiting[s] + 1 BY <1>1, <1>2, <1>3 DEF Book
  <2>3. Len(l) = Cardinality(Line(s, {"in"})) BY <1>2, <1>3 DEF Book
  <2>4. /\ {l[i] : i \in DOMAIN l} = Line(s, {"in"})
        /\ \A i, j \in DOMAIN l : l[i] = l[j] => i = j
    BY <1>2, <1>3 DEF Book
  <2> QED BY <1>4, <2>1, <2>2, <2>3, <2>4
<1>6. Len(l) >= 1 /\ l # <<>> BY <1>5, EmptySeq
<1>7. /\ Head(l) \in Passengers /\ Tail(l) \in Seq(Passengers) /\ Len(Tail(l)) = Len(l) - 1
      /\ \A i \in 1 .. Len(Tail(l)) : Tail(l)[i] = l[i + 1]
      /\ DOMAIN Tail(l) = 1 .. Len(l) - 1
  BY <1>6, HeadTailProperties, LenProperties
<1>8. PICK h \in Passengers : h = Head(l) /\ h = l[1]
  <2>1. Head(l) = l[1] BY <1>6
  <2> QED BY <1>7, <2>1
<1>9. at[h] = s /\ way[h] = "in" /\ h \in Line(s, {"in"})
  <2>1. h \in Line(s, {"in"}) BY <1>4, <1>5, <1>6, <1>8
  <2> QED BY <2>1 DEF Line
<1>10. /\ at' \in [Passengers -> Mach!Stations \cup {"boarded"}]
       /\ way' \in [Passengers -> {"announce", "arrive", "push", "in"}]
       /\ \A q \in Passengers : /\ at'[q] = IF q = h THEN nxt ELSE at[q]
                                /\ way'[q] = IF q = h THEN first ELSE way[q]
  BY <1>1, <1>2, <1>3, <1>8 DEF MachineTypes
<1>11. /\ line' \in [Mach!Stations -> Seq(Passengers)] /\ line'[s] = Tail(l)
       /\ \A t \in Mach!Stations : t # s => line'[t] = line[t]
  BY <1>1, <1>2, <1>3, <1>7 DEF MachineTypes
<1>12. /\ room' \in [Mach!Stations -> Nat] /\ room[s] \in Nat /\ room'[s] = room[s] + 1
       /\ machine' \in [Mach!Stations -> {"idle", "turn", "serve"}] /\ machine'[s] = "idle"
       /\ \A t \in Mach!Stations : t # s => room'[t] = room[t] /\ machine'[t] = machine[t]
  BY <1>1, <1>2 DEF MachineTypes
<1>13. /\ Line(s, {"in"})' = Line(s, {"in"}) \ {h}
       /\ h \in Line(s, {"push", "in"})
       /\ Line(s, {"push", "in"})' = Line(s, {"push", "in"}) \ {h}
  BY <1>9, <1>10 DEF Line
<1>14. \A t \in Mach!Stations : t # s =>
         /\ Line(t, {"in"})' = Line(t, {"in"})
         /\ Line(t, {"push", "in"})' = Line(t, {"push", "in"})
  <2>1. "boarded" \notin Mach!Stations BY Rooms
  <2> QED BY <1>9, <1>10, <2>1 DEF Line
<1>15. /\ Line(s, {"push", "in"}) \in SUBSET Passengers /\ Line(s, {"in"}) \in SUBSET Passengers
       /\ Cardinality(Line(s, {"push", "in"})) \in Nat /\ Cardinality(Line(s, {"in"})) \in Nat
       /\ Mach!Capacity(s) \in Nat
  BY Rooms
<1>16. /\ Cardinality(Line(s, {"in"})') = Cardinality(Line(s, {"in"})) - 1
       /\ Cardinality(Line(s, {"push", "in"})') = Cardinality(Line(s, {"push", "in"})) - 1
  BY <1>9, <1>13, <1>15, PassengerCount
<1>17. {Tail(l)[i] : i \in 1 .. Len(l) - 1} = Line(s, {"in"}) \ {h}
  <2>1. ASSUME NEW i \in 1 .. Len(l) - 1 PROVE Tail(l)[i] \in Line(s, {"in"}) \ {h}
    <3>1. i + 1 \in 1 .. Len(l) /\ 1 \in 1 .. Len(l) /\ i + 1 # 1 BY <1>4, <1>6
    <3>2. Tail(l)[i] = l[i + 1] BY <1>7
    <3>3. l[i + 1] # l[1] BY <1>5, <3>1
    <3>4. l[i + 1] \in Line(s, {"in"}) BY <1>5, <3>1
    <3> QED BY <1>8, <3>2, <3>3, <3>4
  <2>2. ASSUME NEW q \in Line(s, {"in"}) \ {h} PROVE \E i \in 1 .. Len(l) - 1 : q = Tail(l)[i]
    <3>1. PICK j \in 1 .. Len(l) : q = l[j] BY <1>5
    <3>2. j # 1 BY <1>8, <3>1
    <3>3. PICK i \in 1 .. Len(l) - 1 : i + 1 = j
      <4>1. j - 1 \in 1 .. Len(l) - 1 /\ (j - 1) + 1 = j BY <1>4, <3>2
      <4> QED BY <4>1
    <3> QED BY <1>7, <3>1, <3>3
  <2> QED BY <2>1, <2>2
<1>18. \A i, j \in 1 .. Len(l) - 1 : Tail(l)[i] = Tail(l)[j] => i = j
  <2>1. ASSUME NEW i \in 1 .. Len(l) - 1, NEW j \in 1 .. Len(l) - 1, Tail(l)[i] = Tail(l)[j]
        PROVE  i = j
    <3>1. i + 1 \in 1 .. Len(l) /\ j + 1 \in 1 .. Len(l) BY <1>4
    <3>2. Tail(l)[i] = l[i + 1] /\ Tail(l)[j] = l[j + 1] BY <1>7
    <3>3. i + 1 = j + 1 BY <1>5, <2>1, <3>1, <3>2
    <3> QED BY <3>3
  <2> QED BY <2>1
<1>19. Book(s)'
  <2>1. (room[s] + Cardinality(Line(s, {"push", "in"})) = Mach!Capacity(s))'
    <3>1. room[s] + Cardinality(Line(s, {"push", "in"})) = Mach!Capacity(s) BY <1>2 DEF Book
    <3>2. Mach!Capacity(s)' = Mach!Capacity(s) BY DEF Mach!Capacity
    <3>3. /\ room[s] \in Nat /\ room'[s] = room[s] + 1
          /\ Cardinality(Line(s, {"push", "in"})) \in Nat
      BY <1>12, <1>15
    <3> QED BY ONLY <1>16, <3>1, <3>2, <3>3
  <2>2. /\ Len(line'[s]) = Cardinality(Line(s, {"in"})')
        /\ Len(line'[s]) = waiting'[s] + 0
    BY <1>1, <1>5, <1>7, <1>11, <1>16
  <2>3. /\ {line'[s][i] : i \in DOMAIN line'[s]} = Line(s, {"in"})'
        /\ \A i, j \in DOMAIN line'[s] : line'[s][i] = line'[s][j] => i = j
    <3>1. /\ {Tail(l)[i] : i \in DOMAIN Tail(l)} = Line(s, {"in"}) \ {h}
          /\ \A i, j \in DOMAIN Tail(l) : Tail(l)[i] = Tail(l)[j] => i = j
      BY <1>7, <1>17, <1>18
    <3> QED BY <1>11, <1>13, <3>1
  <2> QED BY <1>12, <2>1, <2>2, <2>3 DEF Book
<1>20. \A t \in Mach!Stations : t # s => Book(t)'
  BY <1>1, <1>2, <1>11, <1>12, <1>14, BookKept
<1>21. OneServes'
  <2>1. \A t \in Mach!Stations : machine'[t] # "serve" BY <1>1, <1>2, <1>12 DEF OneServes
  <2> QED BY <1>1, <2>1 DEF OneServes
<1>22. MachineTypes' BY <1>1, <1>2, <1>10, <1>11, <1>12 DEF MachineTypes
<1> QED BY <1>19, <1>20, <1>21, <1>22 DEF MachineInv

\* All lines are empty, and all machines idle.
LEMMA MachineInit == Mach!Init => MachineInv
<1> SUFFICES ASSUME Mach!Init PROVE MachineInv
  OBVIOUS
<1> USE DEF Mach!Init
<1>1. MachineTypes
  <2>1. line \in [Mach!Stations -> Seq(Passengers)] BY EmptySeq
  <2>2. room \in [Mach!Stations -> Nat] BY Rooms
  <2> QED BY <2>1, <2>2 DEF MachineTypes, Mach!Stations
<1>2. ASSUME NEW s \in Mach!Stations PROVE Book(s)
  <2>1. Line(s, {"push", "in"}) = {} /\ Line(s, {"in"}) = {} BY DEF Line
  <2>2. Cardinality({}) = 0 BY FS_EmptySet
  <2>3. line[s] = <<>> /\ Len(line[s]) = 0 /\ DOMAIN line[s] = {}
    <3>1. <<>> \in Seq(Passengers) /\ Len(<<>>) = 0 BY EmptySeq
    <3> QED BY <3>1
  <2>4. Mach!Capacity(s) \in Nat BY Rooms
  <2>5. room[s] = Mach!Capacity(s) /\ waiting[s] = 0 /\ machine[s] = "idle" OBVIOUS
  <2>6. {line[s][i] : i \in DOMAIN line[s]} = Line(s, {"in"}) BY <2>1, <2>3
  <2>7. \A i, j \in DOMAIN line[s] : line[s][i] = line[s][j] => i = j BY <2>3
  <2>8. room[s] + Cardinality(Line(s, {"push", "in"})) = Mach!Capacity(s)
    <3>1. Cardinality(Line(s, {"push", "in"})) = 0 BY <2>1, <2>2
    <3>2. room[s] \in Nat BY <2>4, <2>5
    <3> QED BY <2>5, <3>1, <3>2
  <2>9. Len(line[s]) = Cardinality(Line(s, {"in"})) BY <2>1, <2>2, <2>3
  <2>10. Len(line[s]) = waiting[s] + IF machine[s] = "idle" THEN 0 ELSE 1 BY <2>3, <2>5
  <2> QED BY <2>6, <2>7, <2>8, <2>9, <2>10 DEF Book
<1>3. OneServes BY DEF OneServes
<1> QED BY <1>1, <1>2, <1>3 DEF MachineInv

\* A step of the third program: of a passenger or of a machine.
LEMMA MachineStep ==
  MachineInv /\ (\/ \E p \in Passengers : Mach!Passenger(p)
                 \/ \E s \in Mach!Stations : Mach!Machine(s)) => MachineInv'
<1> SUFFICES ASSUME MachineInv,
                    \/ \E p \in Passengers : Mach!Passenger(p)
                    \/ \E s \in Mach!Stations : Mach!Machine(s)
             PROVE  MachineInv'
  OBVIOUS
<1>1. "kiosk" \in Mach!Stations /\ "boarding" \in Mach!Stations /\ Belts \subseteq Mach!Stations
      /\ "kiosk" \notin Belts /\ "boarding" \notin Belts
  BY AirportAssumption DEF Mach!Stations
<1>2. ASSUME NEW p \in Passengers, Mach!Passenger(p) PROVE MachineInv'
  <2>1. PICK s \in Mach!Stations : Mach!Announce(p, s) \/ Mach!Reserve(p, s) \/ Mach!Push(p, s)
    BY <1>1, <1>2 DEF Mach!Passenger, Mach!SentToAirport, Mach!SendToSecurity, Mach!SentToBoarding
  <2> QED BY <2>1, WayStep
<1>3. ASSUME NEW s \in Mach!Stations, Mach!Machine(s) PROVE MachineInv'
  <2>1. CASE Mach!Take(s) \/ Mach!Serve(s) BY <2>1, MachineTurns
  <2>2. CASE s = "kiosk" /\ \E b \in Belts : Mach!Finish("kiosk", b, "arrive")
    BY <1>1, <2>2, MachineFinishes
  <2>3. CASE s \in Belts /\ Mach!Finish(s, "boarding", "announce")
    BY <1>1, <2>3, MachineFinishes
  <2>4. CASE s = "boarding" /\ Mach!Finish("boarding", "boarded", "in")
    BY <1>1, <2>4, MachineFinishes
  <2> QED BY <1>3, <2>1, <2>2, <2>3, <2>4
      DEF Mach!Machine, Mach!KioskHandler, Mach!SecurityCheck, Mach!BoardingHandler
<1> QED BY <1>2, <1>3

-----------------------------------------------------------------------------
(* The three programs. *)

\* Whichever of the programs is started, the books of its stations are right, and a
\* station of the first two that holds one passenger serves the caller.
LEMMA ProgramsInvariance == AirportsSpec => [](AInv /\ MachineInv)
<1>1. AirportsInit => AInv /\ MachineInv
  BY AirportInitInv, MachineInit DEF AirportsInit
<1>2. AInv /\ MachineInv /\ [AirportsNext]_allVars => (AInv /\ MachineInv)'
  <2> SUFFICES ASSUME AInv, MachineInv, [AirportsNext]_allVars PROVE AInv' /\ MachineInv'
    OBVIOUS
  <2>1. ASSUME UNCHANGED machVars PROVE MachineInv'
    <3>1. /\ at' = at /\ way' = way /\ machine' = machine /\ line' = line /\ room' = room
          /\ waiting' = waiting /\ bin_sem' = bin_sem
      BY <2>1 DEF machVars
    <3>2. MachineTypes' BY <3>1 DEF MachineInv, MachineTypes
    <3>3. OneServes' BY <3>1 DEF MachineInv, OneServes
    <3>4. \A s \in Mach!Stations : /\ Line(s, {"push", "in"})' = Line(s, {"push", "in"})
                                   /\ Line(s, {"in"})' = Line(s, {"in"})
      BY <3>1 DEF Line
    <3>5. \A s \in Mach!Stations : Book(s)' BY <3>1, <3>4, BookKept DEF MachineInv
    <3> QED BY <3>2, <3>3, <3>5 DEF MachineInv
  <2>2. ASSUME UNCHANGED airVars PROVE AInv'
    BY <2>2, AirportStep
  <2>3. ASSUME NEW p \in Passengers, CompleteThread(p) PROVE AInv' /\ MachineInv'
    <3>1. AirportNext /\ UNCHANGED machVars BY <2>3 DEF CompleteThread, AirportNext
    <3> QED BY <2>1, <3>1, AirportStep
  <2>4. ASSUME NEW p \in Passengers, FirstThread(p) PROVE AInv' /\ MachineInv'
    <3>1. FirstLifeCycle(p) /\ UNCHANGED machVars BY <2>4 DEF FirstThread
    <3> QED BY <2>1, <3>1, FirstStep
  <2>5. ASSUME NEW p \in Passengers, WayThread(p) PROVE AInv' /\ MachineInv'
    BY <2>2, <2>5, MachineStep DEF WayThread
  <2>6. ASSUME NEW s \in Mach!Stations, MachineThread(s) PROVE AInv' /\ MachineInv'
    BY <2>2, <2>6, MachineStep DEF MachineThread
  <2>7. CASE UNCHANGED allVars
    BY <2>1, <2>2, <2>7 DEF allVars
  <2> QED BY <2>3, <2>4, <2>5, <2>6, <2>7 DEF AirportsNext
<1> QED BY <1>1, <1>2, PTL DEF AirportsSpec

\* The semaphores, queues and lock of the machines agree with the passengers.
THEOREM MachinesAgree == AirportsSpec => []MachineBooks
<1>1. MachineInv => MachineBooks
  <2> SUFFICES ASSUME MachineInv PROVE MachineBooks
    OBVIOUS
  <2>1. OneServes /\ \A s \in Mach!Stations : Book(s) BY DEF MachineInv
  <2>2. ASSUME NEW s \in Mach!Stations
        PROVE  /\ room[s] + Cardinality(Line(s, {"push", "in"})) = Mach!Capacity(s)
               /\ {line[s][i] : i \in DOMAIN line[s]} = Line(s, {"in"})
               /\ Len(line[s]) = Cardinality(Line(s, {"in"}))
               /\ Len(line[s]) = waiting[s] + IF machine[s] = "idle" THEN 0 ELSE 1
    BY <2>1 DEF Book
  <2> QED BY <2>1, <2>2, SameCount DEF MachineBooks, Mach!MachineBooks, Line, OneServes
<1> QED BY <1>1, ProgramsInvariance, PTL

\* Semaphores, queues and locks of all stations agree with the threads, in the complete
\* program and in the first one.
THEOREM ProgramsAgree == AirportsSpec => [](StationInv /\ OwnPass)
BY ProgramsInvariance, PTL DEF AInv

=============================================================================
