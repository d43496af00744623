--------------------------- MODULE IterLoopProofs ---------------------------
(* Proofs about IterLoop, for every value of the constants of iters.py and
   every set of amounts. *)
EXTENDS IterLoop, TLAPS

(* The index and the amounts keep their types. *)
LEMMA LoopTypeInvariant == Spec => []TypeOK
<1>1. Init => TypeOK
  BY DEF Init, TypeOK
<1>2. TypeOK /\ [Next]_vars => TypeOK'
  <2>. SUFFICES ASSUME TypeOK, [Next]_vars PROVE TypeOK'
    OBVIOUS
  <2>. USE DEF TypeOK
  <2>1. CASE Round
    BY <2>1, AmountsAssumption DEF Round
  <2>2. CASE Proceed
    BY <2>2 DEF Proceed, NextIndex
  <2>3. CASE Stop
    BY <2>3 DEF Stop
  <2>4. CASE UNCHANGED vars
    BY <2>4 DEF vars
  <2>. QED
    BY <2>1, <2>2, <2>3, <2>4 DEF Next
<1>. QED
  BY <1>1, <1>2, PTL DEF Spec

(* The loop goes on only if the amount exceeds the minimum and rounds are
   left. *)
LEMMA ContinuesBounds ==
    ASSUME TypeOK, Continues
    PROVE  amount > Min /\ index < MAX_ITERS_COUNT
<1>1. CASE mode = "live"
  BY <1>1, IterConstsAssumption
     DEF Continues, CheckLiveIterProgress, IsSmall, TooMany, Min, TypeOK, NoStats
<1>2. CASE mode = "restart"
  BY <1>2, IterConstsAssumption
     DEF Continues, CheckRestartIterProgress, IsSmall, TooMany, Min, TypeOK, NoStats
<1>. QED
  BY <1>1, <1>2 DEF TypeOK

(* At most MAX_ITERS_COUNT + 1 rounds before the final one: the maximum that
   RoundsWithinMaximum states is exceeded by one round, and never by two. *)
THEOREM LoopRoundsBounded == Spec => []RoundsBounded
<1>1. Init => RoundsBounded
  BY IterConstsAssumption DEF Init, RoundsBounded, Rounds
<1>2. TypeOK /\ RoundsBounded /\ [Next]_vars => RoundsBounded'
  <2>. SUFFICES ASSUME TypeOK, RoundsBounded, [Next]_vars PROVE RoundsBounded'
    OBVIOUS
  <2>1. CASE Proceed
    BY <2>1, ContinuesBounds, IterConstsAssumption DEF Proceed, NextIndex, RoundsBounded, Rounds, TypeOK
  <2>2. CASE Round \/ Stop \/ UNCHANGED vars
    BY <2>2 DEF Round, Stop, vars, RoundsBounded, Rounds
  <2>. QED
    BY <2>1, <2>2 DEF Next
<1>. QED
  BY <1>1, <1>2, LoopTypeInvariant, PTL DEF Spec

(* The grow rate never divides by zero, nor by a missing amount. *)
THEOREM LoopDivisorPositive == Spec => []DivisorPositive
<1>1. Init => DivisorPositive
  BY DEF Init, DivisorPositive, NoStats
<1>2. TypeOK /\ DivisorPositive /\ [Next]_vars => DivisorPositive'
  <2>. SUFFICES ASSUME TypeOK, DivisorPositive, [Next]_vars PROVE DivisorPositive'
    OBVIOUS
  <2>1. CASE Proceed
    <3>1. amount > Min /\ Min \in Nat
      BY <2>1, ContinuesBounds, IterConstsAssumption DEF Proceed, Min
    <3>2. Min' = Min
      BY <2>1 DEF Proceed, Min
    <3>. QED
      BY <2>1, <3>1, <3>2 DEF Proceed, NextIndex, DivisorPositive, TypeOK, NoStats
  <2>2. CASE Round \/ Stop \/ UNCHANGED vars
    BY <2>2 DEF Round, Stop, vars, DivisorPositive, Min
  <2>. QED
    BY <2>1, <2>2 DEF Next
<1>. QED
  BY <1>1, <1>2, LoopTypeInvariant, PTL DEF Spec

(* A rate that is rounded down and does not exceed the limit bounds the growth
   by one per cent more than the limit. *)
LEMMA FloorBound ==
    ASSUME NEW v \in Nat, NEW p \in Nat, p > 0, NEW r \in Nat,
           ((v - p) * 100) \div p <= r
    PROVE  v * 100 < p * (101 + r)
<1> DEFINE n == (v - p) * 100
           q == n \div p
<1>1. n \in Int /\ q \in Int
  OBVIOUS
<1>2. n < p * (q + 1)
  BY <1>1
<1>3. p * (q + 1) <= p * (r + 1)
  BY <1>1
<1>. QED
  BY <1>2, <1>3

(* A round after which the loop goes on grew by less than
   MAX_ITER_GROW_RATE + 1 per cent. *)
THEOREM LoopGrowthAccepted == Spec => GrowthAccepted
<1>1. TypeOK /\ DivisorPositive /\ [Next]_vars
        => [Proceed /\ prev # NoStats
              => amount * 100 < prev * (101 + MAX_ITER_GROW_RATE)]_vars
  <2>. SUFFICES ASSUME TypeOK, DivisorPositive, Proceed, prev # NoStats
                PROVE  amount * 100 < prev * (101 + MAX_ITER_GROW_RATE)
    OBVIOUS
  <2>1. amount \in Nat /\ prev \in Nat /\ prev > 0 /\ MAX_ITER_GROW_RATE \in Nat
    <3>1. amount > Min /\ Min \in Nat
      BY ContinuesBounds, IterConstsAssumption DEF Proceed, Min
    <3>. QED
      BY <3>1, IterConstsAssumption DEF TypeOK, DivisorPositive, NoStats
  <2>2. CalcGrowRate(amount, prev) <= MAX_ITER_GROW_RATE
    <3>1. ~Grows(amount, prev)
      BY DEF Proceed, Continues, CheckLiveIterProgress, CheckRestartIterProgress
    <3>. QED
      BY <2>1, <3>1 DEF Grows, CalcGrowRate
  <2>. QED
    BY <2>1, <2>2, FloorBound DEF CalcGrowRate
<1>. QED
  BY <1>1, LoopTypeInvariant, LoopDivisorPositive, PTL DEF Spec, GrowthAccepted
=============================================================================
