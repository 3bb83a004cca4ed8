------------------------- MODULE RateLimiterProofs -------------------------
(***************************************************************************)
(* What RateLimiterSafety checks for one rate and one clock, proved for    *)
(* every rate and every misbehaviour of the clock.                         *)
(***************************************************************************)
EXTENDS RateLimiter, TLAPS

(* Rounding up gives at least one token per tick, and gives an integer.    *)
LEMMA RefillType == Refill \in Nat \ {0}
  <1>. DEFINE n == MaxPerSec + TicksPerSec - 1
  <1>1. n \in Nat /\ TicksPerSec \in Nat \ {0} /\ n >= TicksPerSec
    BY RateAssumption
  <1>. HIDE DEF n
  <1>2. n \div TicksPerSec \in Int /\ n \div TicksPerSec >= 1
    BY <1>1, Z3
  <1>. QED BY <1>2 DEF Refill, n

(* On regular ticks the clock is never past TicksPerSec after a refill,    *)
(* and each tick since the reset was counted, one more for the first.      *)
Regular ==
    adjustments = 0 => age <= TicksPerSec /\ age >= -1 /\ refills <= age + 1

IInv == TypeOK /\ Budget /\ Regular

LEMMA InitIInv == Init => IInv
  BY RateAssumption, RefillType DEF Init, IInv, TypeOK, Budget, Regular, Permits

LEMMA WakeIInv ==
  ASSUME IInv, NEW now \in Int, Wake(now),
         \/ now = age + 1 /\ adjustments' = adjustments
         \/ adjustments' = adjustments + 1
  PROVE  IInv'
  <1>1. CASE now >= TicksPerSec /\ DoReset
    BY <1>1, RateAssumption, RefillType
    DEF IInv, TypeOK, Budget, Regular, Wake, DoReset, Permits
  <1>2. CASE now <= TicksPerSec /\ DoRefill(now)
    <2>. USE <1>2, RateAssumption, RefillType DEF IInv, Wake, DoRefill
    <2>1. TypeOK'
      BY DEF TypeOK
    <2>2. Budget'
      <3>1. (refills + 1) * Refill = refills * Refill + Refill
        BY DEF TypeOK
      <3>2. refills * Refill \in Int
        BY DEF TypeOK
      <3>. QED BY <3>1, <3>2 DEF TypeOK, Budget
    <2>3. Regular'
      BY DEF TypeOK, Regular
    <2>. QED BY <2>1, <2>2, <2>3
  <1>. QED BY <1>1, <1>2 DEF Wake

LEMMA NextIInv == IInv /\ [Next]_vars => IInv'
  <1>. SUFFICES ASSUME IInv, [Next]_vars PROVE IInv'
    OBVIOUS
  <1>1. CASE Recv
    BY <1>1 DEF IInv, TypeOK, Budget, Regular, Recv
  <1>2. CASE TryAcquire
    <2>1. refills * Refill \in Int
      BY RefillType DEF IInv, TypeOK
    <2>2. refills' * Refill = refills * Refill
      BY <1>2 DEF TryAcquire
    <2>3. TypeOK' /\ Regular'
      BY <1>2, RateAssumption DEF IInv, TypeOK, Regular, TryAcquire
    <2>4. Budget'
      <3>1. tokens' + spent' = tokens + spent
        BY <1>2 DEF IInv, TypeOK, TryAcquire
      <3>. QED BY <2>1, <2>2, <3>1 DEF IInv, Budget
    <2>. QED BY <2>3, <2>4 DEF IInv
  <1>3. CASE Register
    BY <1>3 DEF IInv, TypeOK, Budget, Regular, Register
  <1>4. CASE AcquirePermit
    BY <1>4, RateAssumption DEF IInv, TypeOK, Budget, Regular, AcquirePermit, Permits
  <1>5. CASE Complete
    BY <1>5, RateAssumption DEF IInv, TypeOK, Budget, Regular, Complete, Permits
  <1>6. CASE Tick
    <2>1. CASE Wake(age + 1) /\ UNCHANGED adjustments
      <3>1. age + 1 \in Int
        BY DEF IInv, TypeOK
      <3>. QED BY <2>1, <3>1, WakeIInv
    <2>2. CASE \E d \in ClockSteps : adjustments' = adjustments + 1 /\ Wake(age + 1 + d)
      <3>1. PICK d \in ClockSteps : adjustments' = adjustments + 1 /\ Wake(age + 1 + d)
        BY <2>2
      <3>2. age + 1 + d \in Int
        BY ClockAssumption DEF IInv, TypeOK
      <3>. QED BY <3>1, <3>2, WakeIInv
    <2>. QED BY <1>6, <2>1, <2>2 DEF Tick
  <1>7. CASE NotifyWaiters
    BY <1>7 DEF IInv, TypeOK, Budget, Regular, NotifyWaiters
  <1>8. CASE UNCHANGED vars
    BY <1>8 DEF IInv, TypeOK, Budget, Regular, vars
  <1>. QED BY <1>1, <1>2, <1>3, <1>4, <1>5, <1>6, <1>7, <1>8 DEF Next, SenderStep

LEMMA Inductive == Spec => []IInv
  BY InitIInv, NextIInv, PTL DEF Spec

(* The bucket never holds more than MaxPerSec tokens and never less than   *)
(* none, and no more than twice MaxPerSec sends are in flight.             *)
THEOREM Typing == Spec => []TypeOK
  BY Inductive, PTL DEF IInv

(* No interleaving of takers, refills, resets and clock steps mints tokens. *)
THEOREM NoMinting == Spec => []Budget
  BY Inductive, PTL DEF IInv

(* The real limit on regular ticks: a full bucket and a second's refills.  *)
THEOREM RateIsBounded == Spec => []RateBound
  <1>1. IInv => RateBound
    <2>. SUFFICES ASSUME IInv, adjustments = 0
                  PROVE  spent <= MaxPerSec + (TicksPerSec + 1) * Refill
      BY DEF RateBound
    <2>1. refills \in Nat /\ refills <= TicksPerSec + 1 /\ spent \in Nat /\ tokens \in Nat
      BY RateAssumption DEF IInv, TypeOK, Regular
    <2>2. refills * Refill <= (TicksPerSec + 1) * Refill
      BY <2>1, RefillType, RateAssumption
    <2>3. refills * Refill \in Int /\ (TicksPerSec + 1) * Refill \in Int
      BY <2>1, RefillType, RateAssumption
    <2>. QED BY <2>1, <2>2, <2>3, RateAssumption DEF IInv, Budget
  <1>. QED BY <1>1, Inductive, PTL
=============================================================================
