-------------------------- MODULE PacedSendsProofs --------------------------
(***************************************************************************)
(* Proofs about PacedSends, for any emails, retries, rate and clock: with  *)
(* its users the bucket still is what RateLimiter says, the permits taken  *)
(* are those of the emails being sent, and retries add no more to the rate *)
(* than CallsPaced allows.                                                 *)
(*                                                                         *)
(* The calls still to come are a sum over the emails being sent.  It is    *)
(* written as the size of a set of pairs, so that each step adds pairs to  *)
(* it or takes some away.                                                  *)
(***************************************************************************)
EXTENDS PacedSends, FiniteSetTheorems, TLAPS

BucketProofs == INSTANCE RateLimiterProofs

-----------------------------------------------------------------------------
(* The composition is a use of the bucket: no step of the emails does to   *)
(* the bucket what RateLimiter does not allow.                             *)
THEOREM UsesBucket == Spec => Bucket!Spec
<1>1. Init => Bucket!Init
  BY DEF Init
<1>2. [Next]_vars => [Bucket!Next]_Bucket!vars
  <2>1. Recv \/ Acquire \/ Refiller => Bucket!Next
    BY DEF Recv, Acquire, Refiller, Bucket!Next, Bucket!SenderStep
  <2>2. ASSUME NEW e \in Emails, Spawn(e) \/ Finish(e) PROVE Bucket!Next
    BY <2>2 DEF Spawn, Finish, Bucket!Next, Bucket!SenderStep
  <2>3. ASSUME NEW e \in Emails, Retry(e) \/ CallAgain(e) PROVE UNCHANGED Bucket!vars
    BY <2>3 DEF Retry, CallAgain, bucketVars, Bucket!vars
  <2>4. UNCHANGED vars => UNCHANGED Bucket!vars
    BY DEF vars, bucketVars, Bucket!vars
  <2>. QED BY <2>1, <2>2, <2>3, <2>4 DEF Next, SenderStep, TaskStep
<1>. QED BY <1>1, <1>2, PTL DEF Spec, Bucket!Spec

(* So what is proved of the bucket holds here.                             *)
LEMMA BucketKept == Spec => []BucketProofs!IInv /\ []BucketProofs!RateBound
<1>1. Bucket!Init <=> BucketProofs!Init
  BY DEF Bucket!Init, BucketProofs!Init
<1>2. Bucket!Wake(age + 1) <=> BucketProofs!Wake(age + 1)
  BY DEF Bucket!Wake, BucketProofs!Wake, Bucket!DoReset, BucketProofs!DoReset,
         Bucket!DoRefill, BucketProofs!DoRefill, Bucket!Refill, BucketProofs!Refill
<1>3. \A d \in ClockSteps : Bucket!Wake(age + 1 + d) <=> BucketProofs!Wake(age + 1 + d)
  BY DEF Bucket!Wake, BucketProofs!Wake, Bucket!DoReset, BucketProofs!DoReset,
         Bucket!DoRefill, BucketProofs!DoRefill, Bucket!Refill, BucketProofs!Refill
<1>4. [Bucket!Next]_Bucket!vars <=> [BucketProofs!Next]_BucketProofs!vars
  BY <1>2, <1>3
     DEF Bucket!Next, Bucket!vars, Bucket!Recv, Bucket!SenderStep, Bucket!TryAcquire,
         Bucket!Register, Bucket!AcquirePermit, Bucket!Permits, Bucket!Complete,
         Bucket!Tick, Bucket!NotifyWaiters,
         BucketProofs!Next, BucketProofs!vars, BucketProofs!Recv, BucketProofs!SenderStep,
         BucketProofs!TryAcquire, BucketProofs!Register, BucketProofs!AcquirePermit,
         BucketProofs!Permits, BucketProofs!Complete, BucketProofs!Tick,
         BucketProofs!NotifyWaiters
<1>5. Bucket!Spec <=> BucketProofs!Spec
  BY <1>1, <1>4, PTL DEF Bucket!Spec, BucketProofs!Spec
<1>6. BucketProofs!Spec => []BucketProofs!IInv /\ []BucketProofs!RateBound
  <2>1. BucketProofs!Spec => []BucketProofs!IInv
    BY PaceAssumption, BucketProofs!Inductive
  <2>2. BucketProofs!Spec => []BucketProofs!RateBound
    BY PaceAssumption, BucketProofs!RateIsBounded
  <2>. QED BY <2>1, <2>2
<1>. QED BY <1>5, <1>6, UsesBucket, PTL

-----------------------------------------------------------------------------
(* The strengthening.  The calls still to come: an email being sent may be *)
(* called again for each retry it has left, and once more after a back-off.*)
ToCome ==
    {p \in Sending \X (1 .. MaxRetries) :
        p[2] > attempts[p[1]] \/ (p[2] = attempts[p[1]] /\ pc[p[1]] = "backoff")}

\* A token that was taken and not used yet is worth a call and its retries.
InHand == IF sender = "permit" THEN MaxRetries + 1 ELSE 0

TaskTypes ==
    /\ pc \in [Emails -> {"idle", "call", "backoff", "done"}]
    /\ attempts \in [Emails -> 0 .. MaxRetries]
    /\ calls \in Nat
    /\ \A e \in Emails : /\ pc[e] = "idle" => attempts[e] = 0
                         /\ pc[e] = "backoff" => attempts[e] > 0

IInv ==
    /\ TaskTypes
    /\ IsFiniteSet(Sending) /\ PermitsHeld
    /\ calls + Cardinality(ToCome) + InHand
          <= (MaxRetries + 1) * (spent + 1) + MaxRetries * Bucket!Permits

\* What the bucket contributes.
BucketFacts ==
    /\ spent \in Nat /\ refills \in Nat
    /\ inflight \in 0 .. Bucket!Permits /\ Bucket!Permits \in Nat

LEMMA BucketKnown == BucketProofs!IInv => BucketFacts
  BY PaceAssumption DEF BucketProofs!IInv, BucketProofs!TypeOK, BucketProofs!Permits,
     Bucket!Permits, BucketFacts

LEMMA ToComeFinite ==
    ASSUME IsFiniteSet(Sending)
    PROVE  /\ IsFiniteSet(ToCome) /\ Cardinality(ToCome) \in Nat
           /\ Cardinality(ToCome) <= Cardinality(Sending) * MaxRetries
<1>1. IsFiniteSet(1 .. MaxRetries) /\ Cardinality(1 .. MaxRetries) = MaxRetries
  BY PaceAssumption, FS_Interval
<1>2. /\ IsFiniteSet(Sending \X (1 .. MaxRetries))
      /\ Cardinality(Sending \X (1 .. MaxRetries)) = Cardinality(Sending) * MaxRetries
  BY <1>1, FS_Product
<1>3. ToCome \in SUBSET (Sending \X (1 .. MaxRetries))
  BY DEF ToCome
<1>. QED BY <1>2, <1>3, FS_Subset, FS_CardinalityType

LEMMA InitIInv == Init => IInv
<1>. SUFFICES ASSUME Init PROVE IInv
  OBVIOUS
<1>1. Sending = {} /\ ToCome = {}
  BY DEF Init, Sending, ToCome
<1>2. InHand = 0 /\ spent = 0 /\ inflight = 0 /\ calls = 0
  BY DEF Init, InHand, Bucket!Init
<1>3. TaskTypes
  BY PaceAssumption DEF Init, TaskTypes
<1>4. IsFiniteSet(Sending) /\ Cardinality(Sending) = 0 /\ Cardinality(ToCome) = 0
  BY <1>1, FS_EmptySet
<1>5. 0 <= (MaxRetries + 1) * (0 + 1) + MaxRetries * Bucket!Permits
  <2>1. Bucket!Permits \in Nat /\ MaxRetries \in Nat
    BY PaceAssumption DEF Bucket!Permits
  <2>2. MaxRetries * Bucket!Permits \in Nat
    BY <2>1
  <2>. QED BY <2>1, <2>2
<1>. QED BY <1>2, <1>3, <1>4, <1>5 DEF IInv, PermitsHeld

-----------------------------------------------------------------------------
(* Steps that leave the emails alone: what is to come stays, and what the  *)
(* sender has in hand and has spent moves with its token.                  *)
LEMMA TasksUntouched ==
    ASSUME UNCHANGED taskVars
    PROVE  Sending' = Sending /\ ToCome' = ToCome
BY DEF taskVars, Sending, ToCome

LEMMA SenderInv ==
    ASSUME IInv, BucketFacts, BucketFacts', Recv \/ Acquire
    PROVE  IInv'
<1>1. UNCHANGED <<pc, attempts, calls, inflight>>
  BY DEF Recv, Acquire, taskVars, Bucket!Recv, Bucket!TryAcquire, Bucket!Register
<1>2. Sending' = Sending /\ ToCome' = ToCome
  BY <1>1, TasksUntouched DEF taskVars
<1>3. TaskTypes' /\ PermitsHeld'
  BY <1>1, <1>2 DEF IInv, TaskTypes, PermitsHeld
<1>4. MaxRetries \in Nat /\ Bucket!Permits \in Nat
  BY PaceAssumption DEF BucketFacts
<1>5. \/ spent' = spent /\ InHand' = InHand
      \/ spent' = spent + 1 /\ InHand' = InHand + MaxRetries + 1
  BY <1>4 DEF Recv, Acquire, Bucket!Recv, Bucket!TryAcquire, Bucket!Register, InHand
<1>6. (MaxRetries + 1) * (spent + 2) = (MaxRetries + 1) * (spent + 1) + MaxRetries + 1
  BY <1>4 DEF BucketFacts
<1>7. /\ (MaxRetries + 1) * (spent + 1) \in Nat /\ MaxRetries * Bucket!Permits \in Nat
      /\ Cardinality(ToCome) \in Nat /\ calls \in Nat /\ InHand \in Nat
  BY <1>4, ToComeFinite DEF BucketFacts, IInv, TaskTypes, InHand
<1>8. calls' + Cardinality(ToCome)' + InHand'
         <= (MaxRetries + 1) * (spent' + 1) + MaxRetries * Bucket!Permits
  <2>1. CASE spent' = spent /\ InHand' = InHand
    BY <1>1, <1>2, <2>1 DEF IInv
  <2>2. CASE spent' = spent + 1 /\ InHand' = InHand + MaxRetries + 1
    <3>1. spent' + 1 = spent + 2
      BY <2>2 DEF BucketFacts
    <3>2. Cardinality(ToCome)' = Cardinality(ToCome) /\ calls' = calls
      BY <1>1, <1>2
    <3>3. (MaxRetries + 1) * (spent' + 1) = (MaxRetries + 1) * (spent + 1) + MaxRetries + 1
      BY <1>6, <3>1
    <3>. QED BY <1>4, <1>7, <2>2, <3>2, <3>3 DEF IInv
  <2>. QED BY <1>5, <2>1, <2>2
<1>. QED BY <1>2, <1>3, <1>8 DEF IInv, Bucket!Permits

LEMMA RefillerInv ==
    ASSUME IInv, BucketFacts, BucketFacts', Refiller
    PROVE  IInv'
<1>1. /\ UNCHANGED <<pc, attempts, inflight>>
      /\ sender' = "permit" <=> sender = "permit"
  BY DEF Refiller, taskVars, Bucket!Tick, Bucket!Wake, Bucket!NotifyWaiters
<1>2. Sending' = Sending /\ ToCome' = ToCome /\ InHand' = InHand
  BY <1>1, TasksUntouched DEF taskVars, InHand
<1>3. MaxRetries \in Nat /\ Bucket!Permits \in Nat
  BY PaceAssumption DEF BucketFacts
<1>4. \/ spent' = spent /\ calls' = calls
      \/ spent' = 0 /\ calls' = 0
  BY DEF Refiller, Bucket!Tick, Bucket!Wake, Bucket!DoReset, Bucket!DoRefill,
         Bucket!NotifyWaiters, BucketFacts
<1>5. TaskTypes' /\ PermitsHeld'
  BY <1>1, <1>2, <1>4 DEF IInv, TaskTypes, PermitsHeld
<1>6. calls' + Cardinality(ToCome)' + InHand'
         <= (MaxRetries + 1) * (spent' + 1) + MaxRetries * Bucket!Permits
  <2>1. CASE spent' = spent /\ calls' = calls
    BY <1>2, <2>1 DEF IInv
  <2>2. CASE spent' = 0 /\ calls' = 0
    <3>1. Cardinality(ToCome) <= MaxRetries * Bucket!Permits
      <4>1. /\ Cardinality(ToCome) \in Nat
            /\ Cardinality(ToCome) <= Cardinality(Sending) * MaxRetries
        BY ToComeFinite DEF IInv
      <4>2. Cardinality(Sending) \in 0 .. Bucket!Permits
        BY DEF IInv, PermitsHeld, BucketFacts
      <4>3. Cardinality(Sending) * MaxRetries <= Bucket!Permits * MaxRetries
        BY <1>3, <4>2
      <4>4. /\ Cardinality(Sending) * MaxRetries \in Nat
            /\ Bucket!Permits * MaxRetries = MaxRetries * Bucket!Permits
            /\ MaxRetries * Bucket!Permits \in Nat
        BY <1>3, <4>2
      <4>. QED BY <4>1, <4>3, <4>4
    <3>2. InHand <= MaxRetries + 1 /\ InHand \in Nat
      BY <1>3 DEF InHand
    <3>3. (MaxRetries + 1) * (spent' + 1) = MaxRetries + 1
      BY <1>3, <2>2
    <3>4. Cardinality(ToCome) \in Nat /\ MaxRetries * Bucket!Permits \in Nat
      BY <1>3, ToComeFinite DEF IInv
    <3>. QED BY <1>2, <1>3, <2>2, <3>1, <3>2, <3>3, <3>4
  <2>. QED BY <1>4, <2>1, <2>2
<1>. QED BY <1>2, <1>5, <1>6 DEF IInv, Bucket!Permits

-----------------------------------------------------------------------------
(* Steps of one email.                                                     *)

\* A new email brings its call and MaxRetries to come, which its token pays.
LEMMA SpawnInv ==
    ASSUME IInv, BucketFacts, BucketFacts', NEW e \in Emails, Spawn(e)
    PROVE  IInv'
<1>1. /\ pc[e] = "idle" /\ pc' = [pc EXCEPT ![e] = "call"] /\ calls' = calls + 1
      /\ attempts' = attempts /\ attempts[e] = 0 /\ inflight' = inflight + 1
      /\ sender = "permit" /\ sender' = "recv" /\ spent' = spent
  BY DEF Spawn, Bucket!AcquirePermit, IInv, TaskTypes
<1>2. Sending' = Sending \cup {e} /\ e \notin Sending
  BY <1>1 DEF IInv, TaskTypes, Sending
<1>3. IsFiniteSet(Sending') /\ PermitsHeld'
  BY <1>1, <1>2, FS_AddElement DEF IInv, PermitsHeld
<1>4. TaskTypes'
  BY <1>1 DEF IInv, TaskTypes
<1>5. MaxRetries \in Nat /\ Bucket!Permits \in Nat
  BY PaceAssumption DEF BucketFacts
<1>6. ToCome' \in SUBSET (ToCome \cup ({e} \X (1 .. MaxRetries)))
  BY <1>1, <1>2 DEF ToCome, IInv, TaskTypes
<1>7. /\ Cardinality(ToCome') \in Nat
      /\ Cardinality(ToCome') <= Cardinality(ToCome) + MaxRetries
  <2>1. IsFiniteSet({e}) /\ Cardinality({e}) = 1
    BY FS_AddElement, FS_EmptySet, {} \cup {e} = {e}
  <2>2. IsFiniteSet(1 .. MaxRetries) /\ Cardinality(1 .. MaxRetries) = MaxRetries
    BY <1>5, FS_Interval
  <2>3. /\ IsFiniteSet({e} \X (1 .. MaxRetries))
        /\ Cardinality({e} \X (1 .. MaxRetries)) = MaxRetries
    BY <1>5, <2>1, <2>2, FS_Product
  <2>4. /\ IsFiniteSet(ToCome \cup ({e} \X (1 .. MaxRetries)))
        /\ Cardinality(ToCome \cup ({e} \X (1 .. MaxRetries)))
              = Cardinality(ToCome) + MaxRetries - Cardinality(ToCome \cap ({e} \X (1 .. MaxRetries)))
    BY <2>3, ToComeFinite, FS_Union DEF IInv
  <2>5. Cardinality(ToCome \cap ({e} \X (1 .. MaxRetries))) \in Nat
    <3>1. IsFiniteSet(ToCome)
      BY ToComeFinite DEF IInv
    <3>2. IsFiniteSet(ToCome \cap ({e} \X (1 .. MaxRetries)))
      BY <3>1, FS_Subset
    <3>. QED BY <3>2, FS_CardinalityType
  <2>6. /\ Cardinality(ToCome') \in Nat
        /\ Cardinality(ToCome') <= Cardinality(ToCome \cup ({e} \X (1 .. MaxRetries)))
    BY <1>6, <2>4, FS_Subset, FS_CardinalityType
  <2>7. Cardinality(ToCome) \in Nat
    BY ToComeFinite DEF IInv
  <2>. QED BY <1>5, <2>4, <2>5, <2>6, <2>7
<1>8. /\ (MaxRetries + 1) * (spent + 1) \in Nat /\ MaxRetries * Bucket!Permits \in Nat
      /\ Cardinality(ToCome) \in Nat /\ calls \in Nat
  BY <1>5, ToComeFinite DEF BucketFacts, IInv, TaskTypes
<1>9. InHand = MaxRetries + 1 /\ InHand' = 0
  BY <1>1 DEF InHand
<1>10. calls' + Cardinality(ToCome') + InHand'
          <= (MaxRetries + 1) * (spent' + 1) + MaxRetries * Bucket!Permits
  BY <1>1, <1>5, <1>7, <1>8, <1>9 DEF IInv
<1>. QED BY <1>3, <1>4, <1>10 DEF IInv, Bucket!Permits

\* A retry announced is a retry less to come after it: nothing changes.
LEMMA RetryInv ==
    ASSUME IInv, BucketFacts, NEW e \in Emails, Retry(e)
    PROVE  IInv'
<1>1. /\ pc[e] = "call" /\ pc' = [pc EXCEPT ![e] = "backoff"]
      /\ attempts[e] < MaxRetries /\ attempts' = [attempts EXCEPT ![e] = @ + 1]
      /\ UNCHANGED <<bucketVars, calls>>
  BY DEF Retry
<1>2. MaxRetries \in Nat
  BY PaceAssumption
<1>3. TaskTypes'
  BY <1>1, <1>2 DEF IInv, TaskTypes
<1>4. Sending' = Sending
  BY <1>1 DEF IInv, TaskTypes, Sending
<1>5. ToCome' = ToCome
  <2>1. ASSUME NEW f \in Emails, NEW i \in 1 .. MaxRetries
        PROVE  <<f, i>> \in ToCome' <=> <<f, i>> \in ToCome
    <3>1. CASE f = e
      BY <1>1, <1>2, <1>4, <3>1 DEF ToCome, IInv, TaskTypes
    <3>2. CASE f # e
      BY <1>1, <1>4, <3>2 DEF ToCome, IInv, TaskTypes
    <3>. QED BY <3>1, <3>2
  <2>. QED BY <2>1 DEF ToCome, Sending
<1>. QED BY <1>1, <1>3, <1>4, <1>5 DEF IInv, PermitsHeld, InHand, bucketVars, Bucket!Permits

\* The repeated call is no longer to come.
LEMMA CallAgainInv ==
    ASSUME IInv, BucketFacts, NEW e \in Emails, CallAgain(e)
    PROVE  IInv'
<1>1. /\ pc[e] = "backoff" /\ pc' = [pc EXCEPT ![e] = "call"] /\ calls' = calls + 1
      /\ UNCHANGED <<bucketVars, attempts>>
  BY DEF CallAgain
<1>2. MaxRetries \in Nat /\ attempts[e] \in 1 .. MaxRetries
  BY <1>1, PaceAssumption DEF IInv, TaskTypes
<1>3. TaskTypes'
  BY <1>1 DEF IInv, TaskTypes
<1>4. Sending' = Sending /\ e \in Sending
  BY <1>1 DEF IInv, TaskTypes, Sending
<1>5. ToCome' \in SUBSET (ToCome \ {<<e, attempts[e]>>})
  <2>1. ASSUME NEW f \in Emails, NEW i \in 1 .. MaxRetries, <<f, i>> \in ToCome'
        PROVE  <<f, i>> \in ToCome /\ <<f, i>> # <<e, attempts[e]>>
    <3>1. CASE f = e
      BY <1>1, <1>2, <1>4, <2>1, <3>1 DEF ToCome, IInv, TaskTypes
    <3>2. CASE f # e
      BY <1>1, <1>4, <2>1, <3>2 DEF ToCome, IInv, TaskTypes
    <3>. QED BY <3>1, <3>2
  <2>. QED BY <2>1 DEF ToCome, Sending
<1>6. <<e, attempts[e]>> \in ToCome
  BY <1>1, <1>2, <1>4 DEF ToCome
<1>7. /\ Cardinality(ToCome) \in Nat /\ Cardinality(ToCome') \in Nat
      /\ Cardinality(ToCome') <= Cardinality(ToCome) - 1
  <2>1. IsFiniteSet(ToCome) /\ Cardinality(ToCome) \in Nat
    BY ToComeFinite DEF IInv
  <2>2. /\ IsFiniteSet(ToCome \ {<<e, attempts[e]>>})
        /\ Cardinality(ToCome \ {<<e, attempts[e]>>}) = Cardinality(ToCome) - 1
    BY <1>6, <2>1, FS_RemoveElement
  <2>. QED BY <1>5, <2>1, <2>2, FS_Subset, FS_CardinalityType
<1>8. calls \in Nat
  BY DEF IInv, TaskTypes
<1>9. UNCHANGED <<InHand, spent, inflight>>
  BY <1>1 DEF bucketVars, InHand
<1>10. /\ (MaxRetries + 1) * (spent + 1) \in Nat /\ MaxRetries * Bucket!Permits \in Nat
       /\ InHand \in Nat
  BY <1>2 DEF BucketFacts, InHand
<1>11. calls' + Cardinality(ToCome') + InHand'
          <= (MaxRetries + 1) * (spent' + 1) + MaxRetries * Bucket!Permits
  BY <1>1, <1>7, <1>8, <1>9, <1>10 DEF IInv
<1>. QED BY <1>3, <1>4, <1>9, <1>11 DEF IInv, PermitsHeld, Bucket!Permits

\* An email that is finished takes what it had to come with it.
LEMMA FinishInv ==
    ASSUME IInv, BucketFacts, NEW e \in Emails, Finish(e)
    PROVE  IInv'
<1>1. /\ pc[e] = "call" /\ pc' = [pc EXCEPT ![e] = "done"]
      /\ inflight' = inflight - 1
      /\ UNCHANGED <<attempts, calls, sender, spent>>
  BY DEF Finish, Bucket!Complete
<1>2. TaskTypes'
  BY <1>1 DEF IInv, TaskTypes
<1>3. Sending' = Sending \ {e} /\ e \in Sending
  BY <1>1 DEF IInv, TaskTypes, Sending
<1>4. IsFiniteSet(Sending') /\ PermitsHeld'
  BY <1>1, <1>3, FS_RemoveElement DEF IInv, PermitsHeld
<1>5. ToCome' \in SUBSET ToCome
  BY <1>1, <1>3 DEF ToCome, IInv, TaskTypes
<1>6. /\ Cardinality(ToCome) \in Nat /\ Cardinality(ToCome') \in Nat
      /\ Cardinality(ToCome') <= Cardinality(ToCome)
  BY <1>5, ToComeFinite, FS_Subset, FS_CardinalityType DEF IInv
<1>7. MaxRetries \in Nat /\ calls \in Nat /\ InHand' = InHand
  BY <1>1, PaceAssumption DEF IInv, TaskTypes, InHand
<1>8. /\ (MaxRetries + 1) * (spent + 1) \in Nat /\ MaxRetries * Bucket!Permits \in Nat
      /\ InHand \in Nat
  BY <1>7 DEF BucketFacts, InHand
<1>9. calls' + Cardinality(ToCome') + InHand'
         <= (MaxRetries + 1) * (spent' + 1) + MaxRetries * Bucket!Permits
  BY <1>1, <1>6, <1>7, <1>8 DEF IInv
<1>. QED BY <1>2, <1>4, <1>9 DEF IInv, Bucket!Permits

LEMMA NextIInv == IInv /\ BucketFacts /\ BucketFacts' /\ [Next]_vars => IInv'
<1>. SUFFICES ASSUME IInv, BucketFacts, BucketFacts', [Next]_vars PROVE IInv'
  OBVIOUS
<1>1. CASE Recv \/ Acquire
  BY <1>1, SenderInv
<1>2. CASE Refiller
  BY <1>2, RefillerInv
<1>3. ASSUME NEW e \in Emails, Spawn(e) PROVE IInv'
  BY <1>3, SpawnInv
<1>4. ASSUME NEW e \in Emails, TaskStep(e) PROVE IInv'
  BY <1>4, RetryInv, CallAgainInv, FinishInv DEF TaskStep
<1>5. CASE UNCHANGED vars
  BY <1>5 DEF vars, bucketVars, taskVars, IInv, TaskTypes, PermitsHeld, Sending, ToCome,
     InHand, Bucket!Permits
<1>. QED BY <1>1, <1>2, <1>3, <1>4, <1>5 DEF Next, SenderStep

LEMMA Inductive == Spec => [](IInv /\ BucketFacts)
<1>1. Spec => []BucketFacts
  BY BucketKept, BucketKnown, PTL
<1>2. Spec => []IInv
  BY <1>1, InitIInv, NextIInv, PTL DEF Spec
<1>. QED BY <1>1, <1>2, PTL

-----------------------------------------------------------------------------
(* The permits taken are always those of the emails being sent: no retry   *)
(* takes a second one, and no way out of send_email keeps one.             *)
THEOREM PermitsAlwaysHeld == Spec => []PermitsHeld
<1>1. IInv => PermitsHeld
  BY DEF IInv
<1>. QED BY <1>1, Inductive, PTL

(* However emails fail, the bucket is reset and the clock is set, retries  *)
(* add no more calls of SES to the tokens taken than CallsPaced says.      *)
THEOREM CallsAlwaysPaced == Spec => []CallsPaced
<1>1. IInv /\ BucketFacts => CallsPaced
  <2>. SUFFICES ASSUME IInv, BucketFacts PROVE CallsPaced
    OBVIOUS
  <2>1. MaxRetries \in Nat /\ calls \in Nat
    BY PaceAssumption DEF IInv, TaskTypes
  <2>2. Cardinality(ToCome) \in Nat /\ InHand \in Nat
    BY <2>1, ToComeFinite DEF IInv, InHand
  <2>3. (MaxRetries + 1) * (spent + 1) \in Nat /\ MaxRetries * Bucket!Permits \in Nat
    BY <2>1 DEF BucketFacts
  <2>. QED BY <2>1, <2>2, <2>3 DEF IInv, CallsPaced
<1>. QED BY <1>1, Inductive, PTL

(* With regular ticks that bounds how often SES is called from one reset   *)
(* of the bucket to the next, by the rate, the retries and the permits.    *)
THEOREM CallsPerReset ==
    Spec => [](adjustments = 0 =>
                  calls <= (MaxRetries + 1) * (MaxPerSec + (TicksPerSec + 1) * Bucket!Refill + 1)
                              + MaxRetries * Bucket!Permits)
<1>1. ASSUME BucketProofs!IInv, BucketProofs!RateBound, CallsPaced, calls \in Nat,
             adjustments = 0
      PROVE  calls <= (MaxRetries + 1) * (MaxPerSec + (TicksPerSec + 1) * Bucket!Refill + 1)
                         + MaxRetries * Bucket!Permits
  <2>. DEFINE most == MaxPerSec + (TicksPerSec + 1) * Bucket!Refill
  <2>1. MaxRetries \in Nat /\ spent \in Nat /\ Bucket!Permits \in Nat
    BY <1>1, BucketKnown, PaceAssumption DEF BucketFacts
  <2>2. most \in Nat /\ spent <= most
    <3>1. Bucket!Refill = BucketProofs!Refill
      BY DEF Bucket!Refill, BucketProofs!Refill
    <3>2. BucketProofs!Refill \in Nat
      BY PaceAssumption, BucketProofs!RefillType
    <3>. QED BY <1>1, <3>1, <3>2, PaceAssumption DEF BucketProofs!RateBound
  <2>. HIDE DEF most
  <2>3. (MaxRetries + 1) * (spent + 1) <= (MaxRetries + 1) * (most + 1)
    BY <2>1, <2>2
  <2>4. /\ (MaxRetries + 1) * (spent + 1) \in Nat /\ (MaxRetries + 1) * (most + 1) \in Nat
        /\ MaxRetries * Bucket!Permits \in Nat
    BY <2>1, <2>2
  <2>5. calls <= (MaxRetries + 1) * (most + 1) + MaxRetries * Bucket!Permits
    BY <1>1, <2>3, <2>4 DEF CallsPaced
  <2>. QED BY <2>5 DEF most
<1>2. IInv => calls \in Nat
  BY DEF IInv, TaskTypes
<1>. QED BY <1>1, <1>2, Inductive, BucketKept, CallsAlwaysPaced, PTL
=============================================================================
