-------------------------- MODULE TimetableProofs --------------------------
(***************************************************************************)
(* Proofs about Timetable, for any delays, offset, times and limit of a    *)
(* claim: an email does not leave before its time, a due row is claimed in *)
(* bounded time, and only rows scheduled no later are claimed before it.   *)
(***************************************************************************)
EXTENDS Timetable, FiniteSetTheorems, TLAPS

\* What is certain to be left of the scheduler's rest.
Rest == IF claimed = {} THEN sleep ELSE BatchDelay

(* The strengthening: the rest that is left counts against the delay.      *)
IInv ==
    /\ TypeOK
    /\ sleep <= 2 * IdleDelay
    /\ claimed # {} => sleep = 0
    /\ \A r \in Requests :
          /\ createdAt[r] <= now
          /\ status[r] = "Absent" => passed[r] = 0
          /\ status[r] = "Created" =>
                now + Rest - DueSince(r) <= 2 * IdleDelay + held[r] + passed[r] * BatchDelay
          /\ status[r] # "Absent" =>
                \A s \in wanted[r] : scheduledAt[r] = s - KstOffset
          /\ status[r] \in {"Processed", "Sent"} => scheduledAt[r] <= now
          /\ status[r] = "Sent" => sentAt[r] >= scheduledAt[r]

(* What IInv says of one row.                                              *)
Bound(r) == 2 * IdleDelay + held[r] + passed[r] * BatchDelay

OnTime(r) ==
    /\ createdAt[r] <= now
    /\ status[r] = "Absent" => passed[r] = 0
    /\ status[r] = "Created" => now + Rest - DueSince(r) <= Bound(r)
    /\ status[r] # "Absent" =>
          \A s \in wanted[r] : scheduledAt[r] = s - KstOffset
    /\ status[r] \in {"Processed", "Sent"} => scheduledAt[r] <= now
    /\ status[r] = "Sent" => sentAt[r] >= scheduledAt[r]

(* What IInv says of the scheduler.                                        *)
Resting == sleep <= 2 * IdleDelay /\ (claimed # {} => sleep = 0)

LEMMA Split == IInv <=> TypeOK /\ Resting /\ \A r \in Requests : OnTime(r)
BY DEF IInv, Resting, OnTime, Bound

LEMMA Delays ==
    /\ IdleDelay \in Nat /\ BatchDelay \in Nat /\ ErrorDelay \in Nat /\ ClaimLimit \in Nat
    /\ BatchDelay <= IdleDelay /\ ErrorDelay <= 2 * IdleDelay
    /\ MaxFaults \in Nat /\ EmptyPolls \in Nat
    /\ KstOffset \in Nat /\ KstTimes \subseteq Int /\ Start \in Int
BY DelayAssumption, TimeAssumption

(* The only arithmetic beyond sums: a product with one more.               *)
LEMMA OneMore ==
    ASSUME NEW n \in Nat, NEW d \in Nat
    PROVE  n * d \in Nat /\ (n + 1) * d = n * d + d
OBVIOUS

(* The numbers of one row, and that they are numbers.                      *)
LEMMA RowTypes ==
    ASSUME TypeOK, NEW x \in Requests
    PROVE  /\ now \in Int /\ sleep \in Nat /\ scheduledAt[x] \in Int /\ createdAt[x] \in Int
           /\ sentAt[x] \in Int /\ DueSince(x) \in Int /\ held[x] \in Nat /\ passed[x] \in Nat
           /\ passed[x] * BatchDelay \in Nat /\ Bound(x) \in Nat /\ Rest \in Nat
<1>1. /\ now \in Int /\ sleep \in Nat /\ scheduledAt[x] \in Int /\ createdAt[x] \in Int
      /\ sentAt[x] \in Int /\ held[x] \in Nat /\ passed[x] \in Nat
  BY DEF TypeOK
<1>2. passed[x] * BatchDelay \in Nat
  BY <1>1, OneMore, Delays
<1>. QED BY <1>1, <1>2, Delays DEF DueSince, Bound, Rest

-----------------------------------------------------------------------------
LEMMA InitIInv == Init => IInv
<1>. SUFFICES ASSUME Init PROVE IInv
  OBVIOUS
<1>1. TypeOK
  BY Delays DEF Init, TypeOK
<1>. QED BY <1>1, Delays DEF Init, IInv

LEMMA CreateTypes ==
    ASSUME TypeOK, NEW r \in Requests, NEW st \in {"Created", "Processed"},
           NEW w \in KstInputs, Create(r, st, w)
    PROVE  TypeOK'
<1>1. w \in SUBSET KstTimes
  BY DEF KstInputs
<1>2. PICK t \in ParseScheduledAt(w) : scheduledAt' = [scheduledAt EXCEPT ![r] = t]
  BY DEF Create
<1>3. t \in Int
  <2>1. CASE w = {}
    BY <2>1 DEF ParseScheduledAt, TypeOK
  <2>2. CASE w # {}
    <3>1. PICK s \in w : t = s - KstOffset
      BY <1>2, <2>2 DEF ParseScheduledAt
    <3>2. s \in Int /\ KstOffset \in Int
      BY <1>1, Delays
    <3>. QED BY <3>1, <3>2
  <2>. QED BY <2>1, <2>2
<1>4. /\ scheduledAt' \in [Requests -> Int] /\ createdAt' \in [Requests -> Int]
      /\ status' \in [Requests -> {"Absent", "Created", "Processed", "Sent"}]
  BY <1>2, <1>3 DEF Create, TypeOK
<1>5. wanted' \in [Requests -> SUBSET KstTimes]
  BY <1>1 DEF Create, TypeOK
<1>. QED BY <1>4, <1>5 DEF Create, TypeOK, pollVars

(* A new row waits no longer than the rest that is left.                   *)
LEMMA CreateOnTime ==
    ASSUME IInv, NEW r \in Requests, NEW st \in {"Created", "Processed"},
           NEW w \in KstInputs, Create(r, st, w), TypeOK', NEW x \in Requests
    PROVE  OnTime(x)'
<1>1. OnTime(x) /\ TypeOK /\ Resting
  BY Split
<1>3. UNCHANGED <<now, sleep, claimed, sentAt, passed, held, Rest, Bound(x)>>
  BY DEF Create, pollVars, Rest, Bound
<1>4. CASE x # r
  <2>1. UNCHANGED <<status[x], scheduledAt[x], createdAt[x], wanted[x], sentAt[x]>>
    BY <1>1, <1>3, <1>4 DEF Create, TypeOK
  <2>. QED BY <1>1, <1>3, <2>1 DEF OnTime, DueSince
<1>5. CASE x = r
  <2>1. status'[x] = st /\ createdAt'[x] = now /\ wanted'[x] = w
    BY <1>1, <1>5 DEF Create, TypeOK
  <2>2. scheduledAt'[x] \in ParseScheduledAt(w)
    BY <1>1, <1>5 DEF Create, TypeOK
  <2>3. w = {} => scheduledAt'[x] = now
    BY <2>2 DEF ParseScheduledAt
  <2>4. \A s \in w : scheduledAt'[x] = s - KstOffset
    BY <2>2 DEF ParseScheduledAt, KstInputs
  <2>5. st = "Processed" => w = {}
    BY DEF Create
  <2>6. DueSince(x)' >= now /\ DueSince(x)' \in Int
    BY <1>1, <2>1 DEF DueSince, TypeOK
  <2>7. Rest \in Nat /\ Rest <= 2 * IdleDelay /\ Bound(x) >= 2 * IdleDelay /\ now \in Int
    BY <1>1, RowTypes, Delays DEF Rest, Resting, Bound
  <2>8. now + Rest - DueSince(x)' <= Bound(x)
    BY <1>1, <2>6, <2>7, RowTypes, Delays
  <2>. QED BY <1>3, <2>1, <2>3, <2>4, <2>5, <2>7, <2>8 DEF OnTime
<1>. QED BY <1>4, <1>5

-----------------------------------------------------------------------------
(* A row that a poll leaves Created is not due, or what it will wait for   *)
(* is counted: a back-off (d = ErrorDelay), or the pause after the claim.  *)
LEMMA LeftOnTime ==
    ASSUME IInv, TypeOK', NEW x \in Requests, Polls,
           UNCHANGED <<now, rowVars>> \/ UNCHANGED <<now, status[x], scheduledAt, createdAt, wanted, sentAt>>,
           Rest' <= 2 * IdleDelay,
           x \in Claimable => Bound(x)' >= Bound(x) + Rest',
           Bound(x)' >= 2 * IdleDelay,
           status[x] = "Absent" => passed'[x] = 0
    PROVE  OnTime(x)'
<1>1. OnTime(x) /\ TypeOK /\ Rest = 0
  BY Split DEF Polls, Rest
<1>2. UNCHANGED <<now, status[x], scheduledAt[x], createdAt[x], wanted[x], sentAt[x], DueSince(x)>>
  BY DEF rowVars, DueSince
<1>3. /\ now \in Int /\ DueSince(x) \in Int /\ Bound(x) \in Nat
      /\ Bound(x)' \in Nat /\ Rest' \in Nat
  <2>1. now \in Int /\ DueSince(x) \in Int /\ Bound(x) \in Nat
    BY <1>1, RowTypes
  <2>2. sleep' \in Nat /\ held'[x] \in Nat /\ passed'[x] \in Nat
    BY DEF TypeOK
  <2>3. passed'[x] * BatchDelay \in Nat
    BY <2>2, OneMore, Delays
  <2>. QED BY <2>1, <2>2, <2>3, Delays DEF Bound, Rest
<1>4. ASSUME status[x] = "Created" PROVE now + Rest' - DueSince(x) <= Bound(x)'
  <2>1. CASE x \in Claimable
    <3>1. now - DueSince(x) <= Bound(x)
      BY <1>1, <1>3, <1>4 DEF OnTime
    <3>. QED BY <1>3, <2>1, <3>1
  <2>2. CASE x \notin Claimable
    <3>1. DueSince(x) >= now
      BY <1>1, <1>4, <2>2, RowTypes DEF Claimable, DueSince
    <3>. QED BY <1>3, <3>1, Delays
  <2>. QED BY <2>1, <2>2
<1>. QED BY <1>1, <1>2, <1>4 DEF OnTime

(* A row that a claim takes was due.                                       *)
LEMMA TakenOnTime ==
    ASSUME IInv, NEW x \in Claimable, status'[x] = "Processed",
           UNCHANGED <<now, scheduledAt, createdAt, wanted, sentAt>>
    PROVE  OnTime(x)'
BY Split DEF OnTime, Claimable

LEMMA PollEmptyOnTime ==
    ASSUME IInv, PollEmpty
    PROVE  TypeOK' /\ Resting' /\ \A x \in Requests : OnTime(x)'
<1>1. TypeOK /\ Resting
  BY Split
<1>2. EmptyDelay(empty') \in Nat /\ EmptyDelay(empty') <= 2 * IdleDelay
  BY Delays DEF EmptyDelay
<1>3. TypeOK'
  BY <1>1, <1>2, Delays DEF PollEmpty, TypeOK, rowVars
<1>4. Resting' /\ Rest' <= 2 * IdleDelay
  BY <1>2 DEF PollEmpty, Polls, Resting, Rest
<1>5. ASSUME NEW x \in Requests PROVE OnTime(x)'
  <2>1. Bound(x)' = Bound(x) /\ Bound(x) >= 2 * IdleDelay
    BY <1>1, RowTypes, Delays DEF PollEmpty, Bound
  <2>2. status[x] = "Absent" => passed'[x] = 0
    BY Split DEF OnTime, PollEmpty
  <2>. QED BY <1>3, <1>4, <2>1, <2>2, LeftOnTime DEF PollEmpty
<1>. QED BY <1>3, <1>4, <1>5

LEMMA ClaimOnTime ==
    ASSUME IInv, Claim
    PROVE  TypeOK' /\ Resting' /\ \A x \in Requests : OnTime(x)'
<1>1. TypeOK /\ Resting
  BY Split
<1>2. PICK S \in Batches \ {{}} :
         /\ MarkProcessed(S)
         /\ claimed' = S
         /\ passed' = [r \in Requests |-> IF r \in Claimable \ S THEN passed[r] + 1 ELSE passed[r]]
  BY DEF Claim
<1>3. S \subseteq Claimable /\ Claimable \subseteq Requests /\ S # {}
  BY <1>2 DEF Batches, Claimable
<1>4. TypeOK'
  BY <1>1, <1>2, <1>3 DEF Claim, TypeOK, MarkProcessed
<1>5. Resting' /\ Rest' = BatchDelay
  BY <1>2, <1>3, Delays DEF Claim, Polls, Resting, Rest
<1>6. ASSUME NEW x \in Requests PROVE OnTime(x)'
  <2>1. CASE x \in S
    BY <1>2, <1>3, <2>1, TakenOnTime DEF Claim, MarkProcessed
  <2>2. CASE x \notin S
    <3>1. status'[x] = status[x]
      BY <1>2, <2>2 DEF MarkProcessed
    <3>2. passed[x] \in Nat /\ held[x] \in Nat /\ held' = held
      BY <1>1, RowTypes DEF Claim
    <3>3. x \in Claimable => passed'[x] = passed[x] + 1
      BY <1>2, <2>2
    <3>4. x \notin Claimable => passed'[x] = passed[x]
      BY <1>2
    <3>5. /\ passed[x] * BatchDelay \in Nat
          /\ (passed[x] + 1) * BatchDelay = passed[x] * BatchDelay + BatchDelay
      BY <3>2, OneMore, Delays
    <3>6. Bound(x)' >= 2 * IdleDelay /\ (x \in Claimable => Bound(x)' >= Bound(x) + Rest')
      BY <1>5, <3>2, <3>3, <3>4, <3>5, Delays DEF Bound
    <3>7. status[x] = "Absent" => passed'[x] = 0
      BY <3>4, Split DEF OnTime, Claimable
    <3>. QED BY <1>4, <1>5, <3>1, <3>6, <3>7, Delays, LeftOnTime DEF Claim
  <2>. QED BY <2>1, <2>2
<1>. QED BY <1>4, <1>5, <1>6

(* A poll that fails, before its claim (S empty) or after it.              *)
LEMMA FailOnTime ==
    ASSUME IInv, Polls, BackOff, NEW S \in SUBSET Claimable,
           MarkProcessed(S), Keep(Claimable \ S, ErrorDelay)
    PROVE  TypeOK' /\ Resting' /\ \A x \in Requests : OnTime(x)'
<1>1. TypeOK /\ Resting
  BY Split
<1>2. Claimable \subseteq Requests
  BY DEF Claimable
<1>3. TypeOK'
  BY <1>1, <1>2, Delays DEF BackOff, TypeOK, MarkProcessed, Keep
<1>4. Resting' /\ Rest' = ErrorDelay
  BY Delays DEF BackOff, Polls, Resting, Rest
<1>5. ASSUME NEW x \in Requests PROVE OnTime(x)'
  <2>1. CASE x \in S
    BY <1>2, <2>1, TakenOnTime DEF BackOff, MarkProcessed
  <2>2. CASE x \notin S
    <3>1. status'[x] = status[x] /\ passed' = passed
      BY <2>2 DEF MarkProcessed, BackOff
    <3>2. held[x] \in Nat /\ passed[x] * BatchDelay \in Nat
      BY <1>1, RowTypes
    <3>3. /\ x \in Claimable => held'[x] = held[x] + ErrorDelay
          /\ x \notin Claimable => held'[x] = held[x]
      BY <2>2 DEF Keep
    <3>4. Bound(x)' >= 2 * IdleDelay /\ (x \in Claimable => Bound(x)' >= Bound(x) + Rest')
      BY <1>4, <3>1, <3>2, <3>3, Delays DEF Bound
    <3>5. status[x] = "Absent" => passed'[x] = 0
      BY <3>1, Split DEF OnTime
    <3>. QED BY <1>3, <1>4, <3>1, <3>4, <3>5, Delays, LeftOnTime DEF BackOff
  <2>. QED BY <2>1, <2>2
<1>. QED BY <1>3, <1>4, <1>5

-----------------------------------------------------------------------------
(* The pause after the last row was counted when the claim was made.       *)
LEMMA ForwardOnTime ==
    ASSUME IInv, NEW r \in Requests, Forward(r)
    PROVE  TypeOK' /\ Resting' /\ \A x \in Requests : OnTime(x)'
<1>1. TypeOK /\ Resting
  BY Split
<1>2. TypeOK'
  BY <1>1, Delays DEF Forward, TypeOK, rowVars
<1>3. Resting' /\ Rest' = Rest
  BY <1>1, Delays DEF Forward, Resting, Rest
<1>4. ASSUME NEW x \in Requests PROVE OnTime(x)'
  <2>1. UNCHANGED <<now, status, scheduledAt, createdAt, wanted, sentAt, passed, held, DueSince(x), Bound(x)>>
    BY DEF Forward, rowVars, DueSince, Bound
  <2>2. OnTime(x)
    BY Split
  <2>. QED BY <1>3, <2>1, <2>2 DEF OnTime
<1>. QED BY <1>2, <1>3, <1>4

LEMMA SendOnTime ==
    ASSUME IInv, NEW r \in Requests, Send(r)
    PROVE  TypeOK' /\ Resting' /\ \A x \in Requests : OnTime(x)'
<1>1. TypeOK /\ Resting
  BY Split
<1>2. TypeOK'
  BY <1>1 DEF TypeOK, Send, pollVars
<1>3. Resting' /\ Rest' = Rest
  BY <1>1 DEF Send, pollVars, Resting, Rest
<1>4. ASSUME NEW x \in Requests PROVE OnTime(x)'
  <2>1. UNCHANGED <<now, scheduledAt, createdAt, wanted, passed, held, DueSince(x), Bound(x)>>
    BY DEF Send, DueSince, Bound
  <2>2. OnTime(x)
    BY Split
  <2>3. CASE x # r
    BY <1>1, <1>3, <2>1, <2>2, <2>3 DEF OnTime, Send, TypeOK
  <2>4. CASE x = r
    BY <1>1, <2>1, <2>2, <2>4 DEF OnTime, Send, TypeOK
  <2>. QED BY <2>3, <2>4
<1>. QED BY <1>2, <1>3, <1>4

(* A tick shortens the sleep, or every due row is excused for it.          *)
LEMMA TickOnTime ==
    ASSUME IInv, Tick
    PROVE  TypeOK' /\ Resting' /\ \A x \in Requests : OnTime(x)'
<1>1. TypeOK /\ Resting
  BY Split
<1>2. TypeOK'
  BY <1>1 DEF TypeOK, Tick, rowVars, Keep
<1>3. Resting'
  BY <1>1, Delays DEF Tick, Resting, TypeOK
<1>4. ASSUME NEW x \in Requests PROVE OnTime(x)'
  <2>1. UNCHANGED <<status, scheduledAt, createdAt, wanted, sentAt, passed, claimed, DueSince(x)>>
        /\ now' = now + 1
    BY DEF Tick, rowVars, DueSince
  <2>2. OnTime(x)
    BY Split
  <2>3. /\ now \in Int /\ sleep \in Nat /\ scheduledAt[x] \in Int /\ createdAt[x] \in Int
        /\ sentAt[x] \in Int /\ DueSince(x) \in Int /\ held[x] \in Nat
        /\ passed[x] * BatchDelay \in Nat /\ Rest \in Nat
    BY <1>1, RowTypes
  <2>4. ASSUME status[x] = "Created"
        PROVE  now + 1 + Rest' - DueSince(x) <= Bound(x)'
    <3>1. now + Rest - DueSince(x) <= 2 * IdleDelay + held[x] + passed[x] * BatchDelay
      BY <2>2, <2>4 DEF OnTime, Bound
    <3>2. CASE sleep > 0
      <4>1. claimed = {} /\ sleep' = sleep - 1 /\ held' = held
        BY <1>1, <3>2 DEF Resting, Tick
      <4>2. Rest = sleep /\ Rest' = sleep - 1
        BY <2>1, <4>1 DEF Rest
      <4>. QED BY <2>1, <2>3, <3>1, <4>1, <4>2, Delays DEF Bound
    <3>3. CASE sleep = 0 /\ x \in Claimable
      <4>1. held'[x] = held[x] + 1 /\ Rest' = Rest
        BY <2>1, <3>3 DEF Tick, Keep, Rest
      <4>. QED BY <2>1, <2>3, <3>1, <4>1, Delays DEF Bound
    <3>4. CASE sleep = 0 /\ x \notin Claimable
      <4>1. held'[x] = held[x] /\ Rest' = Rest /\ Rest <= BatchDelay
        BY <2>1, <3>4, Delays DEF Tick, Keep, Rest
      <4>2. DueSince(x) >= now + 1
        BY <2>3, <2>4, <3>4 DEF Claimable, DueSince
      <4>. QED BY <2>1, <2>3, <4>1, <4>2, Delays DEF Bound
    <3>. QED BY <2>3, <3>2, <3>3, <3>4
  <2>. QED BY <2>1, <2>2, <2>3, <2>4 DEF OnTime
<1>. QED BY <1>2, <1>3, <1>4

(* IInv is inductive.                                                      *)
LEMMA NextIInv == IInv /\ [Next]_vars => IInv'
<1>. SUFFICES ASSUME IInv, [Next]_vars PROVE TypeOK' /\ Resting' /\ \A x \in Requests : OnTime(x)'
  BY DEF IInv, Resting, OnTime, Bound
<1>1. CASE UNCHANGED vars
  BY <1>1, Split DEF TypeOK, Resting, OnTime, Rest, Bound, DueSince, vars, rowVars, pollVars
<1>2. ASSUME NEW r \in Requests, NEW st \in {"Created", "Processed"},
             NEW w \in KstInputs, Create(r, st, w)
      PROVE  TypeOK' /\ Resting' /\ \A x \in Requests : OnTime(x)'
  <2>1. TypeOK' /\ \A x \in Requests : OnTime(x)'
    BY <1>2, Split, CreateTypes, CreateOnTime
  <2>. QED BY <1>2, <2>1, Split DEF Resting, Create, pollVars
<1>3. ASSUME NEW r \in Requests, Send(r) \/ Forward(r)
      PROVE  TypeOK' /\ Resting' /\ \A x \in Requests : OnTime(x)'
  BY <1>3, SendOnTime, ForwardOnTime
<1>4. CASE PollEmpty
  BY <1>4, PollEmptyOnTime
<1>5. CASE Claim
  BY <1>5, ClaimOnTime
<1>6. CASE ClaimThenFail
  BY <1>6, FailOnTime DEF ClaimThenFail, Batches
<1>7. CASE PollFails
  <2>1. status \in [Requests -> {"Absent", "Created", "Processed", "Sent"}]
    BY DEF IInv, TypeOK
  <2>2. MarkProcessed({}) /\ Claimable \ {} = Claimable
    BY <1>7, <2>1 DEF PollFails, MarkProcessed
  <2>. QED BY <1>7, <2>2, FailOnTime DEF PollFails
<1>8. CASE Tick
  BY <1>8, TickOnTime
<1>. QED BY <1>1, <1>2, <1>3, <1>4, <1>5, <1>6, <1>7, <1>8 DEF Next

(* The inductive invariant holds in every reachable state.                 *)
LEMMA Inductive == Spec => []IInv
BY InitIInv, NextIInv, PTL DEF Spec

(* No email leaves before the Korean time its client asked for, whatever   *)
(* the offset: the stored time is that time in UTC, and a claim compares   *)
(* with it.                                                                *)
THEOREM OnKoreanTime == Spec => []NotBeforeKst
<1>1. IInv => NotBeforeKst
  <2>. SUFFICES ASSUME IInv, NEW r \in Requests, status[r] = "Sent", NEW s \in wanted[r]
                PROVE  sentAt[r] + KstOffset >= s
    BY DEF NotBeforeKst
  <2>1. /\ scheduledAt[r] = s - KstOffset /\ sentAt[r] >= scheduledAt[r]
        /\ sentAt[r] \in Int /\ s \in Int /\ KstOffset \in Nat
    BY Delays DEF IInv, TypeOK
  <2>. QED BY <2>1
<1>. QED BY <1>1, Inductive, PTL

(* A due row is claimed within twice the idle delay, plus what is counted  *)
(* for it: back-offs, pauses after claims that left it, and waits for the  *)
(* database and for room in the channel.                                   *)
THEOREM InTime == Spec => []ClaimedInTime
<1>1. IInv => ClaimedInTime
  <2>. SUFFICES ASSUME IInv, NEW r \in Requests, status[r] = "Created"
                PROVE  now - DueSince(r) <= Bound(r)
    BY DEF ClaimedInTime, Bound
  <2>1. now + Rest - DueSince(r) <= Bound(r) /\ TypeOK
    BY Split DEF OnTime
  <2>2. now \in Int /\ Rest \in Nat /\ DueSince(r) \in Int /\ Bound(r) \in Nat
    BY <2>1, RowTypes
  <2>. QED BY <2>1, <2>2
<1>. QED BY <1>1, Inductive, PTL

-----------------------------------------------------------------------------
LEMMA AheadFinite ==
    ASSUME NEW x \in Requests
    PROVE  IsFiniteSet(Ahead(x)) /\ Cardinality(Ahead(x)) \in Nat
BY DelayAssumption, FS_Subset, FS_CardinalityType DEF Ahead

(* More rows ahead, as long as the row is not passed over, do no harm.     *)
LEMMA NotPassed ==
    ASSUME NEW x \in Requests, TypeOK, passed'[x] = passed[x],
           passed[x] * ClaimLimit <= Cardinality(Ahead(x)),
           Ahead(x) \subseteq Ahead(x)', IsFiniteSet(Ahead(x)')
    PROVE  passed'[x] * ClaimLimit <= Cardinality(Ahead(x)')
<1>1. /\ Cardinality(Ahead(x)) \in Nat /\ Cardinality(Ahead(x)') \in Nat
      /\ Cardinality(Ahead(x)) <= Cardinality(Ahead(x)')
  BY AheadFinite, FS_Subset, FS_CardinalityType
<1>2. passed[x] * ClaimLimit \in Nat
  BY OneMore, RowTypes, Delays
<1>. QED BY <1>1, <1>2

(* A claim that leaves a due row takes the whole limit of rows, all of     *)
(* them scheduled no later.                                                *)
LEMMA ClaimLeaves ==
    ASSUME IInv, LeftForEarlier, Claim, NEW x \in Requests
    PROVE  passed'[x] * ClaimLimit <= Cardinality(Ahead(x)')
<1>1. TypeOK /\ passed[x] * ClaimLimit <= Cardinality(Ahead(x))
  BY DEF IInv, LeftForEarlier
<1>2. PICK S \in Batches \ {{}} :
         /\ MarkProcessed(S)
         /\ passed' = [r \in Requests |-> IF r \in Claimable \ S THEN passed[r] + 1 ELSE passed[r]]
  BY DEF Claim
<1>3. S \subseteq Claimable /\ Claimable \subseteq Requests
  BY <1>2 DEF Batches, Claimable
<1>4. scheduledAt' = scheduledAt
  BY DEF Claim
<1>5. Ahead(x) \subseteq Ahead(x)' /\ IsFiniteSet(Ahead(x)')
  <2>1. Ahead(x)' \subseteq Requests
    BY DEF Ahead
  <2>. QED BY <1>2, <1>4, <2>1, DelayAssumption, FS_Subset DEF Ahead, MarkProcessed
<1>6. CASE x \notin Claimable \ S
  BY <1>1, <1>2, <1>5, <1>6, NotPassed
<1>7. CASE x \in Claimable \ S
  <2>1. Cardinality(S) = ClaimLimit /\ IsFiniteSet(S)
    BY <1>2, <1>3, <1>7, DelayAssumption, FS_Subset DEF Batches, Limited
  <2>2. \A r \in S : scheduledAt[r] <= scheduledAt[x]
    BY <1>2, <1>7 DEF Batches
  <2>3. S \cap Ahead(x) = {}
    BY <1>3 DEF Ahead, Claimable
  <2>4. S \cup Ahead(x) \subseteq Ahead(x)'
    BY <1>2, <1>3, <1>4, <1>5, <2>2 DEF Ahead, MarkProcessed
  <2>5. /\ IsFiniteSet(S \cup Ahead(x))
        /\ Cardinality(S \cup Ahead(x)) = ClaimLimit + Cardinality(Ahead(x))
    <3>1. /\ IsFiniteSet(S \cup Ahead(x)) /\ Cardinality({}) = 0
          /\ Cardinality(S \cup Ahead(x))
                = Cardinality(S) + Cardinality(Ahead(x)) - Cardinality(S \cap Ahead(x))
      BY <2>1, AheadFinite, FS_Union, FS_EmptySet
    <3>2. Cardinality(S \cap Ahead(x)) = 0
      BY <2>3, <3>1, Zenon
    <3>3. Cardinality(Ahead(x)) \in Nat
      BY AheadFinite
    <3>. QED BY <2>1, <3>1, <3>2, <3>3, Delays
  <2>6. /\ Cardinality(S \cup Ahead(x)) <= Cardinality(Ahead(x)')
        /\ Cardinality(Ahead(x)') \in Nat
    BY <1>5, <2>4, FS_Subset, FS_CardinalityType
  <2>7. passed'[x] * ClaimLimit = passed[x] * ClaimLimit + ClaimLimit
        /\ passed[x] * ClaimLimit \in Nat
    BY <1>1, <1>2, <1>7, OneMore, RowTypes, Delays
  <2>. QED BY <1>1, <2>5, <2>6, <2>7, AheadFinite, Delays
<1>. QED BY <1>6, <1>7

(* However many emails are due, a row is left behind only for rows that    *)
(* were scheduled no later, a whole claim of them at a time.               *)
THEOREM NotOvertaken == Spec => []LeftForEarlier
<1>1. Init => LeftForEarlier
  <2>. SUFFICES ASSUME Init, NEW x \in Requests
                PROVE  passed[x] * ClaimLimit <= Cardinality(Ahead(x))
    BY DEF LeftForEarlier
  <2>1. passed[x] * ClaimLimit = 0
    BY Delays DEF Init
  <2>. QED BY <2>1, AheadFinite
<1>2. IInv /\ LeftForEarlier /\ [Next]_vars => LeftForEarlier'
  <2>. SUFFICES ASSUME IInv, LeftForEarlier, [Next]_vars, NEW x \in Requests
                PROVE  passed'[x] * ClaimLimit <= Cardinality(Ahead(x)')
    BY DEF LeftForEarlier
  <2>1. TypeOK /\ passed[x] * ClaimLimit <= Cardinality(Ahead(x))
    BY DEF IInv, LeftForEarlier
  <2>2. IsFiniteSet(Ahead(x)')
    <3>1. Ahead(x)' \subseteq Requests
      BY DEF Ahead
    <3>. QED BY <3>1, DelayAssumption, FS_Subset
  <2>3. CASE Claim
    BY <2>3, ClaimLeaves
  <2>4. ASSUME NEW r \in Requests, NEW st \in {"Created", "Processed"},
               NEW w \in KstInputs, Create(r, st, w)
        PROVE  passed'[x] * ClaimLimit <= Cardinality(Ahead(x)')
    <3>1. CASE x = r
      <4>1. passed'[x] = 0
        BY <2>4, <3>1 DEF Create, IInv
      <4>2. 0 * ClaimLimit = 0 /\ Cardinality(Ahead(x)') \in Nat
        BY <2>2, FS_CardinalityType, Delays
      <4>. QED BY <4>1, <4>2
    <3>2. CASE x # r
      <4>1. Ahead(x) \subseteq Ahead(x)'
        BY <2>1, <2>4, <3>2 DEF Ahead, Create, TypeOK
      <4>. QED BY <2>1, <2>2, <2>4, <4>1, NotPassed DEF Create
    <3>. QED BY <3>1, <3>2
  <2>5. CASE ClaimThenFail
    <3>1. PICK S \in SUBSET Claimable : MarkProcessed(S)
      BY <2>5 DEF ClaimThenFail, Batches
    <3>2. scheduledAt' = scheduledAt /\ passed' = passed
      BY <2>5 DEF ClaimThenFail, BackOff
    <3>3. Ahead(x) \subseteq Ahead(x)'
      BY <3>1, <3>2 DEF Ahead, MarkProcessed
    <3>. QED BY <2>1, <2>2, <3>2, <3>3, NotPassed
  <2>6. ASSUME NEW r \in Requests, Send(r)
        PROVE  passed'[x] * ClaimLimit <= Cardinality(Ahead(x)')
    <3>1. Ahead(x) \subseteq Ahead(x)'
      BY <2>1, <2>6 DEF Ahead, Send, TypeOK
    <3>. QED BY <2>1, <2>2, <2>6, <3>1, NotPassed DEF Send
  <2>7. CASE UNCHANGED <<status, scheduledAt, passed>>
    BY <2>1, <2>7 DEF Ahead
  <2>. QED
    BY <2>3, <2>4, <2>5, <2>6, <2>7
       DEF Next, PollEmpty, PollFails, BackOff, Forward, Tick, vars, rowVars
<1>. QED BY <1>1, <1>2, Inductive, PTL DEF Spec
=============================================================================
