---------------------------- MODULE SesSendProofs ----------------------------
(***************************************************************************)
(* Proofs about SesSend, for any number of emails, retries and HTTP        *)
(* requests per call: the copies an email can cause, what "sent" is worth, *)
(* and that the retry loop implements AtLeastOnce.                         *)
(***************************************************************************)
EXTENDS SesSend, TLAPS

(* What IInv says of one email.                                            *)
Accounted(e) ==
    /\ pc[e] # "call" => e \notin open
    /\ pc[e] = "idle" => wire[e] = 0 /\ attempts[e] = 0
    /\ pc[e] = "ok" => messageId[e] \in 1 .. accepted[e]
    /\ CopiesCounted(e)

(* The only arithmetic beyond sums: multiples of WireAttempts.             *)
LEMMA Multiples ==
    ASSUME NEW a \in Nat, NEW b \in Nat, a <= b
    PROVE  /\ a * WireAttempts \in Nat
           /\ (a + 1) * WireAttempts = a * WireAttempts + WireAttempts
           /\ a * WireAttempts <= b * WireAttempts
<1>1. WireAttempts \in Nat
  BY RetryAssumption
<1>2. PICK d \in Nat : b = a + d
  <2>1. b - a \in Nat /\ b = a + (b - a)
    OBVIOUS
  <2>. QED BY <2>1
<1>3. b * WireAttempts = a * WireAttempts + d * WireAttempts
  BY <1>1, <1>2
<1>4. a * WireAttempts \in Nat /\ d * WireAttempts \in Nat
  BY <1>1
<1>. QED BY <1>1, <1>3, <1>4

-----------------------------------------------------------------------------
(* The initial states account for no copies.                               *)
LEMMA InitIInv == Init => IInv
<1>. SUFFICES ASSUME Init PROVE IInv
  OBVIOUS
<1>1. TypeOK
  BY RetryAssumption DEF Init, TypeOK, Answered
<1>2. ASSUME NEW e \in Emails PROVE Accounted(e)
  <2>1. 0 * WireAttempts = 0
    BY RetryAssumption
  <2>. QED BY <2>1 DEF Init, Accounted, CopiesCounted, Unseen
<1>. QED BY <1>1, <1>2 DEF IInv, Accounted

(* Each action keeps the types.                                            *)
LEMMA StepTypes ==
    ASSUME IInv, NEW e \in Emails, Start(e) \/ WireStep(e) \/ LateRequest(e) \/ TaskStep(e)
    PROVE  TypeOK'
<1>. USE RetryAssumption DEF IInv, TypeOK, Answered
<1>1. CASE Start(e)
  BY <1>1 DEF Start, wireVars
<1>2. CASE HttpRequest(e)
  BY <1>2 DEF HttpRequest, taskVars
<1>3. CASE SesTakes(e)
  BY <1>3 DEF SesTakes, taskVars
<1>4. CASE SesRefuses(e)
  BY <1>4 DEF SesRefuses, taskVars
<1>5. CASE NoAnswer(e)
  BY <1>5 DEF NoAnswer, taskVars
<1>6. CASE LateRequest(e)
  BY <1>6 DEF LateRequest, taskVars, wireVars
<1>7. CASE ReturnOk(e)
  BY <1>7 DEF ReturnOk
<1>8. CASE Retry(e)
  BY <1>8 DEF Retry, MayRetry, CallFailed, wireVars
<1>9. CASE CallAgain(e)
  BY <1>9 DEF CallAgain
<1>10. CASE ReturnErr(e)
  BY <1>10 DEF ReturnErr, wireVars
<1>. QED BY <1>1, <1>2, <1>3, <1>4, <1>5, <1>6, <1>7, <1>8, <1>9, <1>10
         DEF WireStep, TaskStep, Return

(* An action of one email leaves the account of another alone.             *)
LEMMA StepOthers ==
    ASSUME IInv, NEW e \in Emails, Start(e) \/ WireStep(e) \/ LateRequest(e) \/ TaskStep(e),
           NEW x \in Emails, x # e
    PROVE  Accounted(x)'
<1>1. Accounted(x)
  BY DEF IInv, Accounted
<1>2. /\ pc'[x] = pc[x] /\ attempts'[x] = attempts[x] /\ wire'[x] = wire[x]
      /\ (x \in open') = (x \in open) /\ copy'[x] = copy[x] /\ late'[x] = late[x]
      /\ accepted'[x] = accepted[x] /\ messageId'[x] = messageId[x]
  <2>. USE DEF IInv, TypeOK, taskVars, wireVars
  <2>1. CASE Start(e)        BY <2>1 DEF Start
  <2>2. CASE HttpRequest(e)  BY <2>2 DEF HttpRequest
  <2>3. CASE SesTakes(e)     BY <2>3 DEF SesTakes
  <2>4. CASE SesRefuses(e)   BY <2>4 DEF SesRefuses
  <2>5. CASE NoAnswer(e)     BY <2>5 DEF NoAnswer
  <2>6. CASE LateRequest(e)  BY <2>6 DEF LateRequest
  <2>7. CASE ReturnOk(e)     BY <2>7 DEF ReturnOk
  <2>8. CASE Retry(e)        BY <2>8 DEF Retry
  <2>9. CASE CallAgain(e)    BY <2>9 DEF CallAgain
  <2>10. CASE ReturnErr(e)   BY <2>10 DEF ReturnErr
  <2>. QED BY <2>1, <2>2, <2>3, <2>4, <2>5, <2>6, <2>7, <2>8, <2>9, <2>10
           DEF WireStep, TaskStep, Return
<1>. QED BY <1>1, <1>2 DEF Accounted, CopiesCounted, Unseen

(* Each action keeps the account of its own email: a call adds at most     *)
(* WireAttempts copies, and a retry pays for them with an attempt.         *)
LEMMA StepOwn ==
    ASSUME IInv, NEW e \in Emails, Start(e) \/ WireStep(e) \/ LateRequest(e) \/ TaskStep(e)
    PROVE  Accounted(e)'
<1>1. Accounted(e) /\ TypeOK
  BY DEF IInv, Accounted
<1>2. /\ attempts[e] \in Nat /\ wire[e] \in Nat /\ wire[e] <= WireAttempts
      /\ copy[e] \in Nat /\ late[e] \in Nat /\ accepted[e] \in Nat
      /\ WireAttempts \in Nat
  BY RetryAssumption DEF IInv, TypeOK
<1>3. /\ attempts[e] * WireAttempts \in Nat
      /\ (attempts[e] + 1) * WireAttempts = attempts[e] * WireAttempts + WireAttempts
  BY <1>2, Multiples
<1>. USE <1>1, <1>2, <1>3 DEF Accounted, CopiesCounted, Unseen, TypeOK, taskVars, wireVars
<1>4. CASE Start(e)        BY <1>4 DEF Start
<1>5. CASE HttpRequest(e)  BY <1>5 DEF HttpRequest
<1>6. CASE SesTakes(e)     BY <1>6 DEF SesTakes
<1>7. CASE SesRefuses(e)   BY <1>7 DEF SesRefuses
<1>8. CASE NoAnswer(e)     BY <1>8 DEF NoAnswer
<1>9. CASE LateRequest(e)  BY <1>9 DEF LateRequest
<1>10. CASE ReturnOk(e)    BY <1>10 DEF ReturnOk
<1>11. CASE Retry(e)       BY <1>11 DEF Retry, CallFailed
<1>12. CASE CallAgain(e)   BY <1>12 DEF CallAgain
<1>13. CASE ReturnErr(e)   BY <1>13 DEF ReturnErr, CallFailed
<1>. QED BY <1>4, <1>5, <1>6, <1>7, <1>8, <1>9, <1>10, <1>11, <1>12, <1>13
         DEF WireStep, TaskStep, Return

(* IInv is inductive.                                                      *)
LEMMA NextIInv == IInv /\ [Next]_vars => IInv'
<1>. SUFFICES ASSUME IInv, [Next]_vars PROVE IInv'
  OBVIOUS
<1>1. CASE UNCHANGED vars
  BY <1>1 DEF IInv, TypeOK, CopiesCounted, Unseen, vars, taskVars, wireVars
<1>2. CASE Next
  <2>1. PICK e \in Emails : Start(e) \/ WireStep(e) \/ LateRequest(e) \/ TaskStep(e)
    BY <1>2 DEF Next
  <2>2. TypeOK'
    BY <2>1, StepTypes
  <2>3. \A x \in Emails : Accounted(x)'
    BY <2>1, StepOwn, StepOthers
  <2>. QED BY <2>2, <2>3 DEF IInv, Accounted
<1>. QED BY <1>1, <1>2

(* The inductive invariant holds in every reachable state.                 *)
THEOREM Inductive == Spec => []IInv
BY InitIInv, NextIInv, PTL DEF Spec

(* Every variable of send_email and of its requests keeps its type; in     *)
(* particular attempts never passes MAX_RETRIES.                           *)
THEOREM Typing == Spec => []TypeOK
<1>1. IInv => TypeOK
  BY DEF IInv
<1>. QED BY <1>1, Inductive, PTL

(* The message id of a Sent row is that of a copy SES has taken.           *)
THEOREM Traceable == Spec => []SentIsTraceable
<1>1. IInv => SentIsTraceable
  BY DEF IInv, SentIsTraceable
<1>. QED BY <1>1, Inductive, PTL

(* One send_email delivers (MAX_RETRIES + 1) * WireAttempts copies at      *)
(* most, those that arrive after its return included.                      *)
LEMMA IInvBounds == IInv => CopiesBounded
<1>. SUFFICES ASSUME IInv, NEW e \in Emails PROVE accepted[e] + late[e] <= MaxCopies
  BY DEF CopiesBounded
<1>1. /\ attempts[e] \in Nat /\ attempts[e] <= MaxRetries /\ MaxRetries \in Nat
      /\ wire[e] \in Nat /\ wire[e] <= WireAttempts /\ WireAttempts \in Nat
      /\ late[e] \in Nat /\ accepted[e] \in Nat /\ Unseen(e) \in {0, 1}
  BY RetryAssumption DEF IInv, TypeOK, Unseen
<1>2. /\ attempts[e] * WireAttempts \in Nat
      /\ attempts[e] * WireAttempts <= MaxRetries * WireAttempts
      /\ MaxRetries * WireAttempts \in Nat
      /\ (MaxRetries + 1) * WireAttempts = MaxRetries * WireAttempts + WireAttempts
  BY <1>1, Multiples
<1>3. accepted[e] + late[e] + Unseen(e) <= attempts[e] * WireAttempts + WireAttempts
  <2>1. CopiesCounted(e)
    BY DEF IInv
  <2>. HIDE DEF Unseen
  <2>. QED BY <1>1, <1>2, <2>1 DEF CopiesCounted
<1>. HIDE DEF Unseen
<1>. QED BY <1>1, <1>2, <1>3 DEF MaxCopies

THEOREM Bounded == Spec => []CopiesBounded
BY IInvBounds, Inductive, PTL

-----------------------------------------------------------------------------
(* After its answer the task asks SES for nothing more: what can still be  *)
(* taken only becomes less.                                                *)
LEMMA AnsweredIsQuiet ==
    ASSUME IInv, [Next]_vars, NEW x \in Emails, pc[x] \in Answered
    PROVE  accepted'[x] + late'[x] <= accepted[x] + late[x]
<1>1. late[x] \in Nat /\ accepted[x] \in Nat /\ x \notin open
  BY DEF IInv, TypeOK, Answered
<1>2. CASE UNCHANGED vars
  BY <1>1, <1>2 DEF vars
<1>3. CASE Next
  <2>1. PICK e \in Emails : Start(e) \/ WireStep(e) \/ LateRequest(e) \/ TaskStep(e)
    BY <1>3 DEF Next
  <2>2. CASE LateRequest(e)
    BY <1>1, <2>2 DEF LateRequest, IInv, TypeOK
  <2>3. CASE WireStep(e)
    BY <1>1, <2>3 DEF WireStep, HttpRequest, SesTakes, SesRefuses, NoAnswer, IInv, TypeOK,
                      Answered
  <2>4. CASE Start(e) \/ TaskStep(e)
    BY <1>1, <2>4 DEF Start, TaskStep, Return, ReturnOk, ReturnErr, Retry, CallAgain
  <2>. QED BY <2>1, <2>2, <2>3, <2>4
<1>. QED BY <1>2, <1>3

THEOREM QuietAfterAnswer == Spec => NothingNewAfterAnswer
<1>. DEFINE Quiet == \A e \in Emails : pc[e] \in Answered =>
                        accepted'[e] + late'[e] <= accepted[e] + late[e]
<1>1. IInv /\ [Next]_vars => [Quiet]_vars
  BY AnsweredIsQuiet
<1>. QED BY <1>1, Inductive, PTL DEF Spec, NothingNewAfterAnswer

-----------------------------------------------------------------------------
(* The refinement.  asked grows with Start; a copy SES takes is a Deliver  *)
(* whether its request is awaited or late; the rest of the loop stutters.  *)
AnswerOf(e) == CASE pc[e] = "ok" -> "sent"
                 [] pc[e] = "err" -> "failed"
                 [] OTHER -> "none"

LEMMA Delivers ==
    ASSUME IInv, IInv', CopiesBounded', NEW e \in Emails, pc[e] # "idle",
           UNCHANGED <<pc, messageId>>, accepted' = [accepted EXCEPT ![e] = @ + 1]
    PROVE  Promise!Deliver(e)
<1>1. accepted'[e] = accepted[e] + 1 /\ accepted[e] \in Nat
  BY DEF IInv, TypeOK
<1>2. accepted'[e] + late'[e] <= MaxCopies /\ late'[e] \in Nat /\ MaxCopies \in Nat
  <2>1. MaxCopies \in Nat
    BY RetryAssumption DEF MaxCopies
  <2>. QED BY <2>1 DEF CopiesBounded, IInv, TypeOK, MaxCopies
<1>3. accepted[e] < MaxCopies
  BY <1>1, <1>2
<1>. QED BY <1>3 DEF Promise!Deliver

LEMMA NextPromise ==
    IInv /\ IInv' /\ CopiesBounded' /\ [Next]_vars => [Promise!Next]_Promise!vars
<1>. SUFFICES ASSUME IInv, IInv', CopiesBounded', [Next]_vars
              PROVE  [Promise!Next]_Promise!vars
  OBVIOUS
<1>. DEFINE Quiet == UNCHANGED <<pc, accepted, messageId>>
<1>1. ASSUME Quiet PROVE UNCHANGED Promise!vars
  BY <1>1 DEF Promise!vars
<1>2. CASE UNCHANGED vars
  BY <1>1, <1>2 DEF vars, taskVars
<1>3. CASE Next
  <2>1. PICK e \in Emails : Start(e) \/ WireStep(e) \/ LateRequest(e) \/ TaskStep(e)
    BY <1>3 DEF Next
  <2>2. CASE Start(e)
    <3>1. {x \in Emails : pc'[x] # "idle"} = {x \in Emails : pc[x] # "idle"} \cup {e}
      BY <2>2 DEF Start, IInv, TypeOK
    <3>2. \A x \in Emails : AnswerOf(x)' = AnswerOf(x)
      BY <2>2 DEF Start, IInv, TypeOK, AnswerOf
    <3>3. UNCHANGED <<accepted, messageId>>
      BY <2>2 DEF Start
    <3>4. Promise!Ask(e)
      BY <3>1, <3>2, <3>3 DEF Promise!Ask, AnswerOf
    <3>. QED BY <3>4 DEF Promise!Next
  <2>3. CASE SesTakes(e)
    <3>1. pc[e] # "idle"
      BY <2>3 DEF SesTakes, IInv
    <3>2. Promise!Deliver(e)
      BY <2>3, <3>1, Delivers DEF SesTakes, taskVars
    <3>. QED BY <3>2 DEF Promise!Next
  <2>4. CASE HttpRequest(e) \/ SesRefuses(e) \/ NoAnswer(e)
    BY <1>1, <2>4 DEF HttpRequest, SesRefuses, NoAnswer, taskVars
  <2>5. CASE LateRequest(e)
    <3>1. pc[e] # "idle"
      <4>1. 0 * WireAttempts = 0
        BY RetryAssumption
      <4>2. late[e] > 0 /\ late[e] \in Nat /\ accepted[e] \in Nat /\ Unseen(e) \in {0, 1}
        BY <2>5 DEF LateRequest, IInv, TypeOK, Unseen
      <4>3. CASE pc[e] = "idle"
        <5>1. accepted[e] + late[e] + Unseen(e) <= 0 * WireAttempts + 0
          BY <4>3 DEF IInv, CopiesCounted
        <5>. QED BY <4>1, <4>2, <5>1
      <4>. QED BY <4>3
    <3>2. CASE accepted' = accepted
      BY <1>1, <2>5, <3>2 DEF LateRequest, taskVars
    <3>3. CASE accepted' = [accepted EXCEPT ![e] = @ + 1]
      <4>1. Promise!Deliver(e)
        BY <2>5, <3>1, <3>3, Delivers DEF LateRequest, taskVars
      <4>. QED BY <4>1 DEF Promise!Next
    <3>. QED BY <2>5, <3>2, <3>3 DEF LateRequest
  <2>6. CASE Retry(e) \/ CallAgain(e)
    <3>1. {x \in Emails : pc'[x] # "idle"} = {x \in Emails : pc[x] # "idle"}
      BY <2>6 DEF Retry, CallFailed, CallAgain, IInv, TypeOK
    <3>2. \A x \in Emails : AnswerOf(x)' = AnswerOf(x)
      BY <2>6 DEF Retry, CallFailed, CallAgain, IInv, TypeOK, AnswerOf
    <3>3. UNCHANGED <<accepted, messageId>>
      BY <2>6 DEF Retry, CallAgain
    <3>. QED BY <3>1, <3>2, <3>3 DEF Promise!vars, AnswerOf
  <2>7. CASE ReturnOk(e)
    <3>1. {x \in Emails : pc'[x] # "idle"} = {x \in Emails : pc[x] # "idle"}
      BY <2>7 DEF ReturnOk, IInv, TypeOK
    <3>2. /\ AnswerOf(e) = "none" /\ AnswerOf(e)' = "sent"
          /\ \A x \in Emails : x # e => AnswerOf(x)' = AnswerOf(x)
      BY <2>7 DEF ReturnOk, IInv, TypeOK, AnswerOf
    <3>3. [x \in Emails |-> AnswerOf(x)'] = [[x \in Emails |-> AnswerOf(x)] EXCEPT ![e] = "sent"]
      BY <3>2
    <3>4. copy[e] \in 1 .. accepted[e] /\ accepted' = accepted
      BY <2>7 DEF ReturnOk, IInv, TypeOK, CopiesCounted
    <3>5. copy[e] \in 1 .. MaxCopies
      <4>1. accepted[e] + late[e] <= MaxCopies /\ late[e] \in Nat /\ accepted[e] \in Nat
        BY IInvBounds DEF CopiesBounded, IInv, TypeOK
      <4>2. MaxCopies \in Nat
        BY RetryAssumption DEF MaxCopies
      <4>. QED BY <3>4, <4>1, <4>2
    <3>6. Promise!Acknowledge(e, copy[e])
      BY <2>7, <3>1, <3>2, <3>3, <3>4 DEF Promise!Acknowledge, ReturnOk, AnswerOf, IInv, TypeOK
    <3>7. \E c \in 1 .. MaxCopies : Promise!Acknowledge(e, c)
      BY <3>5, <3>6 DEF Promise!Acknowledge
    <3>. QED BY <3>7 DEF Promise!Next
  <2>8. CASE ReturnErr(e)
    <3>1. {x \in Emails : pc'[x] # "idle"} = {x \in Emails : pc[x] # "idle"}
      BY <2>8 DEF ReturnErr, CallFailed, IInv, TypeOK
    <3>2. /\ AnswerOf(e) = "none" /\ AnswerOf(e)' = "failed"
          /\ \A x \in Emails : x # e => AnswerOf(x)' = AnswerOf(x)
      BY <2>8 DEF ReturnErr, CallFailed, IInv, TypeOK, AnswerOf
    <3>3. [x \in Emails |-> AnswerOf(x)'] = [[x \in Emails |-> AnswerOf(x)] EXCEPT ![e] = "failed"]
      BY <3>2
    <3>4. Promise!Disappoint(e)
      BY <2>8, <3>1, <3>2, <3>3 DEF Promise!Disappoint, ReturnErr, CallFailed, AnswerOf
    <3>. QED BY <3>4 DEF Promise!Next
  <2>. QED BY <2>1, <2>2, <2>3, <2>4, <2>5, <2>6, <2>7, <2>8 DEF WireStep, TaskStep, Return
<1>. QED BY <1>2, <1>3

(* send_email keeps the promise of AtLeastOnce, whatever the network does. *)
THEOREM PromiseKept == Spec => KeepsPromise
<1>1. Init => Promise!Init
  BY DEF Init, Promise!Init
<1>2. IInv /\ IInv' /\ CopiesBounded' /\ [Next]_vars => [Promise!Next]_Promise!vars
  BY NextPromise
<1>. QED BY <1>1, <1>2, Inductive, Bounded, PTL DEF Spec, KeepsPromise, Promise!Spec
=============================================================================
