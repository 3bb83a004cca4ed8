----------------------------- MODULE PacedSends -----------------------------
(***************************************************************************)
(* The sender loop with all that paces it: an email takes a token and a    *)
(* permit (RateLimiter); its task then runs the retry loop of send_email   *)
(* and keeps the permit until that returns, back-offs included.  A         *)
(* repeated call takes no token.  What SES makes of the calls is in        *)
(* SesSend; the task's wait for room in the results channel, before it     *)
(* drops its permit, is in Pipeline.                                       *)
(***************************************************************************)
EXTENDS Integers, FiniteSets

CONSTANTS Emails, MaxRetries, MaxPerSec, TicksPerSec, ClockSteps, MaxAdjustments

ASSUME PaceAssumption ==
    /\ MaxRetries \in Nat /\ MaxPerSec \in Nat \ {0}
    /\ TicksPerSec \in Nat \ {0} /\ ClockSteps \subseteq Int /\ MaxAdjustments \in Nat

VARIABLES tokens, age, refiller, sender, inflight, adjustments, refills, spent
VARIABLES
    pc,             \* where the task of each email is: as in SesSend
    attempts,       \* its variable attempts
    calls           \* history: calls of the SES client since the last reset

bucketVars == <<tokens, age, refiller, sender, inflight, adjustments, refills, spent>>
taskVars == <<pc, attempts>>
vars == <<bucketVars, taskVars, calls>>

Bucket == INSTANCE RateLimiter

Init ==
    /\ Bucket!Init
    /\ pc = [e \in Emails |-> "idle"]
    /\ attempts = [e \in Emails |-> 0]
    /\ calls = 0

Queued == {e \in Emails : pc[e] = "idle"}
Sending == {e \in Emails : pc[e] \in {"call", "backoff"}}

\* rx.recv() returns when there is a request.
Recv == Queued # {} /\ Bucket!Recv /\ UNCHANGED <<taskVars, calls>>

Acquire == (Bucket!TryAcquire \/ Bucket!Register) /\ UNCHANGED <<taskVars, calls>>

\* With token and permit the task is spawned, and calls SES.
Spawn(e) ==
    /\ pc[e] = "idle"
    /\ Bucket!AcquirePermit
    /\ pc' = [pc EXCEPT ![e] = "call"]
    /\ calls' = calls + 1
    /\ UNCHANGED attempts

\* Mutant: one retry too many.
RetryOnceMore(e) ==
    /\ pc[e] = "call" /\ attempts[e] <= MaxRetries
    /\ pc' = [pc EXCEPT ![e] = "backoff"]
    /\ attempts' = [attempts EXCEPT ![e] = @ + 1]
    /\ UNCHANGED <<bucketVars, calls>>

\* The call failed in a way that is worth a retry.
Retry(e) ==
    /\ pc[e] = "call" /\ attempts[e] < MaxRetries
    /\ pc' = [pc EXCEPT ![e] = "backoff"]
    /\ attempts' = [attempts EXCEPT ![e] = @ + 1]
    /\ UNCHANGED <<bucketVars, calls>>

CallAgain(e) ==
    /\ pc[e] = "backoff"
    /\ pc' = [pc EXCEPT ![e] = "call"]
    /\ calls' = calls + 1
    /\ UNCHANGED <<bucketVars, attempts>>

\* Mutant: a send that needed retries keeps its permit.
FinishFirstTry(e) ==
    /\ pc[e] = "call"
    /\ pc' = [pc EXCEPT ![e] = "done"]
    /\ IF attempts[e] = 0 THEN Bucket!Complete ELSE UNCHANGED bucketVars
    /\ UNCHANGED <<attempts, calls>>

\* send_email returns, well or not: the task ends and drops its permit.
Finish(e) ==
    /\ pc[e] = "call"
    /\ pc' = [pc EXCEPT ![e] = "done"]
    /\ Bucket!Complete
    /\ UNCHANGED <<attempts, calls>>

Refiller ==
    /\ \/ Bucket!Tick /\ calls' = IF refills' = 0 THEN 0 ELSE calls
       \/ Bucket!NotifyWaiters /\ UNCHANGED calls
    /\ UNCHANGED taskVars

SenderStep == Recv \/ Acquire \/ \E e \in Emails : Spawn(e)
TaskStep(e) == Retry(e) \/ CallAgain(e) \/ Finish(e)
Next == SenderStep \/ Refiller \/ \E e \in Emails : TaskStep(e)

(* As in RateLimiter and SesSend: the tasks run, the interval fires, every *)
(* call of SES and every sleep ends.                                       *)
Spec == Init /\ [][Next]_vars
             /\ WF_vars(SenderStep) /\ WF_vars(Refiller)
             /\ \A e \in Emails : WF_vars(TaskStep(e))

-----------------------------------------------------------------------------
(* The permits taken are those of the emails being sent: retries keep the  *)
(* one permit they have, and every way out of send_email gives it back.    *)
PermitsHeld == inflight = Cardinality(Sending)

(* How much the retries add to the rate: from one reset of the bucket to   *)
(* the next SES is called MaxRetries + 1 times at most for each token      *)
(* taken since and for one whose token was taken just before the reset,    *)
(* and MaxRetries times for each email that was being sent at the reset.   *)
CallsPaced ==
    calls <= (MaxRetries + 1) * (spent + 1) + MaxRetries * Bucket!Permits

(* Every queued email gets a token, a permit and an answer, however many   *)
(* retries other emails need.                                              *)
EveryEmailAnswered == \A e \in Emails : <>(pc[e] = "done")
=============================================================================
