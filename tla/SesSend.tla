------------------------------ MODULE SesSend ------------------------------
(***************************************************************************)
(* send_email: one call of the SES client, repeated up to MAX_RETRIES      *)
(* times after a throttling answer (429), a timeout or a dispatch failure. *)
(* It is run by many tasks at once, one per email.                         *)
(*                                                                         *)
(* One call of the client can be several HTTP requests: the SDK is loaded  *)
(* with its defaults, which repeat a request themselves.  A request nobody *)
(* waits for any longer may still reach SES, so an email can be taken      *)
(* several times, also after its task was told that sending failed.        *)
(*                                                                         *)
(* The n-th time SES takes an email gives the message id n.  The contents  *)
(* and their builders are left out: Content::build fails without data only *)
(* and data is always set.  Back-off lengths are left out.                 *)
(***************************************************************************)
EXTENDS Naturals

CONSTANTS
    Emails,
    MaxRetries,     \* MAX_RETRIES
    WireAttempts    \* HTTP requests the SDK makes at most in one call

ASSUME RetryAssumption == MaxRetries \in Nat /\ WireAttempts \in Nat \ {0}

VARIABLES
    pc,             \* where the task of each email is in send_email
    attempts,       \* its variable attempts
    wire,           \* HTTP requests made in the current call
    open,           \* emails with an HTTP request whose answer is awaited
    copy,           \* the copy SES took with that request, 0 if none yet
    error,          \* how the last HTTP request of the call failed
    late,           \* abandoned requests SES has not seen yet
    accepted,       \* how often SES took the email
    messageId       \* what send_email returned, 0 while it has not

taskVars == <<pc, attempts, messageId>>
wireVars == <<wire, open, copy, error>>
vars == <<taskVars, wireVars, late, accepted>>

Answered == {"ok", "err"}
MaxCopies == (MaxRetries + 1) * WireAttempts

TypeOK ==
    /\ pc \in [Emails -> {"idle", "call", "backoff"} \cup Answered]
    /\ attempts \in [Emails -> 0 .. MaxRetries]
    /\ wire \in [Emails -> 0 .. WireAttempts]
    /\ open \in SUBSET Emails
    /\ copy \in [Emails -> Nat]
    /\ error \in [Emails -> {"none", "retryable", "fatal"}]
    /\ late \in [Emails -> Nat]
    /\ accepted \in [Emails -> Nat]
    /\ messageId \in [Emails -> Nat]

Init ==
    /\ pc = [e \in Emails |-> "idle"]
    /\ attempts = [e \in Emails |-> 0]
    /\ wire = [e \in Emails |-> 0]
    /\ open = {}
    /\ copy = [e \in Emails |-> 0]
    /\ error = [e \in Emails |-> "none"]
    /\ late = [e \in Emails |-> 0]
    /\ accepted = [e \in Emails |-> 0]
    /\ messageId = [e \in Emails |-> 0]

-----------------------------------------------------------------------------
(* The SDK and SES.                                                        *)

\* The SDK sends the request of a call, or repeats it after a failure.
HttpRequest(e) ==
    /\ pc[e] = "call" /\ e \notin open /\ wire[e] < WireAttempts
    /\ open' = open \cup {e}
    /\ wire' = [wire EXCEPT ![e] = @ + 1]
    /\ copy' = [copy EXCEPT ![e] = 0]
    /\ UNCHANGED <<taskVars, error, late, accepted>>

SesTakes(e) ==
    /\ e \in open /\ copy[e] = 0
    /\ accepted' = [accepted EXCEPT ![e] = @ + 1]
    /\ copy' = [copy EXCEPT ![e] = accepted[e] + 1]
    /\ UNCHANGED <<taskVars, wire, open, error, late>>

\* SES answers that it did not take the email, throttled or another error;
\* a request the SDK could not even dispatch looks the same.
SesRefuses(e) ==
    /\ e \in open /\ copy[e] = 0
    /\ open' = open \ {e}
    /\ \E err \in {"retryable", "fatal"} : error' = [error EXCEPT ![e] = err]
    /\ UNCHANGED <<taskVars, wire, copy, late, accepted>>

\* A timeout, a broken connection (retryable) or an answer that cannot be
\* read (fatal): whether SES took the email is not known.
NoAnswer(e) ==
    /\ e \in open
    /\ open' = open \ {e}
    /\ \E err \in {"retryable", "fatal"} : error' = [error EXCEPT ![e] = err]
    /\ late' = [late EXCEPT ![e] = IF copy[e] = 0 THEN @ + 1 ELSE @]
    /\ UNCHANGED <<taskVars, wire, copy, accepted>>

\* An abandoned request is taken after all, or lost.
LateRequest(e) ==
    /\ late[e] > 0
    /\ late' = [late EXCEPT ![e] = @ - 1]
    /\ accepted' \in {accepted, [accepted EXCEPT ![e] = @ + 1]}
    /\ UNCHANGED <<taskVars, wireVars>>

-----------------------------------------------------------------------------
(* The loop of send_email.                                                 *)
Start(e) ==
    /\ pc[e] = "idle"
    /\ pc' = [pc EXCEPT ![e] = "call"]
    /\ UNCHANGED <<attempts, messageId, wireVars, late, accepted>>

\* Mutant: any call that came to an end counts as a success.
ReturnOkUnchecked(e) ==
    /\ pc[e] = "call" /\ wire[e] > 0 /\ open' = open \ {e}
    /\ pc' = [pc EXCEPT ![e] = "ok"]
    /\ messageId' = [messageId EXCEPT ![e] = copy[e]]
    /\ UNCHANGED <<attempts, wire, copy, error, late, accepted>>

ReturnOk(e) ==
    /\ pc[e] = "call" /\ e \in open /\ copy[e] > 0
    /\ pc' = [pc EXCEPT ![e] = "ok"]
    /\ messageId' = [messageId EXCEPT ![e] = copy[e]]
    /\ open' = open \ {e}
    /\ UNCHANGED <<attempts, wire, copy, error, late, accepted>>

\* Mutant: the answer to the request is not waited for.
CallAbandoned(e) == pc[e] = "call" /\ wire[e] > 0

CallFailed(e) == pc[e] = "call" /\ e \notin open /\ wire[e] > 0

\* Mutant: the comparison of attempts with MAX_RETRIES is off by one.
MayRetryOnceMore(e) == error[e] = "retryable" /\ attempts[e] <= MaxRetries

MayRetry(e) == error[e] = "retryable" /\ attempts[e] < MaxRetries

\* attempts += 1, then the sleep.
Retry(e) ==
    /\ CallFailed(e) /\ MayRetry(e)
    /\ attempts' = [attempts EXCEPT ![e] = @ + 1]
    /\ pc' = [pc EXCEPT ![e] = "backoff"]
    /\ UNCHANGED <<messageId, wireVars, late, accepted>>

\* Mutant: the task never comes back from its sleep.
NeverCallAgain(e) == pc[e] = "backoff" /\ UNCHANGED vars

CallAgain(e) ==
    /\ pc[e] = "backoff"
    /\ pc' = [pc EXCEPT ![e] = "call"]
    /\ wire' = [wire EXCEPT ![e] = 0]
    /\ error' = [error EXCEPT ![e] = "none"]
    /\ UNCHANGED <<attempts, messageId, open, copy, late, accepted>>

\* Mutant: giving up is reported as a success.
ReturnErrAsOk(e) ==
    /\ CallFailed(e) /\ ~MayRetry(e)
    /\ pc' = [pc EXCEPT ![e] = "ok"]
    /\ UNCHANGED <<attempts, messageId, wireVars, late, accepted>>

ReturnErr(e) ==
    /\ CallFailed(e) /\ ~MayRetry(e)
    /\ pc' = [pc EXCEPT ![e] = "err"]
    /\ UNCHANGED <<attempts, messageId, wireVars, late, accepted>>

-----------------------------------------------------------------------------
WireStep(e) == HttpRequest(e) \/ SesTakes(e) \/ SesRefuses(e) \/ NoAnswer(e)
Return(e) == ReturnOk(e) \/ ReturnErr(e)
TaskStep(e) == Return(e) \/ Retry(e) \/ CallAgain(e)

Next == \E e \in Emails : Start(e) \/ WireStep(e) \/ LateRequest(e) \/ TaskStep(e)

Spec == Init /\ [][Next]_vars

(* tokio wakes a task that can go on, the sleep ends, and every HTTP       *)
(* request ends in an answer or an error.                                  *)
FairSpec == Spec /\ \A e \in Emails : WF_vars(WireStep(e) \/ TaskStep(e))

-----------------------------------------------------------------------------
(* A row is marked Sent with a message id only for a copy SES has taken.   *)
SentIsTraceable == \A e \in Emails : pc[e] = "ok" => messageId[e] \in 1 .. accepted[e]

(* The recipient gets a bounded number of copies, those included that are  *)
(* still under way when the task has given up.                             *)
CopiesBounded == \A e \in Emails : accepted[e] + late[e] <= MaxCopies

(* What the proofs add: how many copies the calls so far account for, and  *)
(* that nothing is on its way to SES that the task does not know of.       *)
Unseen(e) == IF e \in open /\ copy[e] = 0 THEN 1 ELSE 0

CopiesCounted(e) ==
    /\ accepted[e] + late[e] + Unseen(e)
          <= attempts[e] * WireAttempts + (IF pc[e] = "backoff" THEN 0 ELSE wire[e])
    /\ copy[e] <= accepted[e]

IInv ==
    /\ TypeOK
    /\ \A e \in Emails :
          /\ pc[e] # "call" => e \notin open
          /\ pc[e] = "idle" => wire[e] = 0 /\ attempts[e] = 0
          /\ pc[e] = "ok" => messageId[e] \in 1 .. accepted[e]
          /\ CopiesCounted(e)

(* Once it has an answer the loop asks SES for nothing more: copies that   *)
(* come later are only those that were under way.                          *)
NothingNewAfterAnswer ==
    [][\A e \in Emails : pc[e] \in Answered =>
          accepted'[e] + late'[e] <= accepted[e] + late[e]]_vars

(* Every send comes to an answer, so its permit comes free.                *)
EverySendReturns == \A e \in Emails : pc[e] = "call" ~> pc[e] \in Answered

(* What the caller can rely on is AtLeastOnce.                             *)
Promise == INSTANCE AtLeastOnce WITH
    asked <- {e \in Emails : pc[e] # "idle"},
    copies <- accepted,
    answer <- [e \in Emails |-> CASE pc[e] = "ok" -> "sent"
                                  [] pc[e] = "err" -> "failed"
                                  [] OTHER -> "none"],
    receipt <- messageId

KeepsPromise == Promise!Spec
=============================================================================
