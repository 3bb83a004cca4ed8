---------------------------- MODULE RateLimiter ----------------------------
(***************************************************************************)
(* The rate limiter of receive_send_message: the token bucket the sender   *)
(* takes from before each email, the task that refills it every 100 ms,    *)
(* and the semaphore that bounds the emails being sent.                    *)
(*                                                                         *)
(* Time is counted in ticks of the refill task.  The clock that decides    *)
(* between refill and reset is the wall clock.  It need not advance by one *)
(* tick from one tick to the next: it can be set forward or back, and when *)
(* the task was stalled the interval catches up with ticks at no distance  *)
(* from each other.  Such irregular ticks are counted in adjustments.      *)
(***************************************************************************)
EXTENDS Integers

CONSTANTS
    MaxPerSec,      \* MAX_SEND_PER_SECOND, at least 1
    TicksPerSec,    \* 1000 ms / TOKEN_REFILL_INTERVAL_MS
    ClockSteps,     \* by how much the clock is off one tick at an irregular tick
    MaxAdjustments  \* how many of those are explored (bounds the model only)

ASSUME RateAssumption == MaxPerSec \in Nat \ {0} /\ TicksPerSec \in Nat \ {0}
ASSUME ClockAssumption == ClockSteps \subseteq Int /\ MaxAdjustments \in Nat

Refill == (MaxPerSec + TicksPerSec - 1) \div TicksPerSec    \* max_per_sec.div_ceil(10)
Permits == 2 * MaxPerSec

VARIABLES
    tokens,         \* TokenBucket.tokens
    age,            \* wall-clock ticks since last_refill_ms at the last tick
    refiller,       \* "sleep", or "notify" between the store and notify_waiters
    sender,         \* where receive_send_message is
    inflight,       \* permits held by send tasks
    adjustments,    \* irregular ticks so far
    refills,        \* history: refills since the last reset
    spent           \* history: tokens taken since the last reset

vars == <<tokens, age, refiller, sender, inflight, adjustments, refills, spent>>

TypeOK ==
    /\ tokens \in 0 .. MaxPerSec
    /\ age \in Int
    /\ refiller \in {"sleep", "notify"}
    /\ sender \in {"recv", "try", "register", "wait", "permit"}
    /\ inflight \in 0 .. Permits
    /\ adjustments \in Nat
    /\ refills \in Nat
    /\ spent \in Nat

\* An interval's first tick comes at once, when no time has passed.
Init ==
    /\ tokens = MaxPerSec
    /\ age = -1
    /\ refiller = "sleep"
    /\ sender = "recv"
    /\ inflight = 0
    /\ adjustments = 0
    /\ refills = 0
    /\ spent = 0

-----------------------------------------------------------------------------
(* The sender: recv, acquire (try_acquire, else notified().await), permit. *)
Recv ==
    /\ sender = "recv"
    /\ sender' = "try"
    /\ UNCHANGED <<tokens, age, refiller, inflight, adjustments, refills, spent>>

TryAcquire ==
    /\ sender = "try"
    /\ \/ /\ tokens > 0
          /\ tokens' = tokens - 1
          /\ spent' = spent + 1
          /\ sender' = "permit"
       \/ /\ tokens = 0
          /\ sender' = "register"
          /\ UNCHANGED <<tokens, spent>>
    /\ UNCHANGED <<age, refiller, inflight, adjustments, refills>>

\* notified() is created: notifications from before it are not seen.
Register ==
    /\ sender = "register"
    /\ sender' = "wait"
    /\ UNCHANGED <<tokens, age, refiller, inflight, adjustments, refills, spent>>

AcquirePermit ==
    /\ sender = "permit" /\ inflight < Permits
    /\ inflight' = inflight + 1
    /\ sender' = "recv"
    /\ UNCHANGED <<tokens, age, refiller, adjustments, refills, spent>>

\* Mutant: the permit is not dropped with the task.
CompleteKeepsPermit == inflight > 0 /\ UNCHANGED vars

\* A send task ends and drops its permit.
Complete ==
    /\ inflight > 0
    /\ inflight' = inflight - 1
    /\ UNCHANGED <<tokens, age, refiller, sender, adjustments, refills, spent>>

-----------------------------------------------------------------------------
(* The refill task.                                                        *)
DoReset ==
    /\ tokens' = MaxPerSec
    /\ age' = 0
    /\ refills' = 0
    /\ spent' = 0

\* Mutants: a refill without its cap, and one that fills the bucket.
DoRefillUncapped(now) ==
    /\ tokens' = tokens + Refill
    /\ age' = now
    /\ refills' = refills + 1
    /\ UNCHANGED spent

DoRefillToMax(now) ==
    /\ tokens' = MaxPerSec
    /\ age' = now
    /\ refills' = refills + 1
    /\ UNCHANGED spent

DoRefill(now) ==
    /\ tokens' = IF tokens + Refill < MaxPerSec THEN tokens + Refill ELSE MaxPerSec
    /\ age' = now
    /\ refills' = refills + 1
    /\ UNCHANGED spent

\* Mutant: the reset comes a tick late.
WakeLate(now) ==
    /\ \/ now >= TicksPerSec + 1 /\ DoReset
       \/ now <= TicksPerSec + 1 /\ DoRefill(now)
    /\ refiller' = "notify"
    /\ UNCHANGED <<sender, inflight>>

\* The tick that falls one second after the last reset may see 999 or
\* 1000 ms; saturating_sub makes a clock that was set back count as 0.
Wake(now) ==
    /\ \/ now >= TicksPerSec /\ DoReset
       \/ now <= TicksPerSec /\ DoRefill(now)
    /\ refiller' = "notify"
    /\ UNCHANGED <<sender, inflight>>

Tick ==
    /\ refiller = "sleep"
    /\ \/ Wake(age + 1) /\ UNCHANGED adjustments
       \/ \E d \in ClockSteps :
             /\ adjustments < MaxAdjustments
             /\ adjustments' = adjustments + 1
             /\ Wake(age + 1 + d)

\* Mutant: nobody is woken.
NotifyNobody ==
    /\ refiller = "notify"
    /\ refiller' = "sleep"
    /\ UNCHANGED <<tokens, age, sender, inflight, adjustments, refills, spent>>

\* notify_waiters wakes the sender if it has registered, and leaves nothing
\* behind for one that has not; it runs whether or not a token was added.
NotifyWaiters ==
    /\ refiller = "notify"
    /\ refiller' = "sleep"
    /\ sender' = IF sender = "wait" THEN "try" ELSE sender
    /\ UNCHANGED <<tokens, age, inflight, adjustments, refills, spent>>

-----------------------------------------------------------------------------
SenderStep == TryAcquire \/ Register \/ AcquirePermit
Next == Recv \/ SenderStep \/ Complete \/ Tick \/ NotifyWaiters

Spec == Init /\ [][Next]_vars

(* The runtime runs both tasks, the interval fires for ever and every call *)
(* to SES ends.  Whether there is an email to send is up to the clients.   *)
FairSpec == Spec /\ WF_vars(SenderStep) /\ WF_vars(Tick) /\ WF_vars(NotifyWaiters)
                 /\ WF_vars(Complete)

-----------------------------------------------------------------------------
(* Tokens are not minted: what is in the bucket and what was taken since   *)
(* the last reset never exceeds the full bucket plus the refills, however  *)
(* try_acquire, refill, reset and clock adjustments interleave.            *)
Budget == tokens + spent <= MaxPerSec + refills * Refill

(* As long as the ticks are regular, the tokens taken from one reset to    *)
(* the next are at most a full bucket and the refills of a second, one     *)
(* more than TicksPerSec because a tick can fall on either end of it.      *)
RateBound == adjustments = 0 => spent <= MaxPerSec + (TicksPerSec + 1) * Refill

(* The sender is not left waiting: a notification that falls between the   *)
(* failed try and the registration is lost, and the next one comes anyway. *)
TokenEventually == sender \in {"try", "register", "wait"} ~> sender = "permit"

(* The sender with a token gets a permit, even if it finds none free.      *)
PermitEventually == sender = "permit" ~> sender = "recv"

(* "Maximum sends per second" (README.en.md, MAX_SEND_PER_SECOND): in the  *)
(* second that follows a reset no more than that many emails go out.       *)
SendsPerSecond == refills < TicksPerSec => spent <= MaxPerSec
=============================================================================
