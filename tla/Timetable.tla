----------------------------- MODULE Timetable -----------------------------
(***************************************************************************)
(* When an email goes out and how it is counted: scheduled_at, which       *)
(* clients write in Korean time and the table holds in UTC, the pace at    *)
(* which the scheduler claims due rows and forwards them, and the count of *)
(* emails sent in the last hours, by created_at.                           *)
(*                                                                         *)
(* Time is a number, whatever the unit; "now" is UTC.  It passes while the *)
(* scheduler sleeps, while it waits for the database and while the send    *)
(* channel has no room for the next claimed row.  Restarts, stopped topics *)
(* and failed sends are in Pipeline.                                       *)
(***************************************************************************)
EXTENDS Integers, FiniteSets

CONSTANTS
    Requests,
    KstOffset,      \* 9 hours
    KstTimes,       \* times clients ask for, in Korean time
    IdleDelay,      \* IDLE_DELAY_SECS
    BatchDelay,     \* BATCH_DELAY_MS
    ClaimLimit,     \* BATCH_SIZE
    ErrorDelay,     \* ERROR_BACKOFF_SECS
    EmptyPolls,     \* 5: more empty polls in a row than that double the delay
    Start,          \* the time when the service starts
    MaxTime,        \* last time explored (bounds the model only)
    MaxFaults       \* failing polls explored (bounds the model only)

ASSUME DelayAssumption ==
    /\ {IdleDelay, BatchDelay, ErrorDelay} \subseteq Nat \ {0}
    /\ BatchDelay <= IdleDelay /\ ErrorDelay <= 2 * IdleDelay
    /\ ClaimLimit \in Nat \ {0} /\ IsFiniteSet(Requests)
    /\ EmptyPolls \in Nat /\ MaxFaults \in Nat
ASSUME TimeAssumption ==
    Start \in Int /\ MaxTime \in Int /\ KstOffset \in Nat /\ KstTimes \subseteq Int

VARIABLES
    now,
    status,         \* of each row, "Absent" before it is inserted
    scheduledAt,    \* scheduled_at of each row
    createdAt,      \* created_at of each row
    wanted,         \* history: the Korean time the client gave, or the empty
                    \* set if it gave none or one that cannot be read
    sentAt,         \* history: when SES took the email
    sleep,          \* what is left of the scheduler's sleep
    claimed,        \* rows claimed and not yet in the send channel
    empty,          \* consecutive_empty
    faults,         \* polls that failed so far
    passed,         \* history: claims that left each row, due, behind
    held            \* history: what else kept each due row: back-offs, and
                    \* time the scheduler neither slept nor polled

rowVars == <<status, scheduledAt, createdAt, wanted, sentAt>>
pollVars == <<sleep, claimed, empty, faults>>
vars == <<now, rowVars, pollVars, passed, held>>

TypeOK ==
    /\ now \in Int
    /\ status \in [Requests -> {"Absent", "Created", "Processed", "Sent"}]
    /\ scheduledAt \in [Requests -> Int]
    /\ createdAt \in [Requests -> Int]
    /\ wanted \in [Requests -> SUBSET KstTimes]
    /\ sentAt \in [Requests -> Int]
    /\ sleep \in Nat
    /\ claimed \in SUBSET Requests
    /\ empty \in 0 .. EmptyPolls + 1
    /\ faults \in 0 .. MaxFaults
    /\ passed \in [Requests -> Nat]
    /\ held \in [Requests -> Nat]

Init ==
    /\ now = Start
    /\ status = [r \in Requests |-> "Absent"]
    /\ scheduledAt = [r \in Requests |-> Start]
    /\ createdAt = [r \in Requests |-> Start]
    /\ wanted = [r \in Requests |-> {}]
    /\ sentAt = [r \in Requests |-> Start]
    /\ sleep = 0 /\ claimed = {} /\ empty = 0 /\ faults = 0
    /\ passed = [r \in Requests |-> 0] /\ held = [r \in Requests |-> 0]

-----------------------------------------------------------------------------
\* Mutant: the time is converted to UTC twice.
ParseTwice(w) == IF w = {} THEN {now} ELSE {s - 2 * KstOffset : s \in w}

\* parse_scheduled_at: no time and a time it cannot read both mean now.
ParseScheduledAt(w) == IF w = {} THEN {now} ELSE {s - KstOffset : s \in w}

\* create_message with save_batch.  Any text in scheduled_at, readable or
\* not, makes the row Created; without one it is queued at once.
Create(r, st, w) ==
    /\ status[r] = "Absent"
    /\ st = "Processed" => w = {}
    /\ status' = [status EXCEPT ![r] = st]
    /\ \E t \in ParseScheduledAt(w) : scheduledAt' = [scheduledAt EXCEPT ![r] = t]
    /\ createdAt' = [createdAt EXCEPT ![r] = now]
    /\ wanted' = [wanted EXCEPT ![r] = w]
    /\ UNCHANGED <<now, sentAt, pollVars, passed, held>>

Claimable == {r \in Requests : status[r] = "Created" /\ scheduledAt[r] <= now}

\* What one claim may take: the limit is reached or nothing due is left.
Limited(S) == Cardinality(S) <= ClaimLimit /\ (S # Claimable => Cardinality(S) = ClaimLimit)

\* Mutant: the order of the claim is dropped.
BatchesInAnyOrder == {S \in SUBSET Claimable : Limited(S)}

\* The rows a claim takes: up to the limit, the earliest scheduled first.
Batches ==
    {S \in SUBSET Claimable : /\ Limited(S)
                             /\ \A r \in S, q \in Claimable \ S : scheduledAt[r] <= scheduledAt[q]}

\* Mutant: the delay grows with every empty poll.
DelayDoubling(n) == IF n > EmptyPolls THEN IdleDelay * (n + 1) ELSE IdleDelay

\* The count goes on in the code and is compared only.
EmptyDelay(n) == IF n > EmptyPolls THEN IdleDelay * 2 ELSE IdleDelay

Polls == sleep = 0 /\ claimed = {}

\* Every row of R is kept waiting for d more.
Keep(R, d) == held' = [r \in Requests |-> IF r \in R THEN held[r] + d ELSE held[r]]

\* The poll returns an error; consecutive_empty stays.
BackOff ==
    /\ faults < MaxFaults /\ faults' = faults + 1
    /\ sleep' = ErrorDelay
    /\ UNCHANGED <<now, scheduledAt, createdAt, wanted, sentAt, claimed, empty, passed>>

PollEmpty ==
    /\ Polls /\ Claimable = {}
    /\ empty' = IF empty > EmptyPolls THEN empty ELSE empty + 1
    /\ sleep' = EmptyDelay(empty')
    /\ UNCHANGED <<now, rowVars, claimed, faults, passed, held>>

MarkProcessed(S) == status' = [r \in Requests |-> IF r \in S THEN "Processed" ELSE status[r]]

\* The claim and the JOIN that fetches the contents succeed.
Claim ==
    /\ Polls
    /\ \E S \in Batches \ {{}} :
          /\ MarkProcessed(S)
          /\ claimed' = S
          /\ passed' = [r \in Requests |-> IF r \in Claimable \ S THEN passed[r] + 1 ELSE passed[r]]
    /\ UNCHANGED <<now, scheduledAt, createdAt, wanted, sentAt, sleep, empty, faults, held>>

\* The JOIN fails after the claim: the rows stay Processed, nobody has them.
ClaimThenFail ==
    /\ Polls
    /\ \E S \in Batches \ {{}} : MarkProcessed(S) /\ Keep(Claimable \ S, ErrorDelay)
    /\ BackOff

PollFails == Polls /\ Keep(Claimable, ErrorDelay) /\ UNCHANGED status /\ BackOff

\* send().await: the channel takes the row; after the last one, a pause.
Forward(r) ==
    /\ r \in claimed
    /\ claimed' = claimed \ {r}
    /\ IF claimed = {r} THEN empty' = 0 /\ sleep' = BatchDelay
                        ELSE UNCHANGED <<empty, sleep>>
    /\ UNCHANGED <<now, rowVars, faults, passed, held>>

\* The pipeline sends the email sooner or later, or never does.
Send(r) ==
    /\ status[r] = "Processed" /\ r \notin claimed
    /\ status' = [status EXCEPT ![r] = "Sent"]
    /\ sentAt' = [sentAt EXCEPT ![r] = now]
    /\ UNCHANGED <<now, scheduledAt, createdAt, wanted, pollVars, passed, held>>

\* Time passes: of the sleep, or while the scheduler waits for the database
\* or for room in the channel.
Tick ==
    /\ now < MaxTime
    /\ now' = now + 1
    /\ IF sleep > 0 THEN sleep' = sleep - 1 /\ UNCHANGED held
                    ELSE Keep(Claimable, 1) /\ UNCHANGED sleep
    /\ UNCHANGED <<rowVars, claimed, empty, faults, passed>>

KstInputs == {{}} \cup {{s} : s \in KstTimes}

Next ==
    \/ \E r \in Requests : \/ Send(r)
                           \/ \E st \in {"Created", "Processed"}, w \in KstInputs : Create(r, st, w)
                           \/ Forward(r)
    \/ PollEmpty \/ Claim \/ ClaimThenFail \/ PollFails \/ Tick

Spec == Init /\ [][Next]_vars

\* sent_count: the rows it counts for a window of that many hours.
SentCountRows(hours) ==
    {r \in Requests : status[r] = "Sent" /\ createdAt[r] >= now - hours}

-----------------------------------------------------------------------------
(* A scheduled email does not leave before the Korean time its client gave.*)
NotBeforeKst ==
    \A r \in Requests :
       status[r] = "Sent" => \A s \in wanted[r] : sentAt[r] + KstOffset >= s

DueSince(r) == IF scheduledAt[r] > createdAt[r] THEN scheduledAt[r] ELSE createdAt[r]

(* A due row is claimed within twice the idle delay of the time it was     *)
(* due, plus a back-off for every poll that failed meanwhile, a pause for  *)
(* every full claim that left it behind, and the time the scheduler spent  *)
(* waiting for the database or for room in the send channel.  (It is not   *)
(* once the idle delay, the 10 seconds README.en.md:153 speaks of: after   *)
(* six empty polls in a row the scheduler sleeps twice as long.)           *)
ClaimedInTime ==
    \A r \in Requests : status[r] = "Created" =>
       now - DueSince(r) <= 2 * IdleDelay + held[r] + passed[r] * BatchDelay

Ahead(r) ==
    {q \in Requests : status[q] \in {"Processed", "Sent"} /\ scheduledAt[q] <= scheduledAt[r]}

(* A row is left behind only for rows scheduled no later than itself, and  *)
(* only by full claims: however many emails are due, a later one never     *)
(* overtakes it, so a backlog delays it by its own share and no more.      *)
LeftForEarlier == \A r \in Requests : passed[r] * ClaimLimit <= Cardinality(Ahead(r))

(* sent_count says it counts the emails sent in the last hours.            *)
SentAreCounted ==
    \A hours \in 1 .. MaxTime - Start, r \in Requests :
       status[r] = "Sent" /\ sentAt[r] >= now - hours => r \in SentCountRows(hours)
=============================================================================
