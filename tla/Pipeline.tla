------------------------------ MODULE Pipeline ------------------------------
(***************************************************************************)
(* The tasks of the service and the two channels between them: the HTTP    *)
(* handlers that store messages and queue them, the scheduler that claims  *)
(* stored rows when they are due, the sender with the tasks it spawns, and *)
(* the post-processor that writes the answers back.                        *)
(*                                                                         *)
(*   handlers --\                                        email_requests    *)
(*               >-- sendCh --> sender --> send tasks        ^             *)
(*   scheduler -/                             |              |             *)
(*                                            +-- postCh --> post-processor*)
(*                                                                         *)
(* A request is the id of its row: the pipeline moves ids and statuses and *)
(* never looks at addresses or bodies.  How long the sender waits for a    *)
(* token of the rate limiter is the subject of RateLimiter; here only the  *)
(* semaphore holds it back.                                                *)
(*                                                                         *)
(* Both channels stay open as long as the process lives: the sender's loop *)
(* and the post-processor's end only when their channels or the semaphore  *)
(* are closed, and nothing closes these while main, the scheduler and the  *)
(* sender hold them.  So the code's branches for a closed channel          *)
(* (ChannelClosed, rollback_to_created and the last flush among them) are  *)
(* steps the program cannot take, and are none here.                       *)
(***************************************************************************)
EXTENDS Naturals, Sequences, FiniteSets, Functions

CONSTANTS
    Requests,       \* the rows clients may ever ask for
    Handlers,       \* HTTP requests served at the same time
    Topics,
    TopicOf,        \* the topic each request is submitted under
    SendBuffer,     \* SEND_CHANNEL_BUFFER
    PostBuffer,     \* POST_SEND_CHANNEL_BUFFER
    Permits,        \* of the semaphore: 2 * MAX_SEND_PER_SECOND
    FlushSize,      \* BATCH_SIZE of receiver.rs
    ClaimLimit,     \* BATCH_SIZE of scheduler.rs
    Disruptions,    \* the kinds of disruption the environment may cause
    MaxDisruptions  \* and how many of them (bounds the model only)

DisruptionKinds == {"db", "disconnect", "shutdown", "crash"}

ASSUME RequestsAssumption == IsFiniteSet(Requests)
ASSUME TopicAssumption == TopicOf \in [Requests -> Topics]
ASSUME SizeAssumption ==
    /\ {SendBuffer, PostBuffer, Permits, FlushSize, ClaimLimit} \subseteq Nat \ {0}
    /\ MaxDisruptions \in Nat
    /\ Disruptions \subseteq DisruptionKinds

VARIABLES
    status,         \* the table email_requests, column status
    due,            \* the rows whose scheduled_at has passed
    outcome,        \* history: what SES answered for a row
    sends,          \* history: how often send_email was called for a row
    hpc,            \* where each handler is
    pending,        \* per handler: saved requests it has still to queue
    held,           \* per handler: the request inside its blocking send
    spc,            \* where the scheduler is
    claimed,        \* the rows of its batch not yet forwarded
    sendCh,         \* the channel of requests to send
    inHand,         \* the request the sender waits to spawn a task for
    calling,        \* requests whose task is inside send_email
    reporting,      \* results whose task is inside its send to postCh
    postCh,         \* the channel of results
    ppc,            \* where the post-processor is
    batch,          \* the results it has not flushed
    phase,          \* "serving", "draining" (shutdown requested), "closed"
    disruptions     \* how many disruptions there have been

tableVars == <<status, due>>
history == <<outcome, sends>>
handlerVars == <<hpc, pending, held>>
schedulerVars == <<spc, claimed>>
senderVars == <<inHand, calling, reporting>>
postVars == <<postCh, ppc, batch>>
vars == <<tableVars, history, handlerVars, schedulerVars, sendCh, senderVars,
          postVars, phase, disruptions>>

Statuses == {"Absent", "Created", "Processed", "Sent", "Failed", "Stopped"}
Results == [req : Requests, status : {"Sent", "Failed"}]
Reqs(M) == {m.req : m \in M}

TypeOK ==
    /\ status \in [Requests -> Statuses]
    /\ due \in SUBSET Requests
    /\ outcome \in [Requests -> {"None", "Sent", "Failed"}]
    /\ sends \in [Requests -> Nat]
    /\ hpc \in [Handlers -> {"idle", "saved", "queueing", "blocked"}]
    /\ pending \in [Handlers -> SUBSET Requests]
    /\ held \in [Handlers -> SUBSET Requests]
    /\ spc \in {"poll", "fetch", "forward"}
    /\ claimed \in SUBSET Requests
    /\ sendCh \in Seq(Requests)
    /\ inHand \in SUBSET Requests
    /\ calling \in SUBSET Requests
    /\ reporting \in SUBSET Results
    /\ postCh \in Seq(Results)
    /\ ppc \in {"recv", "flush", "fallback"}
    /\ batch \in SUBSET Results
    /\ phase \in {"serving", "draining", "closed"}
    /\ disruptions \in Nat

Init ==
    /\ status = [r \in Requests |-> "Absent"]
    /\ due = {}
    /\ outcome = [r \in Requests |-> "None"]
    /\ sends = [r \in Requests |-> 0]
    /\ hpc = [h \in Handlers |-> "idle"]
    /\ pending = [h \in Handlers |-> {}]
    /\ held = [h \in Handlers |-> {}]
    /\ spc = "poll" /\ claimed = {}
    /\ sendCh = <<>> /\ inHand = {}
    /\ calling = {} /\ reporting = {}
    /\ postCh = <<>> /\ ppc = "recv" /\ batch = {}
    /\ phase = "serving"
    /\ disruptions = 0

-----------------------------------------------------------------------------
Disrupt(kind) ==
    /\ kind \in Disruptions
    /\ disruptions < MaxDisruptions
    /\ disruptions' = disruptions + 1

\* A statement succeeds while the pool is open.
DbOk == phase # "closed" /\ UNCHANGED disruptions
\* It fails when the pool is closed, or the database has a fault.
DbErr == \/ phase = "closed" /\ UNCHANGED disruptions
         \/ phase # "closed" /\ Disrupt("db")

SetStatus(S, st) == [r \in Requests |-> IF r \in S THEN st ELSE status[r]]

-----------------------------------------------------------------------------
(* create_message.  The rows are inserted in one transaction; an insert    *)
(* that fails leaves no row and only shows in the response.  An HTTP       *)
(* request accepted before a shutdown may still insert while it drains.    *)
Saved(S, st) ==
    /\ \A r \in S : status[r] = "Absent"
    /\ status' = SetStatus(S, st)

CreateScheduled(h, S) ==
    /\ phase # "closed" /\ hpc[h] = "idle" /\ S # {}
    /\ Saved(S, "Created")
    /\ UNCHANGED <<due, history, handlerVars, schedulerVars, sendCh, senderVars,
                   postVars, phase, disruptions>>

CreateImmediate(h, S) ==
    /\ phase # "closed" /\ hpc[h] = "idle" /\ S # {}
    /\ Saved(S, "Processed")
    /\ due' = due \cup S
    /\ hpc' = [hpc EXCEPT ![h] = "saved"]
    /\ pending' = [pending EXCEPT ![h] = S]
    /\ UNCHANGED <<history, held, schedulerVars, sendCh, senderVars,
                   postVars, phase, disruptions>>

Queueing(h, r) == hpc[h] \in {"saved", "queueing"} /\ r \in pending[h]

TrySendOk(h, r) ==
    /\ Queueing(h, r)
    /\ Len(sendCh) < SendBuffer
    /\ sendCh' = Append(sendCh, r)
    /\ hpc' = [hpc EXCEPT ![h] = "queueing"]
    /\ pending' = [pending EXCEPT ![h] = @ \ {r}]
    /\ UNCHANGED <<tableVars, history, held, schedulerVars, senderVars,
                   postVars, phase, disruptions>>

\* Mutant: a request that finds the channel full is given up.
TrySendFullGivesUp(h, r) ==
    /\ Queueing(h, r)
    /\ Len(sendCh) >= SendBuffer
    /\ hpc' = [hpc EXCEPT ![h] = "queueing"]
    /\ pending' = [pending EXCEPT ![h] = @ \ {r}]
    /\ UNCHANGED <<tableVars, history, held, schedulerVars, sendCh, senderVars,
                   postVars, phase, disruptions>>

TrySendFull(h, r) ==
    /\ Queueing(h, r)
    /\ Len(sendCh) >= SendBuffer
    /\ hpc' = [hpc EXCEPT ![h] = "blocked"]
    /\ pending' = [pending EXCEPT ![h] = @ \ {r}]
    /\ held' = [held EXCEPT ![h] = {r}]
    /\ UNCHANGED <<tableVars, history, schedulerVars, sendCh, senderVars,
                   postVars, phase, disruptions>>

BlockedSendOk(h, r) ==
    /\ hpc[h] = "blocked" /\ r \in held[h]
    /\ Len(sendCh) < SendBuffer
    /\ sendCh' = Append(sendCh, r)
    /\ hpc' = [hpc EXCEPT ![h] = "queueing"]
    /\ held' = [held EXCEPT ![h] = {}]
    /\ UNCHANGED <<tableVars, history, pending, schedulerVars, senderVars,
                   postVars, phase, disruptions>>

\* Mutant: the answer waits until no row is on its way any more.
RespondWhenSettled(h) ==
    /\ hpc[h] = "queueing" /\ pending[h] = {}
    /\ \A r \in Requests : status[r] # "Processed"
    /\ hpc' = [hpc EXCEPT ![h] = "idle"]
    /\ UNCHANGED <<tableVars, history, pending, held, schedulerVars, sendCh,
                   senderVars, postVars, phase, disruptions>>

Respond(h) ==
    /\ hpc[h] = "queueing" /\ pending[h] = {}
    /\ hpc' = [hpc EXCEPT ![h] = "idle"]
    /\ UNCHANGED <<tableVars, history, pending, held, schedulerVars, sendCh,
                   senderVars, postVars, phase, disruptions>>

\* The client goes away and the server drops the handler at the await it is in.
Disconnect(h) ==
    /\ hpc[h] \in {"saved", "blocked"}
    /\ Disrupt("disconnect")
    /\ hpc' = [hpc EXCEPT ![h] = "idle"]
    /\ pending' = [pending EXCEPT ![h] = {}]
    /\ held' = [held EXCEPT ![h] = {}]
    /\ UNCHANGED <<tableVars, history, schedulerVars, sendCh, senderVars, postVars, phase>>

\* Mutant: the UPDATE of stop_topic without its status condition.
AllOfTopic(t) == {r \in Requests : TopicOf[r] = t /\ status[r] # "Absent"}
Stoppable(t) == {r \in Requests : TopicOf[r] = t /\ status[r] = "Created"}

StopTopic(t) ==
    /\ phase # "closed"
    /\ status' = SetStatus(Stoppable(t), "Stopped")
    /\ UNCHANGED <<due, history, handlerVars, schedulerVars, sendCh, senderVars,
                   postVars, phase, disruptions>>

-----------------------------------------------------------------------------
(* The scheduler.  A statement that fails before the claim changes nothing. *)
\* Mutant: the claim takes up what an earlier claim left Processed.
ClaimableAgain == {r \in due : status[r] \in {"Created", "Processed"}}
Claimable == {r \in due : status[r] = "Created"}

\* UPDATE ... WHERE id IN (SELECT ... LIMIT) RETURNING: one statement.
Claim ==
    /\ spc = "poll" /\ DbOk
    /\ \E S \in SUBSET Claimable :
          /\ S # {}
          /\ \/ S = Claimable /\ Cardinality(S) <= ClaimLimit
             \/ S # Claimable /\ Cardinality(S) = ClaimLimit
          /\ status' = SetStatus(S, "Processed")
          /\ claimed' = S
    /\ spc' = "fetch"
    /\ UNCHANGED <<due, history, handlerVars, sendCh, senderVars, postVars, phase>>

\* Mutant: the loop ends with a batch it cannot fetch.
FetchContentsOrEnd ==
    /\ spc = "fetch"
    /\ \/ DbOk /\ spc' = "forward" /\ UNCHANGED claimed
       \/ DbErr /\ spc' = "stopped" /\ claimed' = {}
    /\ UNCHANGED <<tableVars, history, handlerVars, sendCh, senderVars, postVars, phase>>

\* The JOIN that fetches the contents; `?` gives the batch up when it fails.
FetchContents ==
    /\ spc = "fetch"
    /\ \/ DbOk /\ spc' = "forward" /\ UNCHANGED claimed
       \/ DbErr /\ spc' = "poll" /\ claimed' = {}
    /\ UNCHANGED <<tableVars, history, handlerVars, sendCh, senderVars, postVars, phase>>

Forward(r) ==
    /\ spc = "forward" /\ r \in claimed
    /\ Len(sendCh) < SendBuffer
    /\ sendCh' = Append(sendCh, r)
    /\ claimed' = claimed \ {r}
    /\ spc' = IF claimed' = {} THEN "poll" ELSE "forward"
    /\ UNCHANGED <<tableVars, history, handlerVars, senderVars, postVars,
                   phase, disruptions>>

-----------------------------------------------------------------------------
(* The sender and the tasks it spawns.                                     *)
Recv ==
    /\ inHand = {} /\ sendCh # <<>>
    /\ inHand' = {Head(sendCh)}
    /\ sendCh' = Tail(sendCh)
    /\ UNCHANGED <<tableVars, history, handlerVars, schedulerVars, calling,
                   reporting, postVars, phase, disruptions>>

FreePermits == Permits - (Cardinality(calling) + Cardinality(reporting))

\* A permit is free: the task takes it and holds it until its report is queued.
Spawn ==
    /\ inHand # {}
    /\ FreePermits > 0
    /\ calling' = calling \cup inHand
    /\ inHand' = {}
    /\ UNCHANGED <<tableVars, history, handlerVars, schedulerVars, sendCh,
                   reporting, postVars, phase, disruptions>>

\* send_email answers, after whatever retries it makes.
SendEmail(r, answer) ==
    /\ r \in calling
    /\ calling' = calling \ {r}
    /\ reporting' = reporting \cup {[req |-> r, status |-> answer]}
    /\ outcome' = [outcome EXCEPT ![r] = answer]
    /\ sends' = [sends EXCEPT ![r] = @ + 1]
    /\ UNCHANGED <<tableVars, handlerVars, schedulerVars, sendCh, inHand,
                   postVars, phase, disruptions>>

Report(m) ==
    /\ m \in reporting
    /\ Len(postCh) < PostBuffer
    /\ postCh' = Append(postCh, m)
    /\ reporting' = reporting \ {m}
    /\ UNCHANGED <<tableVars, history, handlerVars, schedulerVars, sendCh,
                   inHand, calling, ppc, batch, phase, disruptions>>

-----------------------------------------------------------------------------
(* The post-processor.                                                     *)
FlushDue(B) == Cardinality(B) >= FlushSize

\* A result arrives; below FlushSize it is the clock (last_flush) that says
\* whether the batch is flushed with it.
PostRecv ==
    /\ ppc = "recv" /\ postCh # <<>>
    /\ batch' = batch \cup {Head(postCh)}
    /\ postCh' = Tail(postCh)
    /\ \/ ppc' = "flush"
       \/ ~FlushDue(batch') /\ UNCHANGED ppc
    /\ UNCHANGED <<tableVars, history, handlerVars, schedulerVars, sendCh, senderVars,
                   phase, disruptions>>

NoTimeout == FALSE                 \* mutant: only an arrival flushes

\* Nothing arrives for a while and the flush interval is over.
PostTimeout ==
    /\ ppc = "recv" /\ postCh = <<>> /\ batch # {}
    /\ ppc' = "flush"
    /\ UNCHANGED <<tableVars, history, handlerVars, schedulerVars, sendCh, senderVars,
                   postCh, batch, phase, disruptions>>

\* CASE id WHEN ... : the first WHEN of an id counts.
MessageIdFor(r) == "message_id"                        \* mutant: the ids bound as statuses
AnyAnswer(r) == (CHOOSE m \in batch : TRUE).status     \* mutant: binds out of order
AnswerFor(r) == (CHOOSE m \in batch : m.req = r).status

BulkUpdate ==
    /\ ppc = "flush"
    /\ \/ /\ DbOk
          /\ status' = [r \in Requests |->
                          IF r \in Reqs(batch) THEN AnswerFor(r) ELSE status[r]]
          /\ batch' = {}
          /\ ppc' = "recv"
       \/ /\ DbErr
          /\ ppc' = "fallback"
          /\ UNCHANGED <<status, batch>>
    /\ UNCHANGED <<due, history, handlerVars, schedulerVars, sendCh, senderVars,
                   postCh, phase>>

\* fallback_individual_updates: one UPDATE per result; one that fails is
\* logged and forgotten.
UpdateOne(m) ==
    /\ ppc = "fallback" /\ m \in batch
    /\ \/ DbOk /\ status' = SetStatus({m.req}, m.status)
       \/ DbErr /\ UNCHANGED status
    /\ batch' = batch \ {m}
    /\ ppc' = IF batch' = {} THEN "recv" ELSE "fallback"
    /\ UNCHANGED <<due, history, handlerVars, schedulerVars, sendCh, senderVars,
                   postCh, phase>>

-----------------------------------------------------------------------------
(* Time, the end of the process, and its next start.                       *)
BecomeDue(r) ==
    /\ status[r] = "Created" /\ r \notin due
    /\ due' = due \cup {r}
    /\ UNCHANGED <<status, history, handlerVars, schedulerVars, sendCh, senderVars,
                   postVars, phase, disruptions>>

\* SIGTERM: no new HTTP requests, the ones being served are finished first.
Shutdown ==
    /\ phase = "serving" /\ Disrupt("shutdown")
    /\ phase' = "draining"
    /\ UNCHANGED <<tableVars, history, handlerVars, schedulerVars, sendCh, senderVars,
                   postVars>>

\* Mutant: main waits until what was claimed or queued is settled.
CloseDbWhenSettled ==
    /\ phase = "draining" /\ \A r \in Requests : status[r] # "Processed"
    /\ phase' = "closed"
    /\ UNCHANGED <<tableVars, history, handlerVars, schedulerVars, sendCh, senderVars,
                   postVars, disruptions>>

CloseDb ==
    /\ phase = "draining" /\ \A h \in Handlers : hpc[h] = "idle"
    /\ phase' = "closed"
    /\ UNCHANGED <<tableVars, history, handlerVars, schedulerVars, sendCh, senderVars,
                   postVars, disruptions>>

\* main returns once the pool is closed, or the process dies at any point;
\* nothing but the tables is there when it starts again.
Restart ==
    /\ \/ phase = "closed" /\ UNCHANGED disruptions
       \/ Disrupt("crash")
    /\ hpc' = [h \in Handlers |-> "idle"]
    /\ pending' = [h \in Handlers |-> {}]
    /\ held' = [h \in Handlers |-> {}]
    /\ spc' = "poll" /\ claimed' = {}
    /\ sendCh' = <<>> /\ inHand' = {}
    /\ calling' = {} /\ reporting' = {}
    /\ postCh' = <<>> /\ ppc' = "recv" /\ batch' = {}
    /\ phase' = "serving"
    /\ UNCHANGED <<tableVars, history>>

-----------------------------------------------------------------------------
HandlerStep(h) ==
    \/ \E r \in Requests : TrySendOk(h, r) \/ TrySendFull(h, r) \/ BlockedSendOk(h, r)
    \/ Respond(h)

SchedulerStep ==
    Claim \/ FetchContents \/ \E r \in Requests : Forward(r)

SenderStep == Recv \/ Spawn

TaskStep(r) ==
    \/ \E answer \in {"Sent", "Failed"} : SendEmail(r, answer)
    \/ \E m \in reporting : m.req = r /\ Report(m)

PostStep ==
    \/ PostRecv \/ PostTimeout \/ BulkUpdate
    \/ \E m \in batch : UpdateOne(m)

Client ==
    \/ \E h \in Handlers :
          \/ \E S \in SUBSET Requests : CreateScheduled(h, S) \/ CreateImmediate(h, S)
          \/ Disconnect(h)
    \/ \E t \in Topics : StopTopic(t)

Next ==
    \/ Client
    \/ \E h \in Handlers : HandlerStep(h)
    \/ SchedulerStep
    \/ SenderStep
    \/ \E r \in Requests : TaskStep(r) \/ BecomeDue(r)
    \/ PostStep
    \/ Shutdown \/ CloseDb \/ Restart

Spec == Init /\ [][Next]_vars

(* The tokio runtime polls a task that is ready again and again, SES and   *)
(* the database answer, and time passes.  Nothing obliges clients, faults, *)
(* signals or the supervisor that restarts the process.                    *)
Fairness ==
    /\ \A h \in Handlers : WF_vars(HandlerStep(h))
    /\ WF_vars(SchedulerStep)
    /\ WF_vars(SenderStep)
    /\ \A r \in Requests : WF_vars(TaskStep(r)) /\ WF_vars(BecomeDue(r))
    /\ WF_vars(PostStep)
    /\ WF_vars(CloseDb)

FairSpec == Spec /\ Fairness

-----------------------------------------------------------------------------
(* Where a request can be in memory: on its way to SES, or on the way back *)
(* to its row.                                                             *)
HeldBy(h) == pending[h] \cup held[h]
WithHandlers == {r \in Requests : \E h \in Handlers : r \in HeldBy(h)}
Outbound == WithHandlers \cup claimed \cup Range(sendCh) \cup inHand \cup calling
Answered == reporting \cup Range(postCh) \cup batch
InFlight == Outbound \cup Reqs(Answered)

(* However claims, submissions, crashes, dropped handlers and failing      *)
(* statements interleave, send_email is called at most once for a row (the *)
(* schedule loop and create_message both put rows into the pipeline), and  *)
(* only once the row is due.                                               *)
AtMostOneSend == \A r \in Requests : sends[r] <= (IF r \in due THEN 1 ELSE 0)

(* A row that is Created or Stopped is nowhere in the pipeline and was not *)
(* sent: what stop_topic stopped stays unsent, whatever the scheduler and  *)
(* the handlers hold at that time.                                         *)
StoppedIsOut ==
    \A r \in Requests :
        status[r] \in {"Absent", "Created", "Stopped"} => r \notin InFlight /\ sends[r] = 0

(* As long as nothing disrupted the service, a row that says Processed is  *)
(* in somebody's hands: the scheduler reads only Created rows, so a        *)
(* Processed row that no task holds would never be sent or reported.       *)
NoOrphan ==
    disruptions = 0 => \A r \in Requests : status[r] = "Processed" => r \in InFlight

(* Nobody comes back for a row whose memory is gone (the process died, a   *)
(* handler was dropped, the batch was given up, an answer was not          *)
(* recorded): it stays Processed, and no task of this or a later life of   *)
(* the process sends it or takes it up again.  Its email may be with SES   *)
(* already, so taking it up could send it twice.                           *)
Orphans == {r \in Requests : status[r] = "Processed" /\ r \notin InFlight}
OrphansStayPut == [][\A r \in Orphans : r \in Orphans' /\ sends'[r] = sends[r]]_vars

(* The invariant behind these, in four parts.  The rows agree with where   *)
(* their requests are; ...                                                 *)
RowsAgree ==
    \A r \in Requests :
        /\ r \in Outbound => status[r] = "Processed" /\ outcome[r] = "None"
        /\ status[r] = "Processed" => r \in due
        /\ status[r] \in {"Absent", "Created", "Stopped"} => outcome[r] = "None"
        /\ status[r] \in {"Sent", "Failed"} => outcome[r] = status[r]
        /\ outcome[r] # "None" => r \in due
        /\ sends[r] = IF outcome[r] = "None" THEN 0 ELSE 1

(* ... no request is on its way in two places, or twice in one; ...        *)
OnePlace ==
    /\ \A g, h \in Handlers : g # h => HeldBy(g) \cap HeldBy(h) = {}
    /\ WithHandlers \cap (claimed \cup Range(sendCh) \cup inHand \cup calling) = {}
    /\ claimed \cap (Range(sendCh) \cup inHand \cup calling) = {}
    /\ Range(sendCh) \cap (inHand \cup calling) = {}
    /\ inHand \cap calling = {}
    /\ IsInjective(sendCh)

(* ... a result on its way back is SES's answer for a row that still waits *)
(* for it, and is there once; ...                                          *)
AnswersWait ==
    /\ \A m \in Answered : status[m.req] = "Processed" /\ outcome[m.req] = m.status
    /\ reporting \cap (Range(postCh) \cup batch) = {}
    /\ Range(postCh) \cap batch = {}
    /\ IsInjective(postCh)

(* ... and a handler holds what the await it is in says.                   *)
HandlersHold ==
    \A h \in Handlers :
        /\ hpc[h] = "idle" => HeldBy(h) = {}
        /\ hpc[h] \in {"saved", "queueing"} => held[h] = {}
        /\ hpc[h] = "blocked" => \E r \in Requests \ pending[h] : held[h] = {r}

SchedulerHolds == spc = "poll" <=> claimed = {}

Undisturbed == disruptions = 0 => phase = "serving"

IInv ==
    /\ TypeOK /\ RowsAgree /\ OnePlace /\ AnswersWait /\ HandlersHold
    /\ SchedulerHolds
    /\ Undisturbed /\ NoOrphan

(* Without disruptions every row a client submitted is settled in the end: *)
(* full channels, the semaphore, the flush threshold and the claim limit   *)
(* delay it and never hold it up for good.                                 *)
EventuallySettled ==
    \A r \in Requests : status[r] \in {"Created", "Processed"}
                           ~> status[r] \in {"Sent", "Failed", "Stopped"} \/ disruptions > 0

(* A Created row never depends on memory: it leaves that status, through   *)
(* the scheduler or stop_topic, even when the process dies or statements   *)
(* fail, unless the service is shut down first.                            *)
CreatedArePickedUp ==
    \A r \in Requests :
        status[r] = "Created" ~> (status[r] # "Created" \/ phase = "closed")

(* Every HTTP request that queues messages is answered (or its client has  *)
(* left): a full channel drains, whatever the tasks behind it wait for.    *)
HandlersRespond == \A h \in Handlers : hpc[h] # "idle" ~> hpc[h] = "idle"

(* A shutdown gets past the requests that were being served: no handler    *)
(* keeps the pool from being closed.                                       *)
DrainEnds == phase = "draining" ~> phase # "draining"

(* "Atomically claims and processes a batch" (scheduler.rs,                *)
(* fetch_and_process_batch): a row of the batch is passed on, or given     *)
(* back when it cannot be.                                                 *)
ClaimedAreForwarded ==
    [][\A r \in claimed \ claimed' :
          r \in Range(sendCh)' \/ status'[r] = "Created"]_vars

(* The service does to each row what RequestLifecycle allows and nothing   *)
(* else, whatever disrupts it.                                             *)
Lifecycle == INSTANCE RequestLifecycle
Implements == Lifecycle!Spec

(* What the life cycle promises of a row, with the tasks, channels and     *)
(* faults there are: a final status is what SES answered and an earlier    *)
(* one is not a lie; ...                                                   *)
StatusTruthful == Lifecycle!StatusTruthful

(* ... nothing reaches SES before its time, whoever queued it; ...         *)
NeverEarly == Lifecycle!NeverEarly

(* ... and neither an answer nor a settled status is ever replaced.        *)
Settled == Lifecycle!Settled
=============================================================================
