# A TLA+ model of aws-ses-sender

The service takes bulk e-mail requests over HTTP, stores one row per recipient
in SQLite, and sends the e-mails through AWS SES at a limited rate, at once or
at a scheduled time. SES tells it afterwards, through SNS, what became of them.
Everything runs in one process on the tokio runtime: HTTP handlers, a scheduler,
a sender loop with the tasks it spawns, a token refill task and a
post-processor, connected by two bounded channels and one database.

This directory holds the specifications of that system, the TLC runs that check
them on small instances, and the TLAPS proofs of their safety for instances of
any size. File names without a directory are those of `src/src/`.

## 1. Inventory

| Component | Source | State | Operations |
|---|---|---|---|
| Message API | `handlers/message_handlers.rs` | rows saved but not queued yet | `create_message`: save contents, check the number of emails, save rows, `try_send`, blocking `send`; branches for a closed channel, which stays open (section 5) |
| Request rows | `models/request.rs` | table `email_requests`: `status`, `scheduled_at`, `created_at`, `message_id`, `error` | `save_batch` (one transaction), `update`, `stop_topic`, `sent_count`, counts, lookup by message id, `parse_scheduled_at` |
| Contents | `models/content.rs` | table `email_contents` | `save_batch` (one transaction) |
| Scheduler | `services/scheduler.rs` | the claimed batch, `consecutive_empty` | claim by `UPDATE ... RETURNING`, fetch contents, forward to the channel; poll, back off |
| Sender loop | `services/receiver.rs` 86-150 | the request in its hand, semaphore permits, spawned tasks | take a request, a token, a permit; spawn the task that sends and reports |
| Token bucket | `services/receiver.rs` 29-84, 152-178 | `tokens`, `last_refill_ms`, waiters of `Notify` | `acquire`, `refill`, `reset`, the 100 ms tick |
| SES client | `services/sender.rs` | `attempts` | `send_email` with up to three retries, over an SDK that retries too |
| Post-processor | `services/receiver.rs` 180-317 | `batch`, `last_flush` | collect, flush by size or time, bulk `UPDATE`, fallback to one `UPDATE` per row |
| Event API, results | `handlers/event_handlers.rs`, `models/result.rs` | table `email_results` | SNS notifications, open tracking |
| Topic API | `handlers/topic_handlers.rs` | - | `stop_topic`, `get_topic` with its two counts |
| Process life | `main.rs`, `config/db.rs` | the pool, the serving state | start, SIGTERM and drain, close the pool, exit |
| Authentication, routes, health, configuration, errors | `middlewares/`, `app.rs`, `state.rs`, `health_handlers.rs`, `config/env.rs`, `error.rs` | none that changes | - |

How they interact: handlers and scheduler are the producers of the *send
channel*, the sender loop consumes it; each send task produces one result into
the *results channel*, the post-processor consumes it. The column `status` is
written by four parties (handlers, scheduler, `stop_topic`,
post-processor), each in a statement of its own. `message_id`, written by the
post-processor, is what the Event API finds a row by. The ids that
`save_batch` computes are what sender and post-processor address rows by. Only
the tables survive a restart; a row with status Processed whose request was in
memory is not read again, since the scheduler selects Created rows.

What is hard here, and the properties that answer it:

* One row can enter the send channel from a handler or from the scheduler, in
  this run of the process or the next: `AtMostOneSend`.
* `stop_topic` races inserts, claims and sends: `StoppedIsOut`.
* Four writers of one column, in any order: `Implements`, `Settled`.
* Both channels full, all permits taken, every task waiting for another:
  `EventuallySettled`, `HandlersRespond`.
* A statement that fails, a client that disconnects, a signal, a crash, between
  any two steps: every safety property of `Pipeline` is checked and proved under
  these, `OrphansStayPut` says what becomes of a row whose memory is gone, and
  `HandlersRespond`, `DrainEnds`, `CreatedArePickedUp` say what must happen in
  spite of them.
* A wake-up lost between `try_acquire` and `notified()`, a wall clock that is
  set, an interval that catches up: `TokenEventually`, `Budget`, `RateBound`.
* A timeout after which SES may or may not have the email, retries of the loop
  on top of retries of the SDK, an answer that comes after the task gave up:
  `CopiesBounded`, `SentIsTraceable`, `NothingNewAfterAnswer`, `KeepsPromise`.
* Retries that pass by the bucket and sleep with a permit in hand:
  `CallsPaced`, `EveryEmailAnswered`.
* Chunks of several calls that interleave, ids computed backwards, a fault or a
  dropped handler between two chunks or after a commit: `IdsNameOwnRows`, `OwnContent`,
  `AllOrNothing`, `EveryCallEnds`; contents committed before the check of the
  payload: `OrphansExplained`.
* A statement built from three lists of different lengths, and the same batch
  written a second way when it fails: `BulkIsIndividual`, `ImplementsLog`,
  `OneFaultOneLoss`.
* Times in two time zones, a scheduler that polls less often the less it finds,
  takes a limited batch and waits for the channel, a window by creation time:
  `NotBeforeKst`, `ClaimedInTime`, `LeftForEarlier`, `SentAreCounted`.
* A notification faster than the row it is about, or repeated, or of a copy the
  row does not know; two counts that are not one snapshot: `ResultsOfOwnEmail`,
  `LostOnlyUnfound`, `TopicAddsUp`.

`PROJECT.json` lists every hazard with its source line.

## 2. Modules

| Module | What it is |
|---|---|
| `RequestLifecycle` | Abstract specification: what the service promises about one row. |
| `Pipeline` | The tasks, the channels, the table and the disruptions; implements `RequestLifecycle`. |
| `RateLimiter` | Token bucket, refill task and semaphore. |
| `AtLeastOnce` | Abstract specification: what `send_email` promises about deliveries. |
| `SesSend` | The retry loop, the SDK below it and SES; implements `AtLeastOnce`. |
| `PacedSends` | Composition: the bucket of `RateLimiter` with the retry loops of many emails. |
| `Ingest` | Storing a payload: contents, requests, transactions, ids. |
| `AnswerLog` | Abstract specification: what the post-processor promises about answers. |
| `ResultStore` | The post-processor's statements; implements `AnswerLog`. |
| `Timetable` | Scheduled times, polling and the sent count. |
| `Events` | Notifications, opens and the statistics of a topic. |
| `MCPipeline`, `MCRateLimiter`, `MCPacedSends`, `MCIngest`, `MCTimetable`, `MCEvents` | Instances for TLC. |
| `PipelineProofs`, `RateLimiterProofs`, `PacedSendsProofs`, `SesSendProofs`, `IngestProofs`, `ResultStoreProofs`, `TimetableProofs`, `EventsProofs` | Theorems and proofs. |

The system is cut where a row hands over to another concern. `Pipeline` has every
task and disruption but only the status of a row; the other modules open one of
its steps. `SesSend` is what happens between `Spawn` and the answer in
`SendEmail`, `ResultStore` is its flush with all three columns and the real
statement, `Ingest` is what precedes its rows, `Timetable` is when a row becomes
due, `Events` is what follows the answer. Where `Events` and `Timetable` need the
rest of the life of a row they have it in a line (`Events!Move`,
`Timetable!Send`): the moves are those `RequestLifecycle` allows, which are all
there are, and they may happen at any time once their row is in the status they
start from. `Events` has all of them; `Timetable` leaves out the ones no property
of it is about (a stop, a failed send) and restarts: its bounds on the wait are
for a service that stays up.

### RequestLifecycle

Three variables: `status` per row (with `Absent` before the insert), `due`, the
rows whose time has come, and `outcome`, what SES answered. The actions are the
transitions the service may make in whatever way: submit, become due, claim,
stop, send, record. `StatusTruthful`, `NeverEarly` and `Settled` are what
users of the table rely on.

### Pipeline

A request is the id of its row. Addresses, contents and formatting are left
out: no task decides anything on them. The variables follow the places a request
can be in:

| Variables | In the code |
|---|---|
| `status`, `due` | `email_requests.status`; `scheduled_at <= now` |
| `hpc`, `pending`, `held` | the await a `create_message` is in; `saved_requests` left in its loop; the request inside `send().await` |
| `spc`, `claimed` | phase of `fetch_and_process_batch`; rows not forwarded yet |
| `sendCh`, `postCh` | the two `mpsc` channels |
| `inHand`, `calling`, `reporting` | the request the sender loop waits to spawn a task for; tasks inside `send_email`; tasks inside `tx_clone.send` |
| `ppc`, `batch` | the post-processor |
| `phase` | serving, draining after SIGTERM, pool closed |
| `outcome`, `sends` | history only, read by no guard |
| `disruptions` | how many disruptions happened (bounds the model) |

Each action is the code between two awaits. A loop over the requests of one
HTTP call is one action per request, since another task can run between two of
them on another thread; the order in which a handler or the scheduler goes
through its rows is left open. The two error paths of a statement are
disjuncts of the action that executes it, `DbOk` and `DbErr`. The claim is one
statement, hence one action; it takes all claimable rows up to `ClaimLimit`.
A statement that fails with no effect (an insert, a claim) is a stuttering step
and not written down.

Disruptions, each counted: `db` (a statement fails while the pool is open),
`disconnect` (the client leaves and hyper drops the handler at its await),
`shutdown` (SIGTERM), `crash` (the process dies; the supervisor starts it
again). A row submitted before SIGTERM may still be stored while the server
drains. After the pool is closed the other tasks keep running until the process
ends, with every statement failing, as in `main`.

Both channels are open as long as the process lives. The receivers belong to the
sender loop and the post-processor, whose loops end only if a channel or the
semaphore is closed; the semaphore is a local of the sender loop that nothing
closes, the sender holds a producer of the results channel, and main and the
scheduler hold producers of the send channel. So the branches for a closed
channel cannot be taken and are no actions.

The wait for a token is not in this module: the sender simply may take a while.
The polling intervals, delays and flush interval are not counted either; a
timer that may have run out is a disjunct or a fair action.

### RateLimiter and PacedSends

Time is counted in ticks of the refill task. `age` is the difference between the
wall clock and `last_refill_ms`, -1 before the first tick because a tokio
interval fires at once. A regular tick adds one; an irregular one (the clock was
set, or the interval catches up after a stall) adds something else and is
counted in `adjustments`. The tick one second after a reset may read 999 ms or
1000 ms, so at `age = TicksPerSec` both refill and reset are possible.
`acquire` is split at the points where the refill task can run: the failed try,
the creation of the `Notified` future, the wait. `notify_waiters` is a step
after the store.

`PacedSends` instantiates `RateLimiter` with the same variables and adds the
task of each email. `Recv`, `Acquire` and `Spawn` are the sender loop, which
gets its token and its permit from the bucket's own actions; `Retry` and
`CallAgain` are the loop of `send_email`, which touches neither; `Finish` is the
end of the task and drops the permit (`Bucket!Complete`). `calls` counts the
calls of SES since the last reset.

### SesSend and AtLeastOnce

One task per email. `pc`, `attempts` and `messageId` are `send_email`'s own;
`wire`, `open`, `copy` and `error` are the call of the client that is under way.
The SDK is loaded with its defaults, so one call can be several HTTP requests
(`WireAttempts`), and a request nobody waits for any longer can still reach SES
(`late`). `SesTakes`, `SesRefuses`, `NoAnswer` and `LateRequest` are the outside
world; `ReturnOk`, `Retry`, `CallAgain` and `ReturnErr` are the branches of the
loop. `AtLeastOnce` says what a caller can rely on: a bounded number of copies,
a receipt for one that exists, one answer. "Failed" promises nothing about
copies, which is right: the email may arrive after all.

### Ingest

Several `create_message` calls write through SQLite's single write lock.
`InsertChunk` is one multi-row `INSERT`, `TakeIds` the arithmetic on
`last_insert_rowid()` after it, with the `as i32` modelled as the wrap it is
(`Narrow`). `CommitContents` and `CommitRequests` are the commits; what the
handler does next is a step of its own. `SavedContents` compares the number of
recipients with `MAX_EMAILS_PER_REQUEST`, after the contents were committed, as
the code does; `Respond` stands for the queueing and the response.
`StatementFails` and `Disconnect` can come between any two statements and roll
back, which also takes the autoincrement numbers back; a `Disconnect` can also
come right after a commit, at its await or while the handler queues, and leaves
what was committed without a response. `table` holds the writer's own rows too;
`committed` is what others see.

### ResultStore and AnswerLog

The bulk statement is built as the code builds it: three `CASE` expressions with
their lists of ids (`With`, `IdsOf`), one list of binds in the order of the
question marks (`Binds`), and `BulkUpdate` runs it the way SQLite does, first
matching `WHEN` and `ELSE` included. `UpdateOne` is the fallback. `AnswerLog`
promises that a row shows the whole answer reported for it, once, or none.

### Timetable

`Create` takes Korean time to UTC; no time and a text that cannot be read both
mean now, but the latter still makes the row Created. `PollEmpty`, `Claim`,
`ClaimThenFail` and `PollFails` are the outcomes of `fetch_and_process_batch`,
with the delays `schedule_pre_send_message` sleeps after them. A claim takes the
earliest due rows up to `ClaimLimit` (`Batches`); its rows are forwarded one by
one (`Forward`), and only after the last of them does the scheduler rest and poll
again. `Tick` lets time pass while it sleeps and also while it is awake: it may
wait for the database before it polls and for room in the channel at every row.
`held` and `passed` are history: they count, for each due row, the failed polls
and waits it sat through and the full claims that left it behind.
`SentCountRows` is the query of `sent_count`.

### Events

A message id is `<<r, n>>`, the n-th copy of request r. SES takes copies, the
post-processor writes the id of one of them, each in its own time (`WriteAnswer`,
`SesTakes`). SNS posts what is in `sns` until it knows of an answer it takes as
final. `Lookup` and `SaveResult` are the two statements of
`process_ses_notification`; a lookup that fails and one that finds nothing are
answered alike, 404, and a failed insert with 500 (`StatusCode`, the table of
`error.rs`). Which answers SNS repeats is a parameter, `RetriedCodes`: the service
decides what it answers, SNS's delivery policy what follows. The run takes only
500, SNS's default. `unfound` is history: the posts SNS gave up at a 404, and
whether the lookup had worked and the row was Sent by then. `ReadRequests` and
`ReadResults` are the two queries of `get_topic` in any order, with any other
steps in between.

## 3. Runs

| Run | Question | Instance | States | Result |
|---|---|---|---|---|
| `PipelineSafety` | Safety under disruptions; is the invariant of the proofs true; does it implement `RequestLifecycle`? | 4 requests, 2 topics, 2 handlers, buffers of 1, 2 permits, flush size 2, claim limit 2, any 2 disruptions | 871,752 | holds |
| `PipelineLiveness` | Is every row settled if nothing goes wrong; do handlers answer, shutdowns finish and Created rows get picked up if something does? | 3 requests, 1 handler, buffers, permits and claim limit of 1, flush size 2, any 2 disruptions | 140,034 | holds |
| `PipelineClaimed` | Is a claimed row passed on or given back? | `db` only | - | violated |
| `RateLimiterSafety` | Bounds of the bucket, and progress | rate 3, 2 ticks per second, 2 irregular ticks | 109,006 | holds |
| `RatePerSecond` | At most `MAX_SEND_PER_SECOND` in a second? | the same, regular ticks | - | violated |
| `SesSend` | How many copies, and what is the answer worth? | 1 email, 3 retries, 3 HTTP requests per call | 13,046 | holds |
| `PacedSends` | What do retries add to the rate, and can they starve others? | 3 emails, 2 retries, rate 1, 2 ticks, 1 irregular tick | 453,865 | holds |
| `Ingest` | Are ids, contents and transactions right? | 3 calls with 3, 2 and 4 recipients, chunks of 2, at most 3 emails, ids up to 4 | 28,110 | holds |
| `ResultStore` | Does the bulk statement do what single updates do? | 4 requests, 2 message ids, 1 error, batches of 3, 3 faults | 112,042 | holds |
| `Timetable` | No email early, no row late beyond what is accounted for, none overtaken? | 3 requests, 5 points in time, an offset of 3, times 1 and 5, claim limit 1, long delay from the second empty poll on, 1 failing poll | 4.0 million | holds |
| `SentCount` | Does `sent_count` count the emails sent in its window? | the same | - | violated |
| `Events` | Whose results, which are lost, do the counts add up? | 2 emails of one topic, 2 copies each, 2 rows per kind, 2 notifications, 1 fault, only 500 repeated | 7.6 million | holds |

### Why the bounds are enough to be interesting

* Pipeline. A buffer of 1 with 4 requests makes both channels full and brings in
  `TrySendFull` and blocked producers. Two handlers and the scheduler compete
  for one slot. One topic has one request and the other three, so that
  `stop_topic` hits a part. Two disruptions give every pair: a crash after a
  lost statement, a disconnect and then a crash, a shutdown with a failing
  fallback. Flush size 2 has full and partial batches. For liveness, permits and
  claim limit are 1 and three requests fill the sender's hand, the channel and a
  producer; a second handler adds nothing to what one handler and the scheduler
  block on. `EventuallySettled` excuses runs with a disruption, the other three
  do not.
* RateLimiter. Rate 3 with 2 ticks makes the refill (2) not divide the bucket, so
  the cap matters, and 6 permits are more than a full bucket.
* SesSend. The tasks share nothing, so one email is enough; the retries and the
  SDK's attempts are the defaults of code and SDK.
* PacedSends. With rate 1 there are two permits for three emails: two in back-off
  make the sender wait with its token taken. The clock may be set back by more
  than a second.
* Ingest. Handlers may be dropped anywhere, the commits included. The first call
  needs two chunks, the second has a message nobody is to get, the third is over the limit after its contents were stored. Ids wrap
  after 4, and five contents and five requests can be asked for, so the boundary
  is crossed; the two properties about ids hold up to it.
* ResultStore. Batches of three with sent and failed answers in every order give
  all lengths of the two optional `CASE` lists; four requests make a row that is
  in no batch, or in a later one. Three faults are a failing bulk statement and
  two failing updates in its fallback, or two failing batches.
* Timetable. Times of 1 and 5 at an offset of 3 lie before the start and at 2, so
  rows are due at once or later; with a claim limit of 1, three rows leave a
  backlog of two. The long delay comes after 2 empty polls. Time passes between
  any two steps while a row waits for the channel, and one poll fails, before or
  after its claim.
* Events. Two copies of each of two emails, so that ids can be mixed up between
  emails and between the copies of one, of which the row names at most one; two
  result rows of a kind are a repeated post; one fault hits the lookup, the
  insert or `get_topic`. Two notifications are the same copy's, two copies', or
  two emails'.

Symmetry is used only in runs without liveness properties: the handlers, the
requests of one topic, and the requests of `Timetable` and `Events` are
interchangeable. Runs without a deadlock check are those in which everything may
be done at some point: all emails answered (`SesSend`), all calls ended
(`Ingest`), all answers stored (`ResultStore`), the last point in time reached
(`Timetable`), no row left to add (`Events`).

### Fairness

`Pipeline!Fairness` is weak fairness of each task as a whole: tokio polls a task
that is ready again and again, a statement and a call to SES end. `BecomeDue` is
fair because time passes, `CloseDb` because `main` continues when the server has
drained. Clients, disruptions and the restart are not fair: nothing makes them
happen. Nothing is said about which request a task takes: weak fairness of the
task is enough since there are finitely many rows. `RateLimiter!FairSpec` is
weak fairness of the sender once it holds a request, of the tick, of the
notification and of the completion of sends; whether requests arrive is open.
`SesSend!FairSpec` assumes that every HTTP request ends, in an answer or an error
(the SDK's connection times out or breaks), and that sleeps end; SES need not
take or answer anything. `PacedSends!Spec` is both together. `Ingest!FairSpec`
assumes that a handler runs and that SQLite gives a waiting connection the lock
or an error: the code sets a busy timeout. `Timetable` needs none: its bound on
the wait is a safety property in which time is a variable, and the waits that
only fairness ends (for the channel, for the database) are in the bound as what
they took.

### Refinements

| Detailed | Abstract | Mapping |
|---|---|---|
| `Pipeline` | `RequestLifecycle` | identity on `status`, `due`, `outcome` |
| `SesSend` | `AtLeastOnce` | asked: the task has started; copies: `accepted`; answer: from `pc`; receipt: `messageId` |
| `ResultStore` | `AnswerLog` | recorded: the row, unless nothing was written to it |

Each is an `INSTANCE ... WITH` and a `PROPERTY` of a run (`Implements`,
`KeepsPromise`, `ImplementsLog`), and each is also proved.

### What the violated runs say

* `ClaimedAreForwarded`. `scheduler.rs` 82 says the function "atomically claims
  and processes a batch". The claim is committed, then the `?` at line 129
  returns when the second query fails. The claimed rows stay Processed, which
  no query selects again.
* `SendsPerSecond`. `README.en.md` 337 calls `MAX_SEND_PER_SECOND` the "maximum
  sends per second". A reset fills the bucket each second and the refills of the
  same second come on top, about twice the rate. `RateBound` is the bound that
  does hold of tokens, `CallsPaced` the one that holds of calls.

* `SentAreCounted`. `request.rs` 121 and `event_handlers.rs` 92 speak of "the count
  of emails sent within the specified hours". The query goes by `created_at`: an
  email created before the window and sent in it is not counted, so one that is
  scheduled more than the window ahead is never counted at all.

### Also visible in the models

These follow from the definitions and are not runs of their own.

* A graceful shutdown closes the pool while the sender, its tasks and the
  post-processor still work, so what is in memory then stays Processed, sent or
  not; the same after a crash, a failed individual update, or a client that
  disconnects while its messages are being queued.
* The rate limiting diagram, `README.en.md` 223, draws an arrow "Return Token"
  from a finished send. The code returns the semaphore permit; tokens come from
  the refill task alone (`RateLimiter!Complete`).
* A row can be Failed although the recipient got the email, up to
  `(MAX_RETRIES + 1) * WireAttempts` times (`SesSend!NoAnswer`, `LateRequest`).
* A notification that overtakes the post-processor is answered 404, and so is a
  lookup that fails for another reason (`event_handlers.rs` 166), although
  `error.rs` has an answer of its own for database errors. By default SNS takes
  4xx answers as final, so both are lost. `LostOnlyUnfound` says that these are
  the only ways to lose a notification of the copy the row names: once the row
  was found, a notification survives any failure. Notifications of a copy
  whose id the row does not have are never recorded.
* A post that is repeated leaves a result row per delivery; the statistics count
  distinct requests, so they do not show it.
* Contents are stored per message: equal ones are not shared, although
  `migrations/20241228000000_initial_schema.sql` 3 says that the table "prevents
  duplicate subject/content storage"; and those of a rejected call remain (`OrphansExplained`).
* `README.en.md` 63 and 153 say that the scheduler polls every 10 seconds. After
  six empty polls in a row it sleeps 20, so an email can leave that much after
  its time even when nothing else delays it; `ClaimedInTime` is stated with the
  20 seconds. With more than a thousand rows due, or a full channel, a row
  waits longer, by what `passed` and `held` count.

## 4. Proofs

All for arbitrary values of the constants under the named assumptions, which TLC
evaluates in every run.

* `PipelineProofs`: any finite `Requests` (`RequestsAssumption`), `Handlers`,
  topics (`TopicAssumption`), positive sizes (`SizeAssumption`), any set and
  number of disruptions. `AtMostOneSend` and `StoppedIsOut` are not inductive:
  that a row is sent once depends on the request being in one place only, and
  that in turn on the status saying Processed exactly while it is somewhere.
  `IInv` adds this:
  * `RowsAgree`: a request on its way out has a Processed, due row and no answer;
    a settled row agrees with its answer; `sends` counts exactly the answers.
  * `OnePlace`: the sets of the handlers, the claimed batch, the send channel, the
    sender's hand and the send tasks are disjoint, and the channel has no
    duplicates.
  * `AnswersWait`: a result on its way back belongs to a row that is still
    Processed, carries SES's answer, and exists once.
  * `HandlersHold`, `SchedulerHolds`, `Undisturbed`: what the program counters say
    about these sets.

  There is one lemma per action (`CreateScheduledInv` to `RestartInv`; actions
  that move nothing share `QuietStepsInv`), each with one step per part of the
  invariant. `KeepsTrack` and `NoOrphanStep` reduce `NoOrphan` to what an action
  does to the two sets. Theorems: `Inductive`, `Typing`, `SentOnce`,
  `StoppedStaysOut`, `NothingForgotten`, and the action property
  `LostIsLeftAlone`: every step leaves a Processed row that is nowhere in memory
  where it is, unsent, which needs that only Created rows are claimed and only
  Absent ones inserted.
  The refinement is in the same module. `LifecycleTruthful` and
  `LifecycleSettled` follow from the steps of `RequestLifecycle` alone; the
  strengthening is that a Processed row is due. `PipelineImplements` rests on
  `NextImplements`, which has one step per action that touches the mapped
  variables. `RowsTruthful`, `RowsOnTime` and `RowsSettled` carry the promises
  over.
* `RateLimiterProofs` (`RateAssumption`, `ClockAssumption`). `Typing`,
  `NoMinting`, `RateIsBounded`. The strengthening ties `refills` to `age` while
  the ticks are regular.
* `PacedSendsProofs` (`PaceAssumption`, the same for rate and clock, and a number of
  retries; any set of emails).
  `UsesBucket`: every behaviour of the composition is one of the bucket, so what
  `RateLimiterProofs` proves of the bucket holds in it too; `BucketKept` does the
  same for the bucket's inductive invariant. `PermitsAlwaysHeld`: as many
  permits are gone as emails are being sent. `CallsAlwaysPaced` is
  not inductive: what a task has called is not bounded by tokens alone, since a
  retry takes none. `IInv` counts the calls made since the reset and those still
  to come: `ToCome` is the set of pairs of a task and a retry it has left, and a
  token in the sender's hand is worth `MaxRetries + 1` more. `CallsPerReset` puts
  a number on it: with regular ticks, the calls between two resets.
* `SesSendProofs` (`RetryAssumption`). `Bounded` is not inductive, as it forgets
  how many HTTP requests were made. `CopiesCounted` keeps the account: what SES
  took, may still take and is being asked to take is at most what the calls so
  far allow. From it `Traceable`, `Bounded` and `QuietAfterAnswer`, and
  `PromiseKept`, the refinement, whose step for `SesTakes` and `LateRequest` needs
  the bound.
* `IngestProofs` (`PayloadAssumption`, `IngestAssumption`). `Filling` says that
  the rows a call is inserting directly follow the committed ones, in order, which
  holds because of the write lock (`LockInv`); `Placed` that rows once stored
  keep ids and values; `RequestsOwned` and `ContentsOwned` that every stored row
  is of a call that may have stored it. Theorems: `Typing`, `OwnIds`,
  `ContentsMatch`, `WholeOrNothing`, `OrphansHaveReasons`.
* `ResultStoreProofs` (`ResultAssumption`: NULL is none of the ids, errors or
  answers). That the bulk statement equals single updates is a statement about
  functions that are built along a batch of any length. `Least`, that a non-empty
  set of numbers has a least one, gives `Induction` for sets, with which
  `WithRange` and `Stepwise` say what `With` and the updates one by one
  compute. `BindsAt` says which bind belongs to which question mark, `CaseHits`
  and `CaseMisses` what a `CASE` finds for an id. Both ways of writing a batch,
  `BulkWrites` and `UpdatesWrite`, have `Wrote` the same table, provided that
  the batch has no id twice, which is what the invariant keeps (`Waiting`: an
  answer in the channel or the batch is there once, is the one reported, and has
  an unwritten row).
  Theorems: `BulkAsGoodAsIndividual`, `StoreImplementsLog`, `RowsShowReports`, and
  `FaultsCostOne`, for which the invariant counts the lost answers against the
  faults, with one fault more while a fallback is under way.
* `TimetableProofs` (`DelayAssumption`, `TimeAssumption`). `ClaimedInTime` says
  nothing of the sleep that is still to come; `IInv` counts what is certain to be
  left of it (`Rest`) against the delay of each row, together with what the row's
  `held` and `passed` allow. `OnKoreanTime`, `InTime`, and `NotOvertaken`: the
  rows ahead of a row grow by a full `ClaimLimit` with every claim that leaves it.
* `EventsProofs` (`EventsAssumption`). `IdsOwn`: only a Sent row has a message id,
  and that of a copy of its own; `SavingFound`: a post found by that id stays
  posted until it is answered; `UnfoundForGood`: what is recorded of a post given up
  stays true. `OwnResults`, `NothingFoundIsLost`, and `AddsUp`, whose
  `ReadInv` relates each count, taken at its own time, to the sets it counted, by
  what may have joined them since the call began.

Only model-checked are the liveness properties (`EventuallySettled`,
`EveryEmailAnswered` and the other leads-to properties under fairness), as TLAPS
proves neither leads-to under fairness nor `ENABLED`. Every invariant and every
action property of a run is a theorem.

## 5. Not modelled

* The authentication middleware compares one header with one constant; routes,
  application state, health and readiness checks are wiring and a ping of the
  database; configuration is parsed once at the start. None has a state that
  changes, so no property relates two of their steps. The configured values are
  the CONSTANTS, the HTTP codes of `error.rs` the answers in `Ingest` and `Events`.
* The branches for a closed channel or semaphore: `message_handlers.rs` 139-146 and
  154-174 with `rollback_to_created`, `scheduler.rs` 146-148, `receiver.rs` 122-124
  and 197-203. No step of the program closes either channel or the semaphore while
  one of these could notice (section 2, Pipeline); `rollback_to_created` is
  therefore never called.
* `EmailRequest::save` and `EmailContent::save` are not called by the service.
* Logging, Sentry, migrations, pragmas and pool sizes. SQLite's concurrency control
  is taken as one writer at a time, with transactions.
* Subscription confirmations and unreadable posts of SNS, which touch no table.
* Lengths of the back-offs of `send_email` and of the flush interval: no property
  depends on them but that they end.

What could be added: the composition of `PacedSends` with the whole of
`Pipeline`, in one state space too large for TLC with interesting bounds; here
the token wait is covered by `EveryEmailAnswered` and everything else by
`EventuallySettled`.

## 6. Running

    tlc -config PipelineSafety.cfg MCPipeline.tla
    tlapm PipelineProofs.tla

Definitions marked "Mutant" are plausible bugs of the definition that follows
them. `PROJECT.json` pairs them with the property that detects them.
