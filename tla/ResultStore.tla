---------------------------- MODULE ResultStore ----------------------------
(***************************************************************************)
(* The statements of the post-processor: bulk_update_all builds one UPDATE *)
(* with a CASE per column and a list of bind values, and when it fails     *)
(* every request of the batch is updated by itself.  When a batch is       *)
(* flushed is in Pipeline, where a row is only a status; here a row is     *)
(* what the statements write, and the statement is built and run the way   *)
(* the code builds it and SQLite runs it.                                  *)
(***************************************************************************)
EXTENDS Naturals, Sequences, FiniteSets

CONSTANTS
    Requests,       \* row ids, each in the batches once (Pipeline!AtMostOneSend)
    MessageIds, Errors,
    None,           \* NULL
    FlushSize,      \* BATCH_SIZE
    MaxFaults       \* failing statements explored (bounds the model only)

Answers == [status : {"Sent"}, message_id : MessageIds, error : {None}]
           \cup [status : {"Failed"}, message_id : {None}, error : Errors]
Unanswered == [status |-> "Processed", message_id |-> None, error |-> None]
Results == [id : Requests, answer : Answers]

ASSUME ResultAssumption ==
    None \notin MessageIds \cup Errors \cup Answers /\ MaxFaults \in Nat

VARIABLES
    rows,           \* email_requests: status, message_id, error
    reported,       \* history: what the task of each request reported
    queue,          \* reported, not received yet
    batch,          \* the batch of the post-processor, in order of arrival
    ppc,            \* "recv", or "fallback" while it updates one by one
    faults          \* failed statements so far

vars == <<rows, reported, queue, batch, ppc, faults>>

TypeOK ==
    /\ rows \in [Requests -> Answers \cup {Unanswered}]
    /\ reported \in [Requests -> Answers \cup {None}]
    /\ queue \in SUBSET Requests
    /\ batch \in Seq(Results)
    /\ ppc \in {"recv", "fallback"}
    /\ faults \in 0 .. MaxFaults

Init ==
    /\ rows = [r \in Requests |-> Unanswered]
    /\ reported = [r \in Requests |-> None]
    /\ queue = {} /\ batch = <<>> /\ ppc = "recv" /\ faults = 0

-----------------------------------------------------------------------------
(* The statement.  A CASE lists the ids of its WHENs; the binds stand in   *)
(* the order of the question marks: statuses, message ids, errors, ids.    *)
With(b, column) ==
    LET upto[i \in 0 .. Len(b)] ==
            IF i = 0 THEN <<>>
            ELSE IF b[i].answer[column] = None THEN upto[i - 1]
            ELSE Append(upto[i - 1], b[i])
    IN  upto[Len(b)]
IdsOf(b) == [i \in DOMAIN b |-> b[i].id]
ValuesOf(b, column) == [i \in DOMAIN b |-> b[i].answer[column]]

\* Mutant: the errors are bound before the message ids.
BindsSwapped(b) ==
    ValuesOf(b, "status") \o ValuesOf(With(b, "error"), "error")
    \o ValuesOf(With(b, "message_id"), "message_id") \o IdsOf(b)

Binds(b) ==
    ValuesOf(b, "status") \o ValuesOf(With(b, "message_id"), "message_id")
    \o ValuesOf(With(b, "error"), "error") \o IdsOf(b)

\* CASE id WHEN cases[1] THEN ? ... ELSE old END, its first question mark
\* being the one after "before" others.
Case(r, cases, before, binds, old) ==
    LET hits == {k \in DOMAIN cases : cases[k] = r}
    IN  IF hits = {} THEN old ELSE binds[before + (CHOOSE k \in hits : \A j \in hits : k <= j)]

BulkUpdate(tab, b) ==
    LET mids == IdsOf(With(b, "message_id"))
        errs == IdsOf(With(b, "error"))
        n == Len(b)
        binds == Binds(b)
        wanted == {binds[n + Len(mids) + Len(errs) + i] : i \in 1 .. n}
    IN  [r \in Requests |-> IF r \notin wanted THEN tab[r] ELSE
            [status     |-> Case(r, IdsOf(b), 0, binds, tab[r].status),
             message_id |-> Case(r, mids, n, binds, tab[r].message_id),
             error      |-> Case(r, errs, n + Len(mids), binds, tab[r].error)]]

\* EmailRequest::update sets all three columns.
Update(tab, q) == [tab EXCEPT ![q.id] = q.answer]

-----------------------------------------------------------------------------
\* A send task reports: a message id, or an error.
Report(r, a) ==
    /\ reported[r] = None
    /\ reported' = [reported EXCEPT ![r] = a]
    /\ queue' = queue \cup {r}
    /\ UNCHANGED <<rows, batch, ppc, faults>>

Receive(r) ==
    /\ ppc = "recv" /\ Len(batch) < FlushSize /\ r \in queue
    /\ queue' = queue \ {r}
    /\ batch' = Append(batch, [id |-> r, answer |-> reported[r]])
    /\ UNCHANGED <<rows, reported, ppc, faults>>

Flush ==
    /\ ppc = "recv" /\ batch # <<>>
    /\ \/ /\ rows' = BulkUpdate(rows, batch)
          /\ batch' = <<>>
          /\ UNCHANGED <<ppc, faults>>
       \/ /\ faults < MaxFaults /\ faults' = faults + 1
          /\ ppc' = "fallback"
          /\ UNCHANGED <<rows, batch>>
    /\ UNCHANGED <<reported, queue>>

\* Mutant: the drain runs from the back but the updates from the front.
UpdateOneBackwards ==
    /\ ppc = "fallback"
    /\ batch' = SubSeq(batch, 1, Len(batch) - 1)
    /\ ppc' = IF batch' = <<>> THEN "recv" ELSE ppc
    /\ rows' = Update(rows, [id |-> batch[1].id, answer |-> batch[Len(batch)].answer])
    /\ UNCHANGED <<reported, queue, faults>>

\* Mutant: the first update that fails ends the fallback.
UpdateOneOrGiveUp ==
    /\ ppc = "fallback"
    /\ \/ /\ batch' = Tail(batch)
          /\ ppc' = IF batch' = <<>> THEN "recv" ELSE ppc
          /\ rows' = Update(rows, batch[1]) /\ UNCHANGED faults
       \/ /\ faults < MaxFaults /\ faults' = faults + 1 /\ UNCHANGED rows
          /\ batch' = <<>> /\ ppc' = "recv"
    /\ UNCHANGED <<reported, queue>>

\* One update of the fallback; a failure is logged and the request dropped.
UpdateOne ==
    /\ ppc = "fallback"
    /\ batch' = Tail(batch)
    /\ ppc' = IF batch' = <<>> THEN "recv" ELSE ppc
    /\ \/ rows' = Update(rows, batch[1]) /\ UNCHANGED faults
       \/ faults < MaxFaults /\ faults' = faults + 1 /\ UNCHANGED rows
    /\ UNCHANGED <<reported, queue>>

Next == \/ \E r \in Requests : Receive(r) \/ \E a \in Answers : Report(r, a)
        \/ Flush \/ UpdateOne

Spec == Init /\ [][Next]_vars

-----------------------------------------------------------------------------
(* The bulk statement writes what the individual updates would write, to   *)
(* the same rows and to no other, for every mix of answers in a batch.     *)
BulkIsIndividual ==
    LET after[i \in 0 .. Len(batch)] ==
            IF i = 0 THEN rows ELSE Update(after[i - 1], batch[i])
    IN  BulkUpdate(rows, batch) = after[Len(batch)]

(* Rows only ever show the whole answer that was reported for them, through*)
(* bulk statement, fallback and failures.                                  *)
Log == INSTANCE AnswerLog WITH
    recorded <- [r \in Requests |-> IF rows[r] = Unanswered THEN None ELSE rows[r]]

ImplementsLog == Log!Spec

\* Reported, received, and on its way to no row any more.
Lost ==
    {r \in Requests : /\ reported[r] # None /\ rows[r] = Unanswered /\ r \notin queue
                     /\ \A i \in DOMAIN batch : batch[i].id # r}

(* An answer is dropped only when its own update failed after the bulk     *)
(* statement of its batch had failed too: a fault never takes the answers  *)
(* of its neighbours along.                                                *)
OneFaultOneLoss == Lost # {} => Cardinality(Lost) < faults
=============================================================================
