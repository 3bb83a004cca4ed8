------------------------------- MODULE Events -------------------------------
(***************************************************************************)
(* What happens to an email after SES took it: SES's notifications, which  *)
(* SNS posts to handle_sns_event, opens of the tracking pixel, and the     *)
(* statistics of get_topic.                                                *)
(*                                                                         *)
(* A message id is <<r, n>>: the n-th copy of request r that SES took.     *)
(* The row learns the id of one copy, some time after SES took it, when    *)
(* the post-processor writes it; notifications of that copy may be faster, *)
(* and those of other copies have no row.  SNS posts a notification until  *)
(* it knows of an answer it does not retry; answers may get lost.  Posts   *)
(* of other types and unreadable ones are answered without touching a      *)
(* table.                                                                  *)
(***************************************************************************)
EXTENDS Integers, FiniteSets

CONSTANTS
    Requests,
    TopicOf,        \* topic_id of each request
    Topics,         \* topics get_topic is asked about
    Kinds,          \* notificationType: Delivery, Bounce, ...
    MaxCopies,      \* copies SES may take of one email (SesSend!MaxCopies)
    RetriedCodes,   \* answers after which SNS posts again
    MaxRows,        \* result rows per request and kind explored (bound)
    MaxOpens,       \* opens per request explored (bound)
    MaxNotes,       \* notifications explored (bound)
    MaxFaults       \* failing statements explored (bound)

ASSUME EventsAssumption ==
    /\ IsFiniteSet(Requests)
    /\ MaxCopies \in Nat
    /\ "Open" \notin Kinds
    /\ RetriedCodes \subseteq {"404", "500"}

VARIABLES
    status,         \* email_requests: status, "Absent" before the insert
    message_id,     \* email_requests: a message id in a set, empty for NULL
    results,        \* email_results: how many rows per request and kind
    copies,         \* copies SES took of each email
    emitted,        \* history: all notifications ever
    sns,            \* notifications SNS still posts
    saving,         \* posts whose request was found and is being saved
    unfound,        \* history: posts SNS gave up at a 404, and whether
                    \* the query worked and the row was Sent by then
    topic,          \* the topic get_topic is asked about, in a set
    reads,          \* what its two queries answered, in sets
    before,         \* history: status when get_topic was asked
    faults          \* failed statements and dropped posts so far

rowVars == <<status, message_id, results>>
sesVars == <<copies, emitted>>
postVars == <<sns, saving, unfound>>
topicVars == <<topic, reads, before>>
vars == <<status, message_id, results, copies, emitted, sns, saving,
          unfound, topic, reads, before, faults>>

Events == Kinds \cup {"Open"}
MessageIds == Requests \X (1 .. MaxCopies)
Notifications == [id : MessageIds, kind : Kinds]
Statuses == {"Created", "Processed", "Sent", "Failed", "Stopped"}
NoRead == [requests |-> {}, results |-> {}]
NoRow == [r \in Requests |-> "Absent"]

Rows == {r \in Requests : status[r] # "Absent"}
RowsOf(t) == {r \in Rows : TopicOf[r] = t}

TypeOK ==
    /\ status \in [Requests -> {"Absent"} \cup Statuses]
    /\ message_id \in [Requests -> SUBSET MessageIds]
    /\ results \in [Requests -> [Events -> Nat]]
    /\ copies \in [Requests -> 0 .. MaxCopies]
    /\ sns \in SUBSET Notifications /\ emitted \in SUBSET Notifications
    /\ saving \in SUBSET [note : Notifications, request : Rows]
    /\ unfound \in SUBSET [note : Notifications, sent : BOOLEAN]
    /\ topic \in SUBSET Topics
    /\ faults \in Nat

Init ==
    /\ status = NoRow
    /\ message_id = [r \in Requests |-> {}]
    /\ results = [r \in Requests |-> [k \in Events |-> 0]]
    /\ copies = [r \in Requests |-> 0]
    /\ sns = {} /\ emitted = {} /\ saving = {} /\ unfound = {}
    /\ topic = {} /\ reads = NoRead /\ before = NoRow
    /\ faults = 0

Fault == faults < MaxFaults /\ faults' = faults + 1

-----------------------------------------------------------------------------
\* The life of a row, in short: Pipeline and ResultStore have it in full.
Move(r, from, to) ==
    /\ status[r] = from
    /\ status' = [status EXCEPT ![r] = to]
    /\ UNCHANGED <<message_id, results, sesVars, postVars, topicVars, faults>>

\* The post-processor writes the answer send_email got: the id of one of the
\* copies, or an error although SES may have taken copies.
WriteAnswer(r) ==
    \/ Move(r, "Processed", "Failed")
    \/ /\ status[r] = "Processed"
       /\ \E c \in 1 .. copies[r] : message_id' = [message_id EXCEPT ![r] = {<<r, c>>}]
       /\ status' = [status EXCEPT ![r] = "Sent"]
       /\ UNCHANGED <<results, sesVars, postVars, topicVars, faults>>

\* SES takes a copy, perhaps of a call that was given up long ago.
SesTakes(r) ==
    /\ status[r] \in {"Processed", "Sent", "Failed"}
    /\ copies[r] < MaxCopies
    /\ copies' = [copies EXCEPT ![r] = @ + 1]
    /\ UNCHANGED <<rowVars, emitted, postVars, topicVars, faults>>

\* SES tells SNS what became of a copy.
Notify(n) ==
    /\ n.id[2] <= copies[n.id[1]] /\ n \notin emitted
    /\ Cardinality(emitted) < MaxNotes
    /\ emitted' = emitted \cup {n} /\ sns' = sns \cup {n}
    /\ UNCHANGED <<rowVars, copies, saving, unfound, topicVars, faults>>

-----------------------------------------------------------------------------
\* The code an AppError is answered with.
StatusCode ==
    [e \in {"BadRequest", "Validation", "Unauthorized", "NotFound", "Internal",
            "Database", "Email", "ChannelClosed"} |->
        CASE e \in {"BadRequest", "Validation"} -> "400"
          [] e = "Unauthorized" -> "401"
          [] e = "NotFound" -> "404"
          [] OTHER -> "500"]

\* The answer to a post that failed may be lost, or be one SNS retries.
AnswerError(n, error) ==
    sns' \in {sns} \cup (IF StatusCode[error] \in RetriedCodes THEN {} ELSE {sns \ {n}})

\* Mutant: any copy of the email leads to its row once that is Sent.
RequestsOfEmail(id) == {r \in Rows : r = id[1] /\ status[r] = "Sent"}

\* get_request_id_by_message_id
RequestsOf(id) == {r \in Rows : id \in message_id[r]}

Posted(n) == n \in sns /\ \A s \in saving : s.note # n

\* The lookup finds nothing.
NotFound(n, sent) ==
    /\ AnswerError(n, "NotFound") /\ UNCHANGED saving
    /\ unfound' = IF n \in sns' THEN unfound ELSE unfound \cup {[note |-> n, sent |-> sent]}

\* process_ses_notification up to its lookup.  No row and a query that fails
\* are the same to it.
Lookup(n) ==
    /\ Posted(n)
    /\ \/ /\ \E r \in RequestsOf(n.id) : saving' = saving \cup {[note |-> n, request |-> r]}
          /\ UNCHANGED <<sns, unfound, faults>>
       \/ /\ RequestsOf(n.id) = {} /\ UNCHANGED faults
          /\ NotFound(n, status[n.id[1]] = "Sent")
       \/ Fault /\ NotFound(n, FALSE)
    /\ UNCHANGED <<rowVars, sesVars, topicVars>>

AddResult(r, kind) ==
    /\ results[r][kind] < IF kind = "Open" THEN MaxOpens ELSE MaxRows
    /\ results' = [results EXCEPT ![r][kind] = @ + 1]
    /\ UNCHANGED <<status, message_id>>

\* Mutant: after a failed insert SNS is told that all is well.
SaveResultOrShrug(s) ==
    /\ s \in saving
    /\ saving' = saving \ {s}
    /\ sns' = sns \ {s.note}
    /\ \/ AddResult(s.request, s.note.kind) /\ UNCHANGED faults
       \/ Fault /\ UNCHANGED rowVars
    /\ UNCHANGED <<unfound, sesVars, topicVars>>

\* EmailResult::save, and the answer: 200, which may get lost, or 500.
SaveResult(s) ==
    /\ s \in saving
    /\ saving' = saving \ {s}
    /\ \/ /\ AddResult(s.request, s.note.kind)
          /\ sns' \in {sns, sns \ {s.note}}
          /\ UNCHANGED faults
       \/ /\ Fault
          /\ AnswerError(s.note, "Database")
          /\ UNCHANGED rowVars
    /\ UNCHANGED <<unfound, sesVars, topicVars>>

\* track_open: whoever loads the pixel, for any id; the foreign key refuses
\* ids without a row, and the answer is the pixel whatever happened.
TrackOpen(r) ==
    /\ r \in Rows
    /\ AddResult(r, "Open")
    /\ UNCHANGED <<sesVars, postVars, topicVars, faults>>

-----------------------------------------------------------------------------
\* get_request_counts_by_topic_id
RequestCounts(t) ==
    [s \in Statuses |-> Cardinality({r \in RowsOf(t) : status[r] = s})]

\* Mutant: COUNT(*) for COUNT(DISTINCT request_id), of one row here.
CountAll(t) ==
    [k \in Events |-> LET of == {r \in RowsOf(t) : results[r][k] > 0}
                      IN  IF \E r \in of : results[r][k] > 1
                          THEN Cardinality(of) + 1 ELSE Cardinality(of)]

\* get_result_counts_by_topic_id: COUNT(DISTINCT request_id)
ResultCounts(t) ==
    [k \in Events |-> Cardinality({r \in RowsOf(t) : results[r][k] > 0})]

\* get_topic: two queries, joined, on two connections.
AskTopic(t) ==
    /\ topic = {} /\ topic' = {t}
    /\ before' = status /\ UNCHANGED reads
    /\ UNCHANGED <<rowVars, sesVars, postVars, faults>>

ReadRequests(t) ==
    /\ t \in topic /\ reads.requests = {}
    /\ reads' = [reads EXCEPT !.requests = {RequestCounts(t)}]
    /\ UNCHANGED <<rowVars, sesVars, postVars, topic, before, faults>>

ReadResults(t) ==
    /\ t \in topic /\ reads.results = {}
    /\ reads' = [reads EXCEPT !.results = {ResultCounts(t)}]
    /\ UNCHANGED <<rowVars, sesVars, postVars, topic, before, faults>>

\* The answer, or 500 when one of the queries failed.
AnswerTopic ==
    /\ topic # {} /\ topic' = {}
    /\ \/ reads.requests # {} /\ reads.results # {} /\ UNCHANGED faults
       \/ Fault
    /\ reads' = NoRead /\ before' = NoRow
    /\ UNCHANGED <<rowVars, sesVars, postVars>>

-----------------------------------------------------------------------------
Next ==
    \/ \E r \in Requests :
          \/ Move(r, "Absent", "Created") \/ Move(r, "Absent", "Processed")
          \/ Move(r, "Created", "Processed") \/ Move(r, "Created", "Stopped")
          \/ WriteAnswer(r) \/ SesTakes(r) \/ TrackOpen(r)
    \/ \E n \in Notifications : Notify(n) \/ Lookup(n)
    \/ \E s \in saving : SaveResult(s)
    \/ \E t \in Topics : AskTopic(t) \/ ReadRequests(t) \/ ReadResults(t)
    \/ AnswerTopic

Spec == Init /\ [][Next]_vars

-----------------------------------------------------------------------------
(* A result row other than an open belongs to an email that was sent, and  *)
(* the notification it was made of really came, for the very copy the row  *)
(* names.                                                                  *)
ResultsOfOwnEmail ==
    \A r \in Requests, k \in Kinds : results[r][k] > 0 =>
       /\ status[r] = "Sent"
       /\ \E n \in emitted : n.id \in message_id[r] /\ n.id[1] = r /\ n.kind = k

SumOf(f) == f["Created"] + f["Processed"] + f["Sent"] + f["Failed"] + f["Stopped"]

(* The two counts of get_topic are not one snapshot, posts are repeated    *)
(* and pixels loaded again; still they add up, but for what changed during *)
(* the call: no kind of result is counted for more emails than the topic   *)
(* has, nor a notification for more than were sent.                        *)
TopicAddsUp ==
    \A t \in topic, c \in reads.requests, d \in reads.results :
       /\ \A k \in Events :
             d[k] <= SumOf(c) + Cardinality({r \in RowsOf(t) : before[r] = "Absent"})
       /\ \A k \in Kinds :
             d[k] <= c["Sent"] + Cardinality({r \in RowsOf(t) : status[r] = "Sent"
                                                           /\ before[r] # "Sent"})

Unfound(n) ==
    \E u \in unfound : u.note = n /\ (n.id \in message_id[n.id[1]] => ~u.sent)

(* SNS takes a 404 as final and a 500 as a reason to post again: a         *)
(* notification it gave up is recorded, or was answered 404.  That happens *)
(* to one of the very copy the row names only if its lookup failed or came *)
(* before the post-processor had written the row.  No result is lost once  *)
(* the row was found, however often its insert fails.                      *)
LostOnlyUnfound ==
    "500" \in RetriedCodes =>
       \A n \in emitted \ sns : results[n.id[1]][n.kind] > 0 \/ Unfound(n)
=============================================================================
