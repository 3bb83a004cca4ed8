-------------------------- MODULE RequestLifecycle --------------------------
(***************************************************************************)
(* What the service promises about one row of email_requests, whatever its *)
(* tasks, channels and failures do in between: the status column moves     *)
(* along Created, Processed, Sent or Failed (or Created, Stopped), an      *)
(* email is handed to SES at most once, never before its time and never    *)
(* after its topic was stopped, and the status that is recorded at the end *)
(* is what SES answered.  The module Pipeline implements it.               *)
(*                                                                         *)
(* The status names are those of EmailMessageStatus; "Absent" is a row     *)
(* that has not been inserted.                                             *)
(***************************************************************************)
CONSTANTS
    Requests        \* rows of email_requests, identified by their id

VARIABLES
    status,         \* the column email_requests.status
    due,            \* the rows whose scheduled_at has passed
    outcome         \* what SES answered for the row, "None" before the call

vars == <<status, due, outcome>>

Statuses == {"Absent", "Created", "Processed", "Sent", "Failed", "Stopped"}
Outcomes == {"None", "Sent", "Failed"}

TypeOK ==
    /\ status \in [Requests -> Statuses]
    /\ due \in SUBSET Requests
    /\ outcome \in [Requests -> Outcomes]

Init ==
    /\ status = [r \in Requests |-> "Absent"]
    /\ due = {}
    /\ outcome = [r \in Requests |-> "None"]

\* The status column of the rows of S set to st.
SetStatus(S, st) == [r \in Requests |-> IF r \in S THEN st ELSE status[r]]

\* A client submits the rows of S, to be sent at their time or at once.
Schedule(S) ==
    /\ \A r \in S : status[r] = "Absent"
    /\ status' = SetStatus(S, "Created")
    /\ UNCHANGED <<due, outcome>>

SubmitNow(S) ==
    /\ \A r \in S : status[r] = "Absent"
    /\ status' = SetStatus(S, "Processed")
    /\ due' = due \cup S
    /\ UNCHANGED outcome

\* The scheduled time of a row passes.
BecomeDue(r) ==
    /\ due' = due \cup {r}
    /\ UNCHANGED <<status, outcome>>

\* The scheduler takes rows that are due.
Claim(S) ==
    /\ \A r \in S : status[r] = "Created" /\ r \in due
    /\ status' = SetStatus(S, "Processed")
    /\ UNCHANGED <<due, outcome>>

\* A topic is stopped: the rows of it that wait are stopped.
Stop(S) ==
    /\ \A r \in S : status[r] = "Created"
    /\ status' = SetStatus(S, "Stopped")
    /\ UNCHANGED <<due, outcome>>

\* The one call to SES for a row, with SES's answer.
Send(r, o) ==
    /\ status[r] = "Processed" /\ outcome[r] = "None"
    /\ outcome' = [outcome EXCEPT ![r] = o]
    /\ UNCHANGED <<status, due>>

\* SES's answers for the rows of S are written to the table.
Record(S) ==
    /\ \A r \in S : status[r] = "Processed" /\ outcome[r] # "None"
    /\ status' = [r \in Requests |-> IF r \in S THEN outcome[r] ELSE status[r]]
    /\ UNCHANGED <<due, outcome>>

Next ==
    \/ \E S \in SUBSET Requests :
          \/ Schedule(S) \/ SubmitNow(S) \/ Claim(S)
          \/ Stop(S) \/ Record(S)
    \/ \E r \in Requests : BecomeDue(r) \/ \E o \in {"Sent", "Failed"} : Send(r, o)

Spec == Init /\ [][Next]_vars

-----------------------------------------------------------------------------
(* A row whose status says Sent or Failed was handed to SES and SES        *)
(* answered that; a row that says anything earlier, or Stopped, was not    *)
(* handed over (Processed leaves both open: the answer may be on its way). *)
StatusTruthful ==
    \A r \in Requests :
        /\ status[r] \in {"Sent", "Failed"} => outcome[r] = status[r]
        /\ status[r] \in {"Absent", "Created", "Stopped"} => outcome[r] = "None"

(* A row that reached SES was due by then: nothing becomes Processed, by a *)
(* claim or a submission to be sent at once, before its time.              *)
NeverEarly == \A r \in Requests : outcome[r] # "None" => r \in due

(* What SES answered for a row is never replaced, and a row that is        *)
(* settled (Sent, Failed, Stopped) keeps its status for good.              *)
Settled ==
    [][\A r \in Requests :
          /\ outcome[r] # "None" => outcome'[r] = outcome[r]
          /\ status[r] \in {"Sent", "Failed", "Stopped"} => status'[r] = status[r]]_vars
=============================================================================
