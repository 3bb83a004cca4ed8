---------------------------- MODULE AtLeastOnce ----------------------------
(***************************************************************************)
(* What a call of send_email promises, whatever happens between the        *)
(* service and SES.  SES may take an email several times, at any time once *)
(* it has been asked to, and even after the caller was given an answer.    *)
(* "sent" is only answered with the receipt of a copy SES did take;        *)
(* "failed" says nothing about copies.                                     *)
(***************************************************************************)
EXTENDS Naturals

CONSTANTS
    Emails,
    MaxCopies       \* how often SES can take one email

VARIABLES
    asked,          \* emails SES was asked to take
    copies,         \* how often SES took each
    answer,         \* what the caller was told
    receipt         \* the copy whose message id the caller was given

vars == <<asked, copies, answer, receipt>>

Init ==
    /\ asked = {}
    /\ copies = [e \in Emails |-> 0]
    /\ answer = [e \in Emails |-> "none"]
    /\ receipt = [e \in Emails |-> 0]

Ask(e) ==
    /\ asked' = asked \cup {e}
    /\ UNCHANGED <<copies, answer, receipt>>

Deliver(e) ==
    /\ e \in asked /\ copies[e] < MaxCopies
    /\ copies' = [copies EXCEPT ![e] = @ + 1]
    /\ UNCHANGED <<asked, answer, receipt>>

Acknowledge(e, c) ==
    /\ e \in asked /\ answer[e] = "none" /\ c \in 1 .. copies[e]
    /\ answer' = [answer EXCEPT ![e] = "sent"]
    /\ receipt' = [receipt EXCEPT ![e] = c]
    /\ UNCHANGED <<asked, copies>>

Disappoint(e) ==
    /\ e \in asked /\ answer[e] = "none"
    /\ answer' = [answer EXCEPT ![e] = "failed"]
    /\ UNCHANGED <<asked, copies, receipt>>

Next == \E e \in Emails : \/ Ask(e) \/ Deliver(e) \/ Disappoint(e)
                          \/ \E c \in 1 .. MaxCopies : Acknowledge(e, c)

Spec == Init /\ [][Next]_vars
=============================================================================
