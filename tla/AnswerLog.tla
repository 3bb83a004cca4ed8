----------------------------- MODULE AnswerLog -----------------------------
(***************************************************************************)
(* What the post-processor promises: the answer reported for an email is   *)
(* written to its row, whole and once, or not at all.                      *)
(***************************************************************************)
CONSTANTS Requests, Answers, None

VARIABLES
    reported,       \* the answer each send task reported
    recorded        \* the answer each row shows

Init ==
    /\ reported = [r \in Requests |-> None]
    /\ recorded = [r \in Requests |-> None]

Report(r, a) ==
    /\ reported[r] = None
    /\ reported' = [reported EXCEPT ![r] = a]
    /\ UNCHANGED recorded

Record(S) ==
    /\ \A r \in S : reported[r] # None /\ recorded[r] = None
    /\ recorded' = [r \in Requests |-> IF r \in S THEN reported[r] ELSE recorded[r]]
    /\ UNCHANGED reported

Next == \/ \E r \in Requests, a \in Answers : Report(r, a)
        \/ \E S \in SUBSET Requests : Record(S)

Spec == Init /\ [][Next]_<<reported, recorded>>
=============================================================================
