----------------------------- MODULE MCEvents -----------------------------
(***************************************************************************)
(* Instances of Events for TLC: every request belongs to one topic.        *)
(***************************************************************************)
EXTENDS Events, TLC

CONSTANT t
MCTopicOf == [r \in Requests |-> t]
Symmetry == Permutations(Requests)
=============================================================================
