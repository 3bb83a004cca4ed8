----------------------------- MODULE MCPipeline -----------------------------
(***************************************************************************)
(* Instances of Pipeline for TLC.  The topics: the first request is alone  *)
(* under one topic, the others share the second.                           *)
(***************************************************************************)
EXTENDS Pipeline, TLC

CONSTANTS r1, r2, r3, r4, t1, t2, h1, h2

MCTopicOf == [r \in Requests |-> IF r = r1 THEN t1 ELSE t2]

\* r1 apart, the requests of a topic are interchangeable, and so are the handlers.
Symmetry == Permutations(Requests \ {r1}) \cup Permutations(Handlers)
=============================================================================
