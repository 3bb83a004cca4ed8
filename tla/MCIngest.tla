------------------------------ MODULE MCIngest ------------------------------
(***************************************************************************)
(* An instance of Ingest for TLC.  The first call has two messages and     *)
(* more recipients than a chunk; the second has a message nobody is to     *)
(* get; the third has too many recipients.                                 *)
(***************************************************************************)
EXTENDS Ingest, TLC

CONSTANTS c1, c2, c3

MCCalls == {c1, c2, c3}
MCMessages == (c1 :> 2) @@ (c2 :> 2) @@ (c3 :> 1)
MCRecipients == (c1 :> <<1, 1, 2>>) @@ (c2 :> <<1, 1>>) @@ (c3 :> <<1, 1, 1, 1>>)
=============================================================================
