---------------------------- MODULE MCPacedSends ----------------------------
(***************************************************************************)
(* An instance of PacedSends for TLC: the clock may be set back by more    *)
(* than a second.                                                          *)
(***************************************************************************)
EXTENDS PacedSends

MCClockSteps == {-(TicksPerSec + 1)}
=============================================================================
