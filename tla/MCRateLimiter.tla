--------------------------- MODULE MCRateLimiter ---------------------------
(***************************************************************************)
(* Instances of RateLimiter for TLC.  The clock is set back by more than a *)
(* second, stands still between two ticks, or jumps forward by a second.   *)
(***************************************************************************)
EXTENDS RateLimiter

MCClockSteps == {-(TicksPerSec + 1), -1, TicksPerSec}
=============================================================================
