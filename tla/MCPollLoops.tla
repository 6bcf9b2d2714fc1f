---------------------------- MODULE MCPollLoops ----------------------------
(* Small instances of PollLoops for TLC.                                   *)
EXTENDS PollLoops, TLC

CONSTANTS trips, alerts

SmallIntervals == trips :> 2 @@ alerts :> 7
=============================================================================
