-------------------------- MODULE MCObservations ---------------------------
(* Small instances of Observations for TLC: one stop of one trip, and      *)
(* three static versions, of which the second has the trip in another hour *)
(* and the third does not know it.                                         *)
EXTENDS Observations, TLC

CONSTANTS stop, v1, v2, v3, bus

Schedules == v1 :> (stop :> 4) @@ v2 :> (stop :> 6) @@ v3 :> (stop :> NULL)
ClockHours == 4 :> 7 @@ 6 :> 8
Saturday == stop :> "saturday"

Report(relationship, arrival, vehicle) ==
    [relationship |-> relationship, arrival |-> arrival, vehicle |-> vehicle]

SmallUpdates ==
    {Report("scheduled", 4, NULL), Report("unscheduled", 5, bus),
     Report("skipped", NULL, bus)}
=============================================================================
