---------------------------- MODULE MCTransform ----------------------------
(* Small instances of Transform for TLC: Chicago's clocks go forward at    *)
(* 02:00 of day 7, a Sunday.  A night trip runs daily, before midnight and *)
(* after it, a tram does not appear in the timetable.                      *)
EXTENDS Transform, TLC

CONSTANTS night, extra, bus

Spring == 7 * Day + 8 * Hour
Standard == -6 * Hour
Daylight == -5 * Hour

NightTrip == [dates |-> {5, 6, 7, 8}, times |-> (1 :> 1430 @@ 2 :> 1570)]
Timetable == night :> NightTrip

Delays == {-20, 0, 650}

StopReport(n, relationship, arrival) ==
    [sequence |-> n, relationship |-> relationship, arrival |-> arrival]

(* What the feed may say of the two scheduled stops of a run of the night  *)
(* trip that is late by d, and of an added third one: the first is due, or *)
(* has a departure only; the first has no number, and the second an        *)
(* arrival that is not to be used, or none.                                *)
Reported(run, d) ==
    LET At(n) == StopReport(n, "scheduled", TimetableInstant(run, NightTrip.times[n]) + d)
        Added == StopReport(3, "unscheduled", TimetableInstant(run, 1590) + d)
        Nameless == StopReport(NULL, "scheduled", 0)
    IN {<<At(1), At(2)>>,
        <<StopReport(1, "scheduled", NULL), At(2), Added>>,
        <<Nameless, [At(2) EXCEPT !.relationship = "no_data"], Added>>,
        <<Nameless, StopReport(2, "no_data", NULL), Added>>}

Entity(trip, affects, vehicle, stamp, stops, run) ==
    [kind |-> "tripUpdate", trip |-> trip, affects |-> affects, vehicle |-> vehicle,
     stamp |-> stamp, stops |-> stops, run |-> run]

Live == UNION {{Entity(night, NULL, bus, 1, s, run) : s \in Reported(run, d)} :
                  run \in {6, 7}, d \in Delays}
LiveDetour == {Entity(night, night, bus, NULL, s, 6) : s \in Reported(6, 0)}
Planned == UNION {{Entity(NULL, night, NULL, stamp, s, run) : s \in Reported(run, -20)} :
                     run \in {6, 7}, stamp \in {0, 1, NULL}}
Extra == {Entity(extra, NULL, bus, 1, <<StopReport(1, "scheduled", 7 * Day)>>, 7)}
Other == {[kind |-> "shape"], Entity(NULL, NULL, bus, 1, << >>, 7)}

Published == Live \cup LiveDetour \cup Planned \cup Extra \cup Other
SmallFeeds == {<<a, b>> : a, b \in Published}

(* 23:00 of day 6, and 04:00 of day 7 by the new clock.                    *)
SmallHeaders == {7 * Day + 5 * Hour, 7 * Day + 9 * Hour}
=============================================================================
