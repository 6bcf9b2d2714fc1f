---------------------------- MODULE ServiceDate ----------------------------
(***************************************************************************)
(* Service-day arithmetic (src/util/time.ts) in a zone that changes its    *)
(* offset once.  Instants, clock readings and GTFS times are minutes; a    *)
(* date is a day number.  A GTFS time may exceed a day: 25:10 is 1510.     *)
(***************************************************************************)
EXTENDS Integers

CONSTANTS
    Before,         \* the offset from UTC until Transition
    After,          \* the offset from then on
    Transition      \* the instant of the change

Hour == 60
Day == 24 * Hour
MaxShift == 2 * Hour

(* Clocks change in the small hours, by two hours at most.                 *)
ASSUME ZoneAssumption ==
    /\ Before \in Int /\ After \in Int /\ Transition \in Int
    /\ After - Before \in (-MaxShift)..MaxShift
    /\ (Transition + Before) % Day < 6 * Hour

(* timeZoneOffsetMs *)
Offset(instant) == IF instant < Transition THEN Before ELSE After

WallClock(instant) == instant + Offset(instant)

LocalDate(instant) == WallClock(instant) \div Day

LocalHour(instant) == (WallClock(instant) % Day) \div Hour

(* Noon of a date, as a clock reading.                                     *)
Noon(date) == date * Day + 12 * Hour

(* Mutant: the day starts at local midnight.                               *)
ServiceDayStartAtMidnight(date) == date * Day - Offset(date * Day - Before)

(* Noon minus twelve hours: a first guess at the instant of noon, and one  *)
(* refinement.                                                             *)
ServiceDayStart(date) ==
    LET guess == Noon(date) - Offset(Noon(date))
    IN Noon(date) - Offset(guess) - 12 * Hour

ScheduledInstant(date, time) == ServiceDayStart(date) + time

(* Day 0 is a Sunday.                                                      *)
DayTypeOf(date) ==
    CASE date % 7 = 0 -> "sunday"
      [] date % 7 = 6 -> "saturday"
      [] OTHER -> "weekday"

Distance(a, b) == IF a >= b THEN a - b ELSE b - a

(* Mutant: the date of the clock.                                          *)
ResolveToClockDate(observed, time, runsOn) == {LocalDate(observed)} \cap runsOn

(* The candidate date on which the trip runs and whose scheduled instant   *)
(* is nearest, the earlier one of two; none if it runs on no candidate.    *)
ResolveServiceDate(observed, time, runsOn) ==
    LET centre == LocalDate(observed)
        candidates == {centre - 1, centre, centre + 1} \cap runsOn
        Away(date) == Distance(ScheduledInstant(date, time), observed)
    IN {d \in candidates : \A c \in candidates :
            Away(d) < Away(c) \/ (Away(d) = Away(c) /\ d <= c)}
-----------------------------------------------------------------------------
(* What the arithmetic is meant to compute: noon of a date is when the     *)
(* clock shows it, and a GTFS time counts from twelve hours before noon.   *)

NoonInstant(date) ==
    CHOOSE t \in {Noon(date) - Before, Noon(date) - After} : WallClock(t) = Noon(date)

TimetableInstant(date, time) == NoonInstant(date) - 12 * Hour + time

(* A bus is near enough to its timetable: less than eleven hours off, and  *)
(* before 46:00 of its service day.                                        *)
NearTimetable(observed, date, time) ==
    /\ 2 * Distance(observed, TimetableInstant(date, time)) < Day - MaxShift
    /\ observed < TimetableInstant(date, 2 * Day - MaxShift)
=============================================================================
