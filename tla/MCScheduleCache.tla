-------------------------- MODULE MCScheduleCache --------------------------
(* Small instances of ScheduleCache for TLC: a summer schedule valid on    *)
(* days 0 and 1, and the autumn one published meanwhile, valid from day 1, *)
(* which has one trip more and one trip less.                              *)
EXTENDS ScheduleCache, TLC

CONSTANTS summer, autumn, ta, tb

Windows == summer :> {0, 1} @@ autumn :> {1, 2}
TripsOf == summer :> {ta} @@ autumn :> {tb}
=============================================================================
