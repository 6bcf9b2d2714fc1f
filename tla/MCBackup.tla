------------------------------ MODULE MCBackup ------------------------------
(* A small instance of Backup for TLC: two runs on 29 December 2026, a     *)
(* Tuesday, then one every second day, so that a week spans two months and *)
(* two years.                                                              *)
EXTENDS Backup, TLC

MCYearStart == (2026 :> 20454) @@ (2027 :> 20819) @@ (2028 :> 21184)
MCDay(t) == 20816 + 2 * (IF t = 0 THEN 0 ELSE t - 1)
MCPeriod ==
    [daily |-> [t \in Times |-> MCDay(t)],
     weekly |-> [t \in Times |-> WeekKey(MCDay(t))],
     monthly |-> [t \in Times |-> IF MCDay(t) < 20819 THEN 12 ELSE 1]]
MCKeep == [daily |-> 2, weekly |-> 1, monthly |-> 2]
=============================================================================
