--------------------------- MODULE RetentionRules ---------------------------
(***************************************************************************)
(* What selectForRetention of scripts/backup-database.ts promises: the     *)
(* dumps to keep, by generation, as sets.  Module Selection is its loop.   *)
(***************************************************************************)
EXTENDS Integers, FiniteSets

CONSTANTS
    MaxTime,        \* bound: runs begin at times 0..MaxTime
    Keep,           \* how many periods of a generation are kept: 7, 4, 12
    Period,         \* [generation -> [time -> key of its day, week or month]]
    YearStart       \* [year -> day number of its 1 January]

Generations == {"daily", "weekly", "monthly"}
Times == 0..MaxTime

ASSUME BackupAssumption ==
    /\ MaxTime \in Nat
    /\ Keep \in [Generations -> Nat \ {0}]

(* weekKey: the ISO week of a day is that of its Thursday.  Day 0 is the   *)
(* first of January 1970, a Thursday.                                      *)
Weekday(d) == ((d + 3) % 7) + 1
Thursday(d) == d + 4 - Weekday(d)
InYear(d, y) ==
    y \in DOMAIN YearStart /\ y + 1 \in DOMAIN YearStart
        /\ YearStart[y] <= d /\ d < YearStart[y + 1]
WeekKey(d) ==
    LET year == CHOOSE y \in DOMAIN YearStart : InYear(Thursday(d), y)
    IN  <<year, (Thursday(d) - YearStart[year] + 1 + 6) \div 7>>

(* A dump is kept for a generation when the newer ones have filled neither *)
(* its quota nor its period.                                               *)
NewerKeys(g, t, names) == {Period[g][n] : n \in {n \in names : n > t}}

Kept(g, names) ==
    {t \in names : /\ Cardinality(NewerKeys(g, t, names)) < Keep[g]
                   /\ Period[g][t] \notin NewerKeys(g, t, names)}

Retain(names) == UNION {Kept(g, names) : g \in Generations}
=============================================================================
