----------------------------- MODULE Retention -----------------------------
(***************************************************************************)
(* The life of raw observations: weekly partitions created ahead           *)
(* (src/db/partitions.ts, called by the worker and by                      *)
(* scripts/partitions.ts), rollups built from the raw rows                 *)
(* (scripts/rollup.ts, sql/003_rollups.sql), and partitions dropped once   *)
(* they are old and rolled up.  Worker, rollup and eviction are separate   *)
(* processes on one database.                                              *)
(*                                                                         *)
(* A rollup run does not last over midnight.  A row is a model value, and  *)
(* whether it is countable does not change here (module Observations has   *)
(* the columns).  A rollup is the set of rows it aggregates: a day without *)
(* countable rows has no rollup rows at all.                               *)
(***************************************************************************)
EXTENDS Integers

CONSTANTS
    Rows,
    CountableRows,
    WeekDays,       \* days per partition (7)
    MonthDays,      \* days per month
    Ahead,          \* weeksAhead of the worker (6); the script's is larger
    Behind,         \* weeksBehind at the worker's start (2)
    RetainDays,     \* --retain
    BackfillDays,   \* the largest --backfill used; the nightly run is 1
    MonthlyAge,     \* how long after its first day a month is still rebuilt
    AnyDate,        \* whether rollup.ts is also run with --date, on any day
    MaxDay          \* bound: local dates are 0..MaxDay

ASSUME RetentionAssumption ==
    /\ CountableRows \subseteq Rows
    /\ WeekDays \in Nat \ {0} /\ MonthDays \in Nat \ {0}
    /\ Ahead \in Nat /\ Behind \in Nat
    /\ RetainDays \in Nat /\ BackfillDays \in Nat \ {0} /\ MonthlyAge \in Nat
    /\ AnyDate \in BOOLEAN
    /\ MaxDay \in Nat

Days == 0..(MaxDay + 1)
Week(d) == d \div WeekDays
Month(d) == d \div MonthDays
LastDay(w) == (w + 1) * WeekDays - 1
NoWeek == -100

VARIABLES
    today,
    night,      \* trips of yesterday are still running
    up,         \* the worker
    workerDay,  \* its currentServiceDay
    parts,      \* the weeks that have a partition
    placed,     \* [day -> rows in the partition of its week]
    stray,      \* [day -> rows in the DEFAULT partition]
    daily,      \* [day -> rows its rollup_daily aggregates]
    monthly,    \* [day -> rows of it that its month's rollup aggregates]
    dropping,   \* whether dropExpiredPartitions is running
    todo,       \* the expired weeks it has still to look at
    checked,    \* the week whose guard query has passed, or NoWeek
    ever,       \* [day -> rows ever stored for it]
    ensured,    \* the week of the worker's last successful ensurePartitions
    behind,     \* the worker has lived on past the lookahead of `ensured`
    blocked     \* an ensurePartitions was refused by the database

workerVars == <<up, workerDay>>
rawVars == <<parts, placed, stray>>
dropVars == <<dropping, todo, checked>>
ghostVars == <<ever, ensured, behind, blocked>>
vars == <<today, night, workerVars, rawVars, daily, monthly, dropVars, ghostVars>>

Raw(d) == placed[d] \cup stray[d]
NoRows == [d \in Days |-> {}]

Init ==
    /\ today = 0
    /\ night = FALSE
    /\ up = FALSE
    /\ workerDay = 0
    /\ parts = {}
    /\ placed = NoRows
    /\ stray = NoRows
    /\ daily = NoRows
    /\ monthly = NoRows
    /\ dropping = FALSE
    /\ todo = {}
    /\ checked = NoWeek
    /\ ever = NoRows
    /\ ensured = 0
    /\ behind = FALSE
    /\ blocked = FALSE

-----------------------------------------------------------------------------
(* ensurePartitions creates the missing weeks in order.  The database      *)
(* refuses a partition for which the DEFAULT one holds rows; the call      *)
(* throws, and the weeks after it are not created.                         *)
Refused(first, last) ==
    {w \in first..last : w \notin parts /\ \E d \in Days : Week(d) = w /\ stray[d] # {}}

(* Mutant: the loop stops one week early.                                  *)
EnsureTooFew(first, last) ==
    /\ Refused(first, last) = {}
    /\ parts' = parts \cup first..(last - 1)
    /\ UNCHANGED blocked

EnsureSucceeds(first, last) ==
    /\ Refused(first, last) = {}
    /\ parts' = parts \cup first..last
    /\ UNCHANGED blocked

EnsureRefused(first, last) ==
    /\ Refused(first, last) # {}
    /\ parts' = parts \cup {w \in first..last : \A b \in Refused(first, last) : w < b}
    /\ blocked' = TRUE

(* main(): a refused partition ends the process before it polls.           *)
StartWorker ==
    LET first == Week(today) - Behind
        last == Week(today) + Ahead
    IN
    /\ ~up
    /\ \/ /\ EnsureSucceeds(first, last)
          /\ up' = TRUE
          /\ workerDay' = today
          /\ ensured' = Week(today)
       \/ /\ EnsureRefused(first, last)
          /\ UNCHANGED <<up, workerDay, ensured>>
    /\ UNCHANGED <<today, night, placed, stray, daily, monthly, dropVars, ever, behind>>

StopWorker ==
    /\ up
    /\ up' = FALSE
    /\ UNCHANGED <<today, night, workerDay, rawVars, daily, monthly, dropVars, ghostVars>>

(* onDayRollover: the day counts as rolled over whether or not the         *)
(* partitions could be created.                                            *)
Rollover ==
    LET last == Week(today) + Ahead IN
    /\ up
    /\ workerDay # today
    /\ workerDay' = today
    /\ \/ /\ EnsureSucceeds(Week(today), last)
          /\ ensured' = Week(today)
          /\ behind' = (behind \/ Week(today - 1) > ensured + Ahead)
       \/ /\ \/ EnsureRefused(Week(today), last)
             \/ UNCHANGED <<parts, blocked>>
          /\ behind' = (behind \/ Week(today + 1) > ensured + Ahead)
          /\ UNCHANGED ensured
    /\ UNCHANGED <<today, night, up, placed, stray, daily, monthly, dropVars, ever>>

(* upsertObservations: a service date is today or a neighbour of it.       *)
Store(d, r) ==
    /\ up
    /\ workerDay = today
    /\ d = today \/ d = today + 1 \/ (night /\ d = today - 1)
    /\ r \notin Raw(d)
    /\ ever' = [ever EXCEPT ![d] = @ \cup {r}]
    /\ \/ /\ Week(d) \in parts
          /\ placed' = [placed EXCEPT ![d] = @ \cup {r}]
          /\ UNCHANGED stray
       \/ /\ Week(d) \notin parts
          /\ stray' = [stray EXCEPT ![d] = @ \cup {r}]
          /\ UNCHANGED placed
    /\ UNCHANGED <<today, night, workerVars, parts, daily, monthly, dropVars,
                   ensured, behind, blocked>>

-----------------------------------------------------------------------------
(* rollup.ts and the SQL functions: the old rollup rows are deleted and    *)
(* built again from the raw rows there are.                                *)
Countable(rows) == rows \cap CountableRows

(* Mutant: a day is rolled up from midnight on.                            *)
SettledAtMidnight(d) == d < today
Settled(d) == d < today - 1 \/ (d = today - 1 /\ ~night)

(* Mutant: a day is rebuilt however old it is.                             *)
RollupDayAnyAge(d) ==
    /\ Settled(d)
    /\ daily' = [daily EXCEPT ![d] = Countable(Raw(d))]
    /\ UNCHANGED <<today, night, workerVars, rawVars, monthly, dropVars, ghostVars>>

RollupDay(d) ==
    /\ \/ /\ Settled(d)
          /\ today - BackfillDays <= d
       \/ AnyDate
    /\ daily' = [daily EXCEPT ![d] = Countable(Raw(d))]
    /\ UNCHANGED <<today, night, workerVars, rawVars, monthly, dropVars, ghostVars>>

RollupMonth(m) ==
    /\ m * MonthDays <= today
    /\ today - m * MonthDays <= MonthlyAge \/ AnyDate
    /\ monthly' = [d \in Days |-> IF Month(d) = m THEN Countable(Raw(d)) ELSE monthly[d]]
    /\ UNCHANGED <<today, night, workerVars, rawVars, daily, dropVars, ghostVars>>

-----------------------------------------------------------------------------
(* partitions.ts --drop: ensurePartitions, then dropExpiredPartitions.     *)
Expired(w) == LastDay(w) < today - RetainDays

BeginDrop ==
    LET first == Week(today) - 1
        last == Week(today) + Ahead + 2
    IN
    /\ ~dropping
    /\ \/ /\ EnsureSucceeds(first, last)
          /\ dropping' = TRUE
          /\ todo' = {w \in parts' : Expired(w)}
       \/ /\ EnsureRefused(first, last)
          /\ UNCHANGED <<dropping, todo>>
    /\ UNCHANGED <<today, night, workerVars, placed, stray, daily, monthly, checked,
                   ever, ensured, behind>>

(* The guard: every day of the week that has raw rows has rollup rows.     *)
RolledUp(w) ==
    \A d \in Days : Week(d) = w /\ Raw(d) # {} => daily[d] # {}

CheckPartition(w) ==
    /\ dropping
    /\ checked = NoWeek
    /\ w \in todo
    /\ todo' = todo \ {w}
    /\ checked' = IF RolledUp(w) THEN w ELSE NoWeek
    /\ UNCHANGED <<today, night, workerVars, rawVars, daily, monthly, dropping, ghostVars>>

DropPartition ==
    /\ dropping
    /\ checked # NoWeek
    /\ parts' = parts \ {checked}
    /\ placed' = [d \in Days |-> IF Week(d) = checked THEN {} ELSE placed[d]]
    /\ checked' = NoWeek
    /\ UNCHANGED <<today, night, workerVars, stray, daily, monthly, dropping, todo, ghostVars>>

EndDrop ==
    /\ dropping
    /\ todo = {} /\ checked = NoWeek
    /\ dropping' = FALSE
    /\ UNCHANGED <<today, night, workerVars, rawVars, daily, monthly, todo, checked, ghostVars>>

(* A query fails, or the job is killed.                                    *)
AbortDrop ==
    /\ dropping
    /\ dropping' = FALSE
    /\ todo' = {}
    /\ checked' = NoWeek
    /\ UNCHANGED <<today, night, workerVars, rawVars, daily, monthly, ghostVars>>

-----------------------------------------------------------------------------
Midnight ==
    /\ today < MaxDay
    /\ ~night
    /\ today' = today + 1
    /\ night' = TRUE
    /\ UNCHANGED <<workerVars, rawVars, daily, monthly, dropVars, ghostVars>>

(* "After the service day has fully settled" (rollup.ts).                  *)
Settle ==
    /\ night
    /\ night' = FALSE
    /\ UNCHANGED <<today, workerVars, rawVars, daily, monthly, dropVars, ghostVars>>

Worker ==
    \/ StartWorker \/ StopWorker \/ Rollover
    \/ \E d \in Days, r \in Rows : Store(d, r)

Rollup == \E d \in Days : RollupDay(d) \/ RollupMonth(Month(d))

Drop ==
    \/ BeginDrop \/ EndDrop \/ AbortDrop
    \/ \E w \in todo : CheckPartition(w)
    \/ DropPartition

Next == Worker \/ Rollup \/ Drop \/ Midnight \/ Settle

Spec == Init /\ [][Next]_vars
-----------------------------------------------------------------------------
(* Properties.                                                             *)

(* The variables have the types of the columns.                            *)
TypeOK ==
    /\ today \in 0..MaxDay
    /\ night \in BOOLEAN /\ up \in BOOLEAN
    /\ workerDay \in 0..MaxDay
    /\ parts \subseteq Int /\ todo \subseteq Int /\ checked \in Int
    /\ placed \in [Days -> SUBSET Rows]
    /\ stray \in [Days -> SUBSET Rows]
    /\ daily \in [Days -> SUBSET Rows]
    /\ monthly \in [Days -> SUBSET Rows]
    /\ ever \in [Days -> SUBSET Rows]
    /\ dropping \in BOOLEAN /\ behind \in BOOLEAN /\ blocked \in BOOLEAN
    /\ ensured \in Int

(* Eviction is lossless for the statistics: when raw rows of a day are     *)
(* gone, the day is past retention and its daily rollup aggregates every   *)
(* countable row that was ever stored for it, however rollups, late rows   *)
(* and an eviction between its check and its DROP interleave.              *)
Evicted(d) == Raw(d) # ever[d]

EvictedIsRolledUp ==
    \A d \in Days : Evicted(d) =>
        /\ d < today - RetainDays
        /\ daily[d] = Countable(ever[d])

(* "Re-running is always safe and always converges to the same answer"     *)
(* (rollup.ts): no rollup ever loses a row it had aggregated.              *)
RollupsNeverShrink ==
    [][\A d \in Days : daily[d] \subseteq daily'[d] /\ monthly[d] \subseteq monthly'[d]]_vars

(* "Creating several weeks ahead means that only happens if the worker has *)
(* been down for longer than the lookahead" (partitions.ts): unless the    *)
(* worker passed the whole lookahead without a successful ensurePartitions *)
(* (they failed, or it did not poll), no row is stored in the DEFAULT      *)
(* partition, and none refuses a partition.                                *)
NoStrayRows ==
    ~behind => ~blocked /\ \A d \in Days : stray[d] = {}
=============================================================================
