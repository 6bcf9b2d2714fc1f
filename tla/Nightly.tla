------------------------------- MODULE Nightly -------------------------------
(***************************************************************************)
(* The jobs that read the observations every morning: bus-rollup builds    *)
(* yesterday's rollup, measures the coverage of every day and fails when   *)
(* yesterday's is low and nobody has said why (scripts/rollup.ts);         *)
(* bus-deploy rebuilds the site's figures, measures coverage again and     *)
(* publishes (scripts/export-site.ts, deploy-site.sh); bus-drop requires   *)
(* bus-rollup and evicts old partitions (scripts/partitions.ts).           *)
(*                                                                         *)
(* A rollup is the fact that a day has one, figures are the days they      *)
(* aggregate: module Retention has the rows.  A partition holds one day.   *)
(* A statement of SQL is one step, and what a function has written is not  *)
(* seen by others before it commits.  Jobs run when the last trips of the  *)
(* day before are over, and do not last over midnight.                     *)
(***************************************************************************)
EXTENDS Integers, FiniteSets

CONSTANTS
    Scheduled,      \* stop events the timetable has on a day
    RetainDays,     \* --retain
    MaxDay,         \* bound: local dates are 0..MaxDay
    MaxFails        \* bound on the failures of bus-deploy

ASSUME NightlyAssumption ==
    /\ Scheduled \in Nat \ {0} /\ RetainDays \in Nat
    /\ MaxDay \in Nat /\ MaxFails \in Nat

Days == 0..MaxDay
NoDay == -1
Jobs == {"rollup", "deploy"}

(* coverage_pct is rounded to one decimal; the alarm is below 85.          *)
Low(events) == (2000 * events + Scheduled) \div (2 * Scheduled) < 850

VARIABLES
    today,
    seen,       \* [day -> stop events of its timetable that were observed]
    evicted,    \* the days whose partition has been dropped
    rolled,     \* the days in rollup_daily
    coverage,   \* the table day_coverage
    place,      \* [job -> where it is]
    todo,       \* [job -> the days build_day_coverage_all has still to do]
    row,        \* [job -> the row build_day_coverage is about to store]
    wrote,      \* [job -> [day -> its row that is not committed]]
    drop,       \* bus-drop: idle, waiting for bus-rollup, or running
    page,       \* what the export that runs has built and written
    published,
    fails       \* failures of bus-deploy

rawVars == <<seen, evicted>>
rebuildVars == <<todo, row, wrote>>
siteVars == <<page, published, fails>>
vars == <<today, rawVars, rolled, coverage, place, rebuildVars, drop,
          siteVars>>

(* `known' says that known_gap_reason is not null.                         *)
NoRow == [exists |-> FALSE, events |-> 0, known |-> FALSE]
NotReading == [day |-> NoDay, events |-> 0, known |-> FALSE]
NothingWritten == [d \in Days |-> NoRow]
Nothing == [whole |-> TRUE, figures |-> {}, headline |-> NoDay]

Init ==
    /\ today = 0
    /\ seen = [d \in Days |-> 0]
    /\ evicted = {}
    /\ rolled = {}
    /\ coverage = NothingWritten
    /\ place = [j \in Jobs |-> "idle"]
    /\ todo = [j \in Jobs |-> {}]
    /\ row = [j \in Jobs |-> NotReading]
    /\ wrote = [j \in Jobs |-> NothingWritten]
    /\ drop = "idle"
    /\ page = Nothing
    /\ published = Nothing
    /\ fails = 0

-----------------------------------------------------------------------------
(* The world of the jobs: the worker, the clock, the operator.             *)
(* A day ends; the worker has observed some of its stop events.            *)
NextDay(events) ==
    /\ today < MaxDay
    /\ drop = "idle" /\ \A j \in Jobs : place[j] = "idle"
    /\ today' = today + 1
    /\ seen' = [seen EXCEPT ![today] = events]
    /\ UNCHANGED <<evicted, rolled, coverage, place, rebuildVars, drop, siteVars>>

(* A row that somebody has written and not committed is locked.            *)
Locked(d) == \E j \in Jobs : wrote[j][d].exists

(* An operator gives a day its reason, as sql/005 does for three days.     *)
Diagnose(d) ==
    /\ d < today
    /\ ~coverage[d].known /\ ~Locked(d)
    /\ coverage' = [coverage EXCEPT ![d] = [@ EXCEPT !.exists = TRUE, !.known = TRUE]]
    /\ UNCHANGED <<today, rawVars, rolled, place, rebuildVars, drop,
                   siteVars>>

-----------------------------------------------------------------------------
(* build_day_coverage_all: one transaction, a step per statement.          *)
Goto(j, where) == place' = [place EXCEPT ![j] = where]

Covered == {d \in Days : d < today /\ seen[d] > 0 /\ d \notin evicted}

BeginRebuild(j) ==
    /\ place[j] = "rebuild"
    /\ Goto(j, "coverage")
    /\ todo' = [todo EXCEPT ![j] = Covered]
    /\ UNCHANGED <<today, rawVars, rolled, coverage, row, wrote, drop,
                   siteVars>>

(* Mutant: the days come in no order.                                      *)
IsNextAny(j, d) == d \in todo[j]
IsNext(j, d) == d \in todo[j] /\ \A n \in todo[j] : d <= n

(* build_day_coverage reads the reason there is and counts the day's       *)
(* events.  One static version is in force, with service on every day.     *)
Events(d) == IF d \in evicted THEN 0 ELSE seen[d]

CountDay(j, d) ==
    /\ place[j] = "coverage"
    /\ row[j] = NotReading /\ IsNext(j, d)
    /\ todo' = [todo EXCEPT ![j] = @ \ {d}]
    /\ row' = [row EXCEPT ![j] = [day |-> d, events |-> Events(d), known |-> coverage[d].known]]
    /\ UNCHANGED <<today, rawVars, rolled, coverage, place, wrote, drop,
                   siteVars>>

(* INSERT ... ON CONFLICT DO UPDATE, which leaves the reason alone.        *)
(* Mutant: it stores the reason it has read.                               *)
KnownAsRead(j, d) == row[j].known
Known(j, d) == IF coverage[d].exists THEN coverage[d].known ELSE row[j].known

UpsertDay(j) ==
    LET d == row[j].day IN
    /\ d # NoDay /\ ~Locked(d)
    /\ wrote' = [wrote EXCEPT ![j][d] =
                    [exists |-> TRUE, events |-> row[j].events, known |-> Known(j, d)]]
    /\ row' = [row EXCEPT ![j] = NotReading]
    /\ UNCHANGED <<today, rawVars, rolled, coverage, place, todo, drop,
                   siteVars>>

EndRebuild(j) ==
    /\ place[j] = "coverage"
    /\ todo[j] = {} /\ row[j] = NotReading
    /\ Goto(j, "measured")
    /\ coverage' = [d \in Days |-> IF wrote[j][d].exists THEN wrote[j][d] ELSE coverage[d]]
    /\ wrote' = [wrote EXCEPT ![j] = NothingWritten]
    /\ UNCHANGED <<today, rawVars, rolled, todo, row, drop, siteVars>>

RollBack(j) ==
    /\ todo' = [todo EXCEPT ![j] = {}]
    /\ row' = [row EXCEPT ![j] = NotReading]
    /\ wrote' = [wrote EXCEPT ![j] = NothingWritten]

-----------------------------------------------------------------------------
(* bus-rollup.                                                             *)
StartRollup ==
    /\ today > 0
    /\ place["rollup"] = "idle"
    /\ Goto("rollup", "build")
    /\ UNCHANGED <<today, rawVars, rolled, coverage, rebuildVars, drop,
                   siteVars>>

(* build_rollup_daily of yesterday.                                        *)
BuildDaily ==
    LET date == today - 1 IN
    /\ place["rollup"] = "build"
    /\ Goto("rollup", "rebuild")
    /\ rolled' = IF seen[date] > 0 /\ date \notin evicted THEN rolled \cup {date}
                                                          ELSE rolled \ {date}
    /\ UNCHANGED <<today, rawVars, coverage, rebuildVars, drop, siteVars>>

(* bus-drop has waited for this; systemd does not run it when the job that *)
(* it requires has failed.                                                 *)
EndRollup(failed) ==
    /\ Goto("rollup", "idle")
    /\ drop' = IF drop # "waiting" THEN drop ELSE IF failed THEN "idle" ELSE "running"
    /\ UNCHANGED <<today, rawVars, rolled, siteVars>>

(* Mutant: the coverage of a day before yesterday is looked at.            *)
CheckOlder ==
    LET c == coverage[IF today > 1 THEN today - 2 ELSE 0] IN
    /\ place["rollup"] = "measured"
    /\ EndRollup(c.exists /\ ~c.known /\ Low(c.events))
    /\ UNCHANGED <<coverage, rebuildVars>>

Check ==
    LET c == coverage[today - 1] IN
    /\ place["rollup"] = "measured"
    /\ EndRollup(c.exists /\ ~c.known /\ Low(c.events))
    /\ UNCHANGED <<coverage, rebuildVars>>

RollupFails ==
    /\ place["rollup"] # "idle"
    /\ EndRollup(TRUE)
    /\ RollBack("rollup")
    /\ UNCHANGED coverage

(* bus-drop.  Its start starts bus-rollup, or joins the run there is.      *)
StartDrop ==
    /\ today > 0
    /\ drop = "idle"
    /\ drop' = "waiting"
    /\ IF place["rollup"] = "idle" THEN Goto("rollup", "build") ELSE UNCHANGED place
    /\ UNCHANGED <<today, rawVars, rolled, coverage, rebuildVars, siteVars>>

(* dropExpiredPartitions refuses a partition with a day that is not rolled *)
(* up, and cannot have its lock while a transaction reads the table.       *)
Droppable == {d \in Days : /\ d < today - RetainDays /\ d \notin evicted
                           /\ seen[d] > 0 => d \in rolled}
TableInUse == \E j \in Jobs : place[j] = "coverage"

(* Mutant: the partition is detached without waiting for its readers.      *)
DropPartitionNow(d) ==
    /\ drop = "running" /\ d \in Droppable
    /\ evicted' = evicted \cup {d}
    /\ UNCHANGED <<today, seen, rolled, coverage, place, rebuildVars, drop, siteVars>>

DropPartition(d) ==
    /\ drop = "running" /\ d \in Droppable /\ ~TableInUse
    /\ evicted' = evicted \cup {d}
    /\ UNCHANGED <<today, seen, rolled, coverage, place, rebuildVars, drop, siteVars>>

(* It has been through the partitions, or fails before that.               *)
EndDrop ==
    /\ drop = "running"
    /\ drop' = "idle"
    /\ UNCHANGED <<today, rawVars, rolled, coverage, place, rebuildVars, siteVars>>

-----------------------------------------------------------------------------
(* bus-deploy: build_stop_route_hour_stats, the coverage, the headline,    *)
(* the files, and wrangler.  What it leaves behind when it ends, the next  *)
(* one replaces before it reads it.  Mutant: diagnosed days are kept.      *)
FiguredAll == rolled
Figured == {d \in rolled : ~coverage[d].known}

StartDeploy ==
    /\ place["deploy"] = "idle"
    /\ Goto("deploy", "rebuild")
    /\ page' = [whole |-> FALSE, figures |-> Figured, headline |-> NoDay]
    /\ UNCHANGED <<today, rawVars, rolled, coverage, rebuildVars, drop, published,
                   fails>>

(* The most recent day whose coverage is not low.  Mutant: any day that    *)
(* has been measured.                                                      *)
FitKnown(d) == d \in rolled /\ d < today /\ coverage[d].exists
Fit(d) == d \in rolled /\ d < today /\ coverage[d].exists /\ ~Low(coverage[d].events)

IsHeadline(d) ==
    \/ Fit(d) /\ \A n \in Days : Fit(n) => n <= d
    \/ d = NoDay /\ ~\E n \in Days : Fit(n)

(* The headline is read, the directory is removed, files are written; then *)
(* the last of them.                                                       *)
WriteFiles ==
    /\ place["deploy"] = "measured"
    /\ Goto("deploy", "write")
    /\ \E d \in Days \cup {NoDay} : IsHeadline(d) /\ page' = [page EXCEPT !.headline = d]
    /\ UNCHANGED <<today, rawVars, rolled, coverage, rebuildVars, drop, published,
                   fails>>

WriteIndex ==
    /\ place["deploy"] = "write"
    /\ Goto("deploy", "publish")
    /\ page' = [page EXCEPT !.whole = TRUE]
    /\ UNCHANGED <<today, rawVars, rolled, coverage, rebuildVars, drop, published,
                   fails>>

EndDeploy ==
    /\ Goto("deploy", "idle")
    /\ page' = Nothing
    /\ RollBack("deploy")
    /\ UNCHANGED <<today, rawVars, rolled, coverage, drop>>

Publish ==
    /\ place["deploy"] = "publish"
    /\ published' = page
    /\ EndDeploy
    /\ UNCHANGED fails

(* The script stops at an export that fails, and wrangler may fail.        *)
DeployFails ==
    /\ place["deploy"] # "idle" /\ fails < MaxFails
    /\ fails' = fails + 1
    /\ EndDeploy
    /\ UNCHANGED published

-----------------------------------------------------------------------------
RebuildStep(j) ==
    \/ BeginRebuild(j)
    \/ \E d \in todo[j] : CountDay(j, d)
    \/ UpsertDay(j)
    \/ EndRebuild(j)

Next ==
    \/ \E events \in 0..Scheduled : NextDay(events)
    \/ \E d \in Days : Diagnose(d)
    \/ \E j \in Jobs : RebuildStep(j)
    \/ StartRollup \/ BuildDaily \/ Check \/ RollupFails
    \/ StartDrop \/ EndDrop \/ \E d \in Days : DropPartition(d)
    \/ StartDeploy \/ WriteFiles \/ WriteIndex \/ Publish \/ DeployFails

Spec == Init /\ [][Next]_vars

(* The timer starts bus-deploy every morning, and its steps are taken: the *)
(* failures are bounded.  bus-rollup ends, and a lock it gives back goes   *)
(* to the one that waits for it.                                           *)
DeployStep ==
    RebuildStep("deploy") \/ StartDeploy \/ WriteFiles \/ WriteIndex \/ Publish
RollupStep == RebuildStep("rollup") \/ BuildDaily \/ Check \/ RollupFails

FairSpec == Spec /\ WF_vars(DeployStep) /\ WF_vars(RollupStep) /\ SF_vars(UpsertDay("deploy"))
-----------------------------------------------------------------------------
(* Properties.                                                             *)

(* The variables have the types of the tables.                             *)
Row == [exists : BOOLEAN, events : 0..Scheduled, known : BOOLEAN]
Reading == [day : Days \cup {NoDay}, events : 0..Scheduled, known : BOOLEAN]
Site == [whole : BOOLEAN, figures : SUBSET Days, headline : Days \cup {NoDay}]

TypeOK ==
    /\ today \in Days
    /\ seen \in [Days -> 0..Scheduled]
    /\ evicted \subseteq Days /\ rolled \subseteq Days
    /\ coverage \in [Days -> Row]
    /\ place \in [Jobs -> {"idle", "build", "rebuild", "coverage", "measured", "write", "publish"}]
    /\ todo \in [Jobs -> SUBSET Days]
    /\ row \in [Jobs -> Reading]
    /\ wrote \in [Jobs -> [Days -> Row]]
    /\ drop \in {"idle", "waiting", "running"}
    /\ page \in Site /\ published \in Site
    /\ fails \in Nat

(* "A fresh diagnosis is never clobbered by a plain rebuild" (sql/005),    *)
(* although the rebuild has read the row before the operator wrote it.     *)
DiagnosisKept ==
    [][\A d \in Days : coverage[d].known => coverage'[d].known]_vars

(* Coverage of an evicted day can never be measured again: it stays what   *)
(* was measured while its observations were there, however rebuilds of two *)
(* jobs and the eviction interleave.                                       *)
EvictedDaysStayOnRecord ==
    \A d \in evicted : seen[d] > 0 =>
        coverage[d].exists /\ coverage[d].events = seen[d]

(* "A gap is caught the next morning" (rollup.ts): nothing is evicted      *)
(* while yesterday was observed, was low, and nobody has said why.         *)
EvictionAwaitsDiagnosis ==
    [][evicted' # evicted =>
          \/ seen[today - 1] = 0 \/ ~Low(seen[today - 1])
          \/ coverage[today - 1].known]_vars

(* Two rebuilds never wait for each other: both take the days in order.    *)
Waits(j, k) == row[j].day # NoDay /\ wrote[k][row[j].day].exists

RebuildsNeverDeadlock == ~(Waits("rollup", "deploy") /\ Waits("deploy", "rollup"))

(* The site's headline is never the figures of a day whose coverage is     *)
(* under the limit (export-site.ts), whoever rebuilds meanwhile, and no    *)
(* half written site is published.  A diagnosed day over the limit may     *)
(* still be the headline.                                                  *)
HeadlineIsCovered ==
    /\ published.whole
    /\ published.headline # NoDay => ~Low(seen[published.headline])

(* A day somebody has diagnosed leaves the figures of the serving tier     *)
(* (sql/004) on the site for good, although an export that is under way    *)
(* still publishes it.  The snapshot and the totals of the export read     *)
(* rollup_daily and are not meant.                                         *)
GapsLeaveTheFigures ==
    \A d \in 0..(MaxDay - 1) : coverage[d].known ~> [](d \notin published.figures)
=============================================================================
