---------------------------- MODULE NightlyProofs ----------------------------
(***************************************************************************)
(* Theorems about Nightly, for every timetable, retention, number of days  *)
(* and number of failures: what the rebuilds of two jobs, the eviction and *)
(* the publication may rely on.                                            *)
(***************************************************************************)
EXTENDS Nightly, TLAPS

(* A rebuild that is under way still has every observed day ahead of it,   *)
(* in its hands or behind it, and takes them in order; what it has counted *)
(* is right, as no partition goes while it runs.                           *)
Accounted(j, d) == d \in todo[j] \/ row[j].day = d \/ wrote[j][d].exists

RebuildOf(j) ==
    /\ place[j] # "coverage" =>
          todo[j] = {} /\ row[j].day = NoDay /\ \A d \in Days : ~wrote[j][d].exists
    /\ \A d \in todo[j] :
          d < today /\ d \notin evicted /\ (row[j].day # NoDay => row[j].day < d)
    /\ row[j].day # NoDay => row[j].day < today /\ row[j].events = seen[row[j].day]
    /\ \A d \in Days : wrote[j][d].exists =>
          /\ d < today /\ wrote[j][d].events = seen[d]
          /\ \A n \in todo[j] : d < n
          /\ row[j].day # NoDay => d < row[j].day
    /\ place[j] = "coverage" =>
          \A d \in Days : d < today /\ seen[d] > 0 /\ d \notin evicted => Accounted(j, d)

RebuildInv == \A j \in Jobs : RebuildOf(j)

(* Rows that are not committed are locked, and know a day's reason.        *)
LockInv ==
    \A d \in Days :
        /\ \A j, k \in Jobs : wrote[j][d].exists /\ wrote[k][d].exists => j = k
        /\ \A j \in Jobs : wrote[j][d].exists /\ coverage[d].known => wrote[j][d].known
        /\ coverage[d].known => coverage[d].exists

(* Where a rebuild has committed, every observed day is on record.         *)
Recorded(d) == coverage[d].exists /\ coverage[d].events = seen[d]
AllRecorded == \A d \in Days : d < today /\ seen[d] > 0 => Recorded(d)

RecordInv ==
    /\ \A d \in Days : coverage[d].events # 0 => d < today /\ coverage[d].events = seen[d]
    /\ \A d \in evicted : d < today /\ (seen[d] > 0 => Recorded(d))
    /\ place["rollup"] = "measured" \/ drop = "running" => AllRecorded

(* While bus-drop runs, yesterday needs no explanation, or has one.        *)
Explained ==
    \/ seen[today - 1] = 0 \/ ~Low(seen[today - 1])
    \/ coverage[today - 1].known

DropInv ==
    /\ place["rollup"] # "idle" \/ drop # "idle" => today > 0
    /\ drop = "running" => Explained

Presentable(site) == site.headline # NoDay =>
    site.headline < today /\ ~Low(seen[site.headline])

SiteInv ==
    /\ Presentable(page) /\ Presentable(published)
    /\ place["deploy"] = "publish" => page.whole
    /\ published.whole

NightlyInv == TypeOK /\ RebuildInv /\ LockInv /\ RecordInv /\ DropInv /\ SiteInv

-----------------------------------------------------------------------------
LEMMA DayFacts ==
    /\ Days \subseteq Nat /\ NoDay \notin Days /\ 0 \in Days
    /\ NoDay \in Int
    /\ Jobs = {"rollup", "deploy"}
    /\ 0 \in 0..Scheduled
    /\ NoRow \in Row /\ NotReading \in Reading
    /\ NothingWritten \in [Days -> Row] /\ Nothing \in Site
    /\ NotReading.day = NoDay
    /\ \A d \in Days : NothingWritten[d].exists = FALSE
BY NightlyAssumption DEF Days, NoDay, Jobs, NoRow, NotReading, NothingWritten, Nothing, Row,
   Reading, Site

LEMMA NoneIsLow == Low(0)
BY NightlyAssumption DEF Low

LEMMA InitHolds == Init => NightlyInv
<1> SUFFICES ASSUME Init PROVE NightlyInv
    OBVIOUS
<1>1. TypeOK
    BY DayFacts, NightlyAssumption DEF Init, TypeOK
<1>2. RebuildInv
    BY DayFacts DEF Init, RebuildInv, RebuildOf
<1>3. LockInv
    BY DayFacts DEF Init, LockInv, NothingWritten, NoRow
<1>4. RecordInv
    BY DayFacts DEF Init, RecordInv, NothingWritten, NoRow
<1>5. DropInv /\ SiteInv
    BY DayFacts DEF Init, DropInv, SiteInv, Presentable, Nothing
<1>6. QED
    BY <1>1, <1>2, <1>3, <1>4, <1>5 DEF NightlyInv

-----------------------------------------------------------------------------
(* Types.                                                                  *)
LEMMA EventsTyped ==
    ASSUME TypeOK, NEW d \in Days
    PROVE  Events(d) \in 0..Scheduled
BY NightlyAssumption DEF TypeOK, Events

LEMMA TypeStep == TypeOK /\ DropInv /\ [Next]_vars => TypeOK'
<1> SUFFICES ASSUME TypeOK, DropInv, [Next]_vars PROVE TypeOK'
    OBVIOUS
<1> USE DayFacts, NightlyAssumption
<1>1. ASSUME NEW events \in 0..Scheduled, NextDay(events) PROVE TypeOK'
    <2>1. today' \in Days
        BY <1>1 DEF NextDay, TypeOK, Days
    <2>2. QED
        BY <1>1, <2>1 DEF NextDay, TypeOK, rawVars, rebuildVars, siteVars
<1>2. ASSUME NEW d \in Days, Diagnose(d) PROVE TypeOK'
    <2>1. coverage' \in [Days -> Row]
        BY <1>2 DEF Diagnose, TypeOK, Row
    <2>2. QED
        BY <1>2, <2>1 DEF Diagnose, TypeOK, rawVars, rebuildVars, siteVars
<1>3. ASSUME NEW j \in Jobs, BeginRebuild(j) PROVE TypeOK'
    <2>1. Covered \subseteq Days
        BY DEF Covered
    <2>2. QED
        BY <1>3, <2>1 DEF BeginRebuild, TypeOK, Goto, rawVars, rebuildVars, siteVars
<1>4. ASSUME NEW j \in Jobs, NEW d \in todo[j], CountDay(j, d) PROVE TypeOK'
    <2>1. d \in Days
        BY <1>4 DEF TypeOK
    <2>2. [day |-> d, events |-> Events(d), known |-> coverage[d].known] \in Reading
        BY <2>1, EventsTyped DEF TypeOK, Row, Reading
    <2>3. QED
        BY <1>4, <2>1, <2>2 DEF CountDay, TypeOK, rawVars, rebuildVars, siteVars
<1>5. ASSUME NEW j \in Jobs, UpsertDay(j) PROVE TypeOK'
    <2> DEFINE d == row[j].day
    <2>1. d \in Days /\ row[j] \in Reading /\ coverage[d] \in Row
        BY <1>5 DEF UpsertDay, TypeOK, Reading
    <2>2. [exists |-> TRUE, events |-> row[j].events, known |-> Known(j, d)] \in Row
        BY <2>1 DEF Known, Reading, Row
    <2>3. wrote' \in [Jobs -> [Days -> Row]]
        BY <1>5, <2>1, <2>2 DEF UpsertDay, TypeOK
    <2>4. row' \in [Jobs -> Reading]
        BY <1>5 DEF UpsertDay, TypeOK
    <2>5. QED
        BY <1>5, <2>3, <2>4 DEF UpsertDay, TypeOK, rawVars, rebuildVars, siteVars
<1>6. ASSUME NEW j \in Jobs, EndRebuild(j) PROVE TypeOK'
    <2>1. coverage' \in [Days -> Row]
        BY <1>6 DEF EndRebuild, TypeOK
    <2>2. QED
        BY <1>6, <2>1 DEF EndRebuild, TypeOK, Goto, rawVars, rebuildVars, siteVars
<1>7. CASE StartRollup
    BY <1>7 DEF StartRollup, TypeOK, Goto, rawVars, rebuildVars, siteVars
<1>8. CASE BuildDaily
    <2>1. rolled' \subseteq Days
        BY <1>8 DEF BuildDaily, TypeOK, DropInv, Days
    <2>2. QED
        BY <1>8, <2>1 DEF BuildDaily, TypeOK, Goto, rawVars, rebuildVars, siteVars
<1>9. CASE Check
    BY <1>9 DEF Check, EndRollup, TypeOK, Goto, rawVars, rebuildVars, siteVars
<1>10. CASE RollupFails
    BY <1>10 DEF RollupFails, EndRollup, RollBack, TypeOK, Goto, rawVars, rebuildVars, siteVars
<1>11. CASE StartDrop
    BY <1>11 DEF StartDrop, TypeOK, Goto, rawVars, rebuildVars, siteVars
<1>12. CASE EndDrop
    BY <1>12 DEF EndDrop, TypeOK, rawVars, rebuildVars, siteVars
<1>13. ASSUME NEW d \in Days, DropPartition(d) PROVE TypeOK'
    BY <1>13 DEF DropPartition, TypeOK, rawVars, rebuildVars, siteVars
<1>14. CASE StartDeploy
    <2>1. page' \in Site
        BY <1>14 DEF StartDeploy, Figured, Site, TypeOK
    <2>2. QED
        BY <1>14, <2>1 DEF StartDeploy, TypeOK, Goto, rawVars, rebuildVars, siteVars
<1>15. CASE WriteFiles
    <2>1. page' \in Site
        BY <1>15 DEF WriteFiles, Site, TypeOK
    <2>2. QED
        BY <1>15, <2>1 DEF WriteFiles, TypeOK, Goto, rawVars, rebuildVars, siteVars
<1>16. CASE WriteIndex
    <2>1. page' \in Site
        BY <1>16 DEF WriteIndex, Site, TypeOK
    <2>2. QED
        BY <1>16, <2>1 DEF WriteIndex, TypeOK, Goto, rawVars, rebuildVars, siteVars
<1>17. CASE Publish
    BY <1>17 DEF Publish, EndDeploy, RollBack, TypeOK, Goto, rawVars, rebuildVars, siteVars
<1>18. CASE DeployFails
    BY <1>18 DEF DeployFails, EndDeploy, RollBack, TypeOK, Goto, rawVars, rebuildVars, siteVars
<1>19. CASE UNCHANGED vars
    BY <1>19 DEF vars, TypeOK, rawVars, rebuildVars, siteVars
<1>20. QED
    BY <1>1, <1>2, <1>3, <1>4, <1>5, <1>6, <1>7, <1>8, <1>9, <1>10, <1>11, <1>12, <1>13,
       <1>14, <1>15, <1>16, <1>17, <1>18, <1>19 DEF Next, RebuildStep

-----------------------------------------------------------------------------
(* The steps that leave the rebuilds and the days alone.                   *)
Quiet ==
    /\ UNCHANGED <<today, rawVars, coverage, rebuildVars>>
    /\ \A j \in Jobs : (place'[j] = "coverage") = (place[j] = "coverage")

LEMMA QuietSteps ==
    ASSUME TypeOK,
           StartRollup \/ BuildDaily \/ Check \/ StartDrop \/ EndDrop \/ StartDeploy
               \/ WriteFiles \/ WriteIndex \/ UNCHANGED vars
    PROVE  Quiet
<1> USE DayFacts DEF TypeOK, Goto
<1>1. CASE StartRollup
    BY <1>1 DEF StartRollup, Quiet
<1>2. CASE BuildDaily
    BY <1>2 DEF BuildDaily, Quiet, rawVars
<1>3. CASE Check
    BY <1>3 DEF Check, EndRollup, Quiet
<1>4. CASE StartDrop
    BY <1>4 DEF StartDrop, Quiet
<1>5. CASE EndDrop
    BY <1>5 DEF EndDrop, Quiet
<1>6. CASE StartDeploy
    BY <1>6 DEF StartDeploy, Quiet
<1>7. CASE WriteFiles
    BY <1>7 DEF WriteFiles, Quiet
<1>8. CASE WriteIndex
    BY <1>8 DEF WriteIndex, Quiet
<1>9. CASE UNCHANGED vars
    BY <1>9 DEF vars, Quiet
<1>10. QED
    BY <1>1, <1>2, <1>3, <1>4, <1>5, <1>6, <1>7, <1>8, <1>9

(* A job ends: its transaction is gone.                                    *)
Ends(j) ==
    /\ RollBack(j)
    /\ Goto(j, "idle")
    /\ UNCHANGED <<today, rawVars, coverage>>

LEMMA EndingSteps ==
    ASSUME RollupFails \/ Publish \/ DeployFails
    PROVE  \E j \in Jobs : Ends(j)
<1>1. CASE RollupFails
    BY <1>1, DayFacts DEF RollupFails, EndRollup, Ends
<1>2. CASE Publish \/ DeployFails
    BY <1>2, DayFacts DEF Publish, DeployFails, EndDeploy, Ends
<1>3. QED
    BY <1>1, <1>2

-----------------------------------------------------------------------------
(* The rebuilds.                                                           *)

(* A job's own variables stay: its rebuild does.                           *)
LEMMA RebuildUntouched ==
    ASSUME NEW j \in Jobs, RebuildOf(j), UNCHANGED <<today, rawVars>>,
           (place'[j] = "coverage") = (place[j] = "coverage"),
           todo'[j] = todo[j], row'[j] = row[j], wrote'[j] = wrote[j]
    PROVE  RebuildOf(j)'
BY DEF RebuildOf, Accounted, rawVars

LEMMA RebuildStays ==
    ASSUME TypeOK, RebuildInv, RecordInv, [Next]_vars
    PROVE  RebuildInv'
<1> USE DayFacts
<1>1. ASSUME NEW events \in 0..Scheduled, NextDay(events) PROVE RebuildInv'
    <2>1. \A j \in Jobs : place[j] # "coverage" /\ place' = place
        BY <1>1 DEF NextDay
    <2>2. QED
        BY <1>1, <2>1 DEF NextDay, RebuildInv, RebuildOf, rebuildVars
<1>2. ASSUME NEW d \in Days, Diagnose(d) PROVE RebuildInv'
    BY <1>2, RebuildUntouched DEF Diagnose, RebuildInv, rebuildVars
<1>3. ASSUME NEW j \in Jobs, BeginRebuild(j) PROVE RebuildInv'
    <2>1. ASSUME NEW k \in Jobs, k # j PROVE RebuildOf(k)'
        BY <1>3, <2>1, RebuildUntouched DEF BeginRebuild, Goto, RebuildInv, TypeOK
    <2>2. place'[j] = "coverage" /\ todo'[j] = Covered /\ UNCHANGED <<today, rawVars, row, wrote>>
        BY <1>3 DEF BeginRebuild, Goto, TypeOK
    <2>3. row[j].day = NoDay /\ \A d \in Days : ~wrote[j][d].exists
        BY <1>3 DEF BeginRebuild, RebuildInv, RebuildOf
    <2>4. RebuildOf(j)'
        BY <2>2, <2>3 DEF RebuildOf, Covered, Accounted, rawVars
    <2>5. QED
        BY <2>1, <2>4 DEF RebuildInv
<1>4. ASSUME NEW j \in Jobs, NEW d \in todo[j], CountDay(j, d) PROVE RebuildInv'
    <2>1. ASSUME NEW k \in Jobs, k # j PROVE RebuildOf(k)'
        BY <1>4, <2>1, RebuildUntouched DEF CountDay, RebuildInv, TypeOK
    <2>2. /\ place' = place /\ todo'[j] = todo[j] \ {d} /\ UNCHANGED <<today, rawVars, wrote>>
          /\ row'[j].day = d /\ row'[j].events = Events(d)
          /\ place[j] = "coverage" /\ row[j].day = NoDay /\ \A n \in todo[j] : d <= n
        BY <1>4 DEF CountDay, IsNext, TypeOK
    <2>3. d \in Days /\ d < today /\ d \notin evicted /\ todo[j] \subseteq Days
        BY <1>4 DEF RebuildInv, RebuildOf, TypeOK
    <2>4. Events(d) = seen[d]
        BY <2>3 DEF Events
    <2>5. ASSUME NEW n \in todo[j] \ {d} PROVE d < n
        <3>1. n \in Nat /\ d \in Nat /\ d <= n /\ d # n
            BY <2>2, <2>3
        <3>2. QED
            BY <3>1
    <2>6. RebuildOf(j)'
        BY <1>4, <2>2, <2>3, <2>4, <2>5 DEF RebuildInv, RebuildOf, Accounted, rawVars
    <2>7. QED
        BY <2>1, <2>6 DEF RebuildInv
<1>5. ASSUME NEW j \in Jobs, UpsertDay(j) PROVE RebuildInv'
    <2> DEFINE d == row[j].day
    <2>1. ASSUME NEW k \in Jobs, k # j PROVE RebuildOf(k)'
        BY <1>5, <2>1, RebuildUntouched DEF UpsertDay, RebuildInv, TypeOK
    <2>2. d \in Days /\ d # NoDay
        BY <1>5 DEF UpsertDay, TypeOK, Reading
    <2>3. /\ place' = place /\ todo' = todo /\ UNCHANGED <<today, rawVars>>
          /\ row'[j].day = NoDay
          /\ wrote'[j][d].exists /\ wrote'[j][d].events = row[j].events
          /\ \A n \in Days \ {d} : wrote'[j][n] = wrote[j][n]
        BY <1>5, <2>2 DEF UpsertDay, TypeOK
    <2>4. RebuildOf(j)
        BY DEF RebuildInv
    <2>5. RebuildOf(j)'
        <3>1. place'[j] = "coverage"
            BY <2>2, <2>3, <2>4 DEF RebuildOf
        <3>2. \A n \in todo'[j] : n < today' /\ n \notin evicted' /\ d < n
            BY <2>2, <2>3, <2>4 DEF RebuildOf, rawVars
        <3>3. ASSUME NEW n \in Days, wrote'[j][n].exists
              PROVE  n < today' /\ wrote'[j][n].events = seen'[n] /\ \A m \in todo'[j] : n < m
            BY <2>2, <2>3, <2>4, <3>2, <3>3 DEF RebuildOf, rawVars
        <3>4. ASSUME NEW n \in Days, n < today', seen'[n] > 0, n \notin evicted'
              PROVE  Accounted(j, n)'
            BY <2>2, <2>3, <2>4, <3>1, <3>4 DEF RebuildOf, Accounted, rawVars
        <3>5. QED
            BY <2>3, <3>1, <3>2, <3>3, <3>4 DEF RebuildOf
    <2>6. QED
        BY <2>1, <2>5 DEF RebuildInv
<1>6. ASSUME NEW j \in Jobs, EndRebuild(j) PROVE RebuildInv'
    <2>1. ASSUME NEW k \in Jobs, k # j PROVE RebuildOf(k)'
        BY <1>6, <2>1, RebuildUntouched DEF EndRebuild, Goto, RebuildInv, TypeOK
    <2>2. /\ place'[j] = "measured" /\ todo'[j] = {} /\ row'[j].day = NoDay
          /\ wrote'[j] = NothingWritten
        BY <1>6 DEF EndRebuild, Goto, TypeOK
    <2>3. RebuildOf(j)'
        BY <2>2 DEF RebuildOf
    <2>4. QED
        BY <2>1, <2>3 DEF RebuildInv
<1>7. ASSUME Quiet PROVE RebuildInv'
    BY <1>7, RebuildUntouched DEF Quiet, RebuildInv, rebuildVars
<1>8. ASSUME NEW j \in Jobs, Ends(j) PROVE RebuildInv'
    <2>1. ASSUME NEW k \in Jobs, k # j PROVE RebuildOf(k)'
        BY <1>8, <2>1, RebuildUntouched DEF Ends, RollBack, Goto, RebuildInv, TypeOK
    <2>2. /\ place'[j] = "idle" /\ todo'[j] = {} /\ row'[j].day = NoDay
          /\ wrote'[j] = NothingWritten
        BY <1>8 DEF Ends, RollBack, Goto, TypeOK
    <2>3. RebuildOf(j)'
        BY <2>2 DEF RebuildOf
    <2>4. QED
        BY <2>1, <2>3 DEF RebuildInv
<1>9. ASSUME NEW d \in Days, DropPartition(d) PROVE RebuildInv'
    <2>1. \A j \in Jobs : place[j] # "coverage" /\ place' = place
        BY <1>9 DEF DropPartition, TableInUse
    <2>2. QED
        BY <1>9, <2>1 DEF DropPartition, RebuildInv, RebuildOf, rebuildVars
<1>10. QED
    BY <1>1, <1>2, <1>3, <1>4, <1>5, <1>6, <1>7, <1>8, <1>9, QuietSteps, EndingSteps
       DEF Next, RebuildStep

-----------------------------------------------------------------------------
(* The locks, and the reasons of days.                                     *)
LEMMA LocksStay ==
    ASSUME TypeOK, RebuildInv, LockInv, [Next]_vars
    PROVE  LockInv'
<1> USE DayFacts
<1>1. ASSUME NEW events \in 0..Scheduled, NextDay(events) PROVE LockInv'
    BY <1>1 DEF NextDay, LockInv, rebuildVars
<1>2. ASSUME NEW d \in Days, Diagnose(d) PROVE LockInv'
    <2>1. \A j \in Jobs : ~wrote[j][d].exists /\ wrote' = wrote
        BY <1>2 DEF Diagnose, Locked, rebuildVars
    <2>2. /\ coverage'[d].exists
          /\ \A n \in Days \ {d} : coverage'[n] = coverage[n]
        BY <1>2 DEF Diagnose, TypeOK, Row
    <2>3. QED
        BY <2>1, <2>2 DEF LockInv
<1>3. ASSUME NEW j \in Jobs, BeginRebuild(j) \/ \E d \in todo[j] : CountDay(j, d) PROVE LockInv'
    BY <1>3 DEF BeginRebuild, CountDay, LockInv
<1>4. ASSUME NEW j \in Jobs, UpsertDay(j) PROVE LockInv'
    <2> DEFINE d == row[j].day
    <2>1. d \in Days /\ ~Locked(d) /\ coverage' = coverage
        BY <1>4 DEF UpsertDay, TypeOK, Reading
    <2>2. /\ \A k \in Jobs : ~wrote[k][d].exists
          /\ wrote'[j][d].known = Known(j, d)
          /\ \A k \in Jobs, n \in Days : k # j \/ n # d => wrote'[k][n] = wrote[k][n]
        BY <1>4, <2>1 DEF UpsertDay, Locked, TypeOK
    <2>3. coverage[d].known => Known(j, d)
        BY <2>1 DEF LockInv, Known
    <2>4. QED
        BY <2>1, <2>2, <2>3 DEF LockInv
<1>5. ASSUME NEW j \in Jobs, EndRebuild(j) PROVE LockInv'
    <2>1. \A k \in Jobs, d \in Days :
              wrote'[k][d].exists => k # j /\ wrote'[k][d] = wrote[k][d] /\ coverage'[d] = coverage[d]
        BY <1>5 DEF EndRebuild, LockInv, TypeOK
    <2>2. \A d \in Days : coverage'[d].known => coverage'[d].exists
        BY <1>5 DEF EndRebuild, LockInv, TypeOK
    <2>3. ASSUME NEW d \in Days
          PROVE  /\ \A i, k \in Jobs : wrote'[i][d].exists /\ wrote'[k][d].exists => i = k
                 /\ \A k \in Jobs : wrote'[k][d].exists /\ coverage'[d].known => wrote'[k][d].known
        <3>1. \A i, k \in Jobs : wrote'[i][d].exists /\ wrote'[k][d].exists => i = k
            BY <2>1 DEF LockInv
        <3>2. \A k \in Jobs : wrote'[k][d].exists /\ coverage'[d].known => wrote'[k][d].known
            BY <2>1 DEF LockInv
        <3>3. QED
            BY <3>1, <3>2
    <2>4. QED
        BY <2>2, <2>3 DEF LockInv
<1>6. ASSUME Quiet \/ \E d \in Days : DropPartition(d) PROVE LockInv'
    BY <1>6 DEF Quiet, DropPartition, LockInv, rebuildVars
<1>7. ASSUME NEW j \in Jobs, Ends(j) PROVE LockInv'
    <2>1. \A k \in Jobs, d \in Days : wrote'[k][d].exists => wrote'[k][d] = wrote[k][d]
        BY <1>7 DEF Ends, RollBack, TypeOK
    <2>2. coverage' = coverage
        BY <1>7 DEF Ends
    <2>3. ASSUME NEW d \in Days
          PROVE  /\ \A i, k \in Jobs : wrote'[i][d].exists /\ wrote'[k][d].exists => i = k
                 /\ \A k \in Jobs : wrote'[k][d].exists /\ coverage[d].known => wrote'[k][d].known
        <3>1. \A i, k \in Jobs : wrote'[i][d].exists /\ wrote'[k][d].exists => i = k
            BY <2>1 DEF LockInv
        <3>2. \A k \in Jobs : wrote'[k][d].exists /\ coverage[d].known => wrote'[k][d].known
            BY <2>1 DEF LockInv
        <3>3. QED
            BY <3>1, <3>2
    <2>4. \A d \in Days : coverage[d].known => coverage[d].exists
        BY DEF LockInv
    <2>5. QED
        BY <2>2, <2>3, <2>4 DEF LockInv
<1>8. QED
    BY <1>1, <1>2, <1>3, <1>4, <1>5, <1>6, <1>7, QuietSteps, EndingSteps DEF Next, RebuildStep

(* What a rebuild commits, and that nothing else writes events or takes a  *)
(* reason away.                                                            *)
LEMMA Commit ==
    ASSUME TypeOK, RebuildInv, LockInv, RecordInv, NEW j \in Jobs, EndRebuild(j)
    PROVE  /\ \A d \in Days :
                  \/ coverage'[d] = coverage[d]
                  \/ d < today /\ coverage'[d].exists /\ coverage'[d].events = seen[d]
           /\ \A d \in Days : coverage[d].known => coverage'[d].known
           /\ AllRecorded'
<1> USE DayFacts
<1>1. /\ place[j] = "coverage" /\ todo[j] = {} /\ row[j].day = NoDay
      /\ \A d \in Days :
            coverage'[d] = IF wrote[j][d].exists THEN wrote[j][d] ELSE coverage[d]
      /\ UNCHANGED <<today, rawVars>>
    BY DEF EndRebuild
<1>2. \A d \in Days : wrote[j][d].exists => d < today /\ wrote[j][d].events = seen[d]
    BY DEF RebuildInv, RebuildOf
<1>3. ASSUME NEW d \in Days, d < today', seen'[d] > 0 PROVE Recorded(d)'
    <2>1. CASE d \in evicted
        BY <1>1, <1>2, <1>3, <2>1 DEF RecordInv, Recorded, rawVars
    <2>2. CASE d \notin evicted
        <3>1. wrote[j][d].exists
            BY <1>1, <1>3, <2>2 DEF RebuildInv, RebuildOf, Accounted, rawVars
        <3>2. QED
            BY <1>1, <1>2, <3>1 DEF Recorded, rawVars
    <2>3. QED
        BY <2>1, <2>2
<1>4. ASSUME NEW d \in Days, coverage[d].known PROVE coverage'[d].known
    <2>1. wrote[j][d].exists => wrote[j][d].known
        BY <1>4 DEF LockInv
    <2>2. QED
        BY <1>1, <1>4, <2>1
<1>5. \A d \in Days :
          \/ coverage'[d] = coverage[d]
          \/ d < today /\ coverage'[d].exists /\ coverage'[d].events = seen[d]
    <2>1. ASSUME NEW d \in Days, wrote[j][d].exists
          PROVE  d < today /\ coverage'[d].exists /\ coverage'[d].events = seen[d]
        <3>1. coverage'[d] = wrote[j][d]
            BY <1>1, <2>1
        <3>2. QED
            BY <1>2, <2>1, <3>1
    <2>2. ASSUME NEW d \in Days, ~wrote[j][d].exists PROVE coverage'[d] = coverage[d]
        BY <1>1, <2>2
    <2>3. QED
        BY <2>1, <2>2
<1>6. AllRecorded'
    BY <1>3 DEF AllRecorded
<1>7. QED
    BY <1>4, <1>5, <1>6

LEMMA CoverageSteps ==
    ASSUME TypeOK, RebuildInv, LockInv, RecordInv, [Next]_vars
    PROVE  \/ UNCHANGED coverage
           \/ \E d \in Days : Diagnose(d)
           \/ \E j \in Jobs : EndRebuild(j)
<1>1. ASSUME NEW events \in 0..Scheduled, NextDay(events) PROVE UNCHANGED coverage
    BY <1>1 DEF NextDay
<1>2. ASSUME NEW j \in Jobs, RebuildStep(j) PROVE UNCHANGED coverage \/ EndRebuild(j)
    BY <1>2 DEF RebuildStep, BeginRebuild, CountDay, UpsertDay
<1>3. ASSUME NEW d \in Days, DropPartition(d) PROVE UNCHANGED coverage
    BY <1>3 DEF DropPartition
<1>4. Quiet \/ (\E j \in Jobs : Ends(j)) => UNCHANGED coverage
    BY DEF Quiet, Ends
<1>5. QED
    BY <1>1, <1>2, <1>3, <1>4, QuietSteps, EndingSteps DEF Next

LEMMA DiagnosesStay ==
    ASSUME TypeOK, RebuildInv, LockInv, RecordInv, [Next]_vars, NEW d \in Days, coverage[d].known
    PROVE  coverage'[d].known
<1>1. ASSUME NEW n \in Days, Diagnose(n) PROVE coverage'[d].known
    BY <1>1 DEF Diagnose, TypeOK, Row
<1>2. QED
    BY <1>1, CoverageSteps, Commit

-----------------------------------------------------------------------------
(* The record.                                                             *)
LEMMA RecordStays ==
    ASSUME TypeOK, RebuildInv, LockInv, RecordInv, DropInv, [Next]_vars
    PROVE  RecordInv'
<1> USE DayFacts
<1>1. ASSUME NEW events \in 0..Scheduled, NextDay(events) PROVE RecordInv'
    <2>1. /\ place["rollup"] = "idle" /\ drop = "idle"
          /\ UNCHANGED <<coverage, evicted, place, drop>> /\ today' = today + 1
          /\ \A d \in Days : d # today => seen'[d] = seen[d]
        BY <1>1 DEF NextDay, TypeOK
    <2>2. \A d \in Days : d < today => d < today' /\ seen'[d] = seen[d]
        BY <2>1 DEF TypeOK
    <2>3. \A d \in Days : coverage'[d].events # 0 => d < today' /\ coverage'[d].events = seen'[d]
        BY <2>1, <2>2 DEF RecordInv
    <2>4. \A d \in evicted' : d < today' /\ (seen'[d] > 0 => Recorded(d)')
        BY <2>1, <2>2 DEF RecordInv, Recorded, TypeOK
    <2>5. QED
        BY <2>1, <2>3, <2>4 DEF RecordInv
<1>2. ASSUME NEW d \in Days, Diagnose(d) PROVE RecordInv'
    <2>1. UNCHANGED <<today, seen, evicted, place, drop>>
        BY <1>2 DEF Diagnose, rawVars
    <2>2. \A n \in Days :
              \/ coverage'[n] = coverage[n]
              \/ coverage'[n].exists /\ coverage'[n].events = coverage[n].events
        BY <1>2 DEF Diagnose, TypeOK, Row
    <2>3. \A n \in Days : coverage'[n].events # 0 => n < today /\ coverage'[n].events = seen[n]
        BY <2>2 DEF RecordInv
    <2>4. \A n \in Days : Recorded(n) => Recorded(n)'
        BY <2>1, <2>2 DEF Recorded
    <2>5. QED
        BY <2>1, <2>3, <2>4 DEF RecordInv, AllRecorded, TypeOK
<1>3. ASSUME NEW j \in Jobs, EndRebuild(j) PROVE RecordInv'
    <2>1. UNCHANGED <<today, seen, evicted, drop>>
        BY <1>3 DEF EndRebuild, rawVars
    <2>2. \A n \in Days : coverage'[n].events # 0 => n < today /\ coverage'[n].events = seen[n]
        BY <1>3, Commit DEF RecordInv
    <2>3. \A n \in Days : Recorded(n) => Recorded(n)'
        BY <1>3, <2>1, Commit DEF Recorded
    <2>4. QED
        BY <1>3, <2>1, <2>2, <2>3, Commit DEF RecordInv, TypeOK
<1>4. ASSUME NEW d \in Days, DropPartition(d) PROVE RecordInv'
    <2>1. /\ drop = "running" /\ evicted' = evicted \cup {d} /\ d < today
          /\ UNCHANGED <<today, seen, coverage, place, drop>>
        BY <1>4, NightlyAssumption DEF DropPartition, Droppable, TypeOK
    <2>2. AllRecorded
        BY <2>1 DEF RecordInv
    <2>3. QED
        BY <2>1, <2>2 DEF RecordInv, AllRecorded, Recorded
<1>5. ASSUME UNCHANGED <<today, rawVars, coverage>>,
             /\ place'["rollup"] = "measured" => place["rollup"] = "measured"
             /\ drop' = "running" => drop = "running" \/ place["rollup"] = "measured"
      PROVE  RecordInv'
    BY <1>5 DEF RecordInv, AllRecorded, Recorded, rawVars
<1>6. ASSUME NEW j \in Jobs,
             BeginRebuild(j) \/ (\E d \in todo[j] : CountDay(j, d)) \/ UpsertDay(j)
      PROVE  RecordInv'
    BY <1>5, <1>6 DEF BeginRebuild, CountDay, UpsertDay, Goto, TypeOK
<1>7. CASE StartRollup \/ BuildDaily
    BY <1>5, <1>7 DEF StartRollup, BuildDaily, Goto, TypeOK, rawVars
<1>8. CASE Check
    BY <1>5, <1>8 DEF Check, EndRollup, Goto, TypeOK
<1>9. CASE RollupFails
    BY <1>5, <1>9 DEF RollupFails, EndRollup, Goto, TypeOK
<1>10. CASE StartDrop \/ EndDrop
    BY <1>5, <1>10 DEF StartDrop, EndDrop, Goto, TypeOK
<1>11. CASE StartDeploy \/ WriteFiles \/ WriteIndex
    BY <1>5, <1>11 DEF StartDeploy, WriteFiles, WriteIndex, Goto, TypeOK
<1>12. CASE Publish \/ DeployFails
    BY <1>5, <1>12 DEF Publish, DeployFails, EndDeploy, Goto, TypeOK
<1>13. CASE UNCHANGED vars
    BY <1>5, <1>13 DEF vars
<1>14. QED
    BY <1>1, <1>2, <1>3, <1>4, <1>6, <1>7, <1>8, <1>9, <1>10, <1>11, <1>12, <1>13
       DEF Next, RebuildStep

-----------------------------------------------------------------------------
(* The eviction.                                                           *)
LEMMA SeenDays ==
    ASSUME TypeOK, [Next]_vars
    PROVE  (today' = today /\ seen' = seen) \/ \E events \in 0..Scheduled : NextDay(events)
<1>1. Quiet \/ (\E j \in Jobs : Ends(j)) => today' = today /\ seen' = seen
    BY DEF Quiet, Ends, rawVars
<1>2. ASSUME NEW j \in Jobs, RebuildStep(j) PROVE today' = today /\ seen' = seen
    BY <1>2 DEF RebuildStep, BeginRebuild, CountDay, UpsertDay, EndRebuild, rawVars
<1>3. ASSUME NEW d \in Days, Diagnose(d) \/ DropPartition(d) PROVE today' = today /\ seen' = seen
    BY <1>3 DEF Diagnose, DropPartition, rawVars
<1>4. QED
    BY <1>1, <1>2, <1>3, QuietSteps, EndingSteps DEF Next

LEMMA DropSteps ==
    ASSUME TypeOK, [Next]_vars, drop # "running", drop' = "running"
    PROVE  Check
<1> USE DEF TypeOK
<1>1. ASSUME NEW j \in Jobs, RebuildStep(j) PROVE drop' = drop
    BY <1>1 DEF RebuildStep, BeginRebuild, CountDay, UpsertDay, EndRebuild
<1>2. ASSUME NEW d \in Days, Diagnose(d) \/ DropPartition(d) PROVE drop' = drop
    BY <1>2 DEF Diagnose, DropPartition
<1>3. ASSUME NEW events \in 0..Scheduled, NextDay(events) PROVE drop' = drop
    BY <1>3 DEF NextDay
<1>4. StartRollup \/ BuildDaily \/ StartDeploy \/ WriteFiles \/ WriteIndex \/ UNCHANGED vars
          => drop' = drop
    BY DEF StartRollup, BuildDaily, StartDeploy, WriteFiles, WriteIndex, vars
<1>5. Publish \/ DeployFails => drop' = drop
    BY DEF Publish, DeployFails, EndDeploy
<1>6. StartDrop \/ EndDrop \/ RollupFails => drop' # "running"
    BY DEF StartDrop, EndDrop, RollupFails, EndRollup
<1>7. QED
    BY <1>1, <1>2, <1>3, <1>4, <1>5, <1>6 DEF Next

LEMMA MorningSteps ==
    ASSUME TypeOK, [Next]_vars, place'["rollup"] # "idle" \/ drop' # "idle"
    PROVE  \/ (place["rollup"] # "idle" \/ drop # "idle" \/ today > 0) /\ today' = today
           \/ \E events \in 0..Scheduled : NextDay(events)
<1> USE DayFacts DEF TypeOK
<1>1. ASSUME NEW j \in Jobs, RebuildStep(j)
      PROVE  place["rollup"] # "idle" \/ drop # "idle"
    BY <1>1 DEF RebuildStep, BeginRebuild, CountDay, UpsertDay, EndRebuild, Goto
<1>2. ASSUME NEW d \in Days, Diagnose(d) \/ DropPartition(d)
      PROVE  place["rollup"] # "idle" \/ drop # "idle"
    BY <1>2 DEF Diagnose, DropPartition
<1>3. CASE StartRollup \/ StartDrop
    BY <1>3, SeenDays DEF StartRollup, StartDrop
<1>4. CASE BuildDaily \/ Check \/ RollupFails \/ EndDrop
    BY <1>4, SeenDays DEF BuildDaily, Check, RollupFails, EndDrop
<1>5. CASE StartDeploy \/ WriteFiles \/ WriteIndex
    BY <1>5, SeenDays DEF StartDeploy, WriteFiles, WriteIndex, Goto
<1>6. CASE Publish \/ DeployFails
    BY <1>6, SeenDays DEF Publish, DeployFails, EndDeploy, Goto
<1>7. CASE UNCHANGED vars
    BY <1>7 DEF vars
<1>8. QED
    BY <1>1, <1>2, <1>3, <1>4, <1>5, <1>6, <1>7, SeenDays DEF Next

LEMMA DropStays ==
    ASSUME TypeOK, RebuildInv, LockInv, RecordInv, DropInv, [Next]_vars
    PROVE  DropInv'
<1> USE DayFacts
<1>1. ASSUME NEW events \in 0..Scheduled, NextDay(events) PROVE DropInv'
    BY <1>1 DEF NextDay, DropInv
<1>2. ASSUME ~\E events \in 0..Scheduled : NextDay(events) PROVE DropInv'
    <2>1. place'["rollup"] # "idle" \/ drop' # "idle" => today' > 0
        BY <1>2, MorningSteps DEF DropInv
    <2>2. UNCHANGED <<today, seen>>
        BY <1>2, SeenDays
    <2>3. ASSUME Explained, today > 0 PROVE Explained'
        <3>1. today - 1 \in Days
            BY <2>3, NightlyAssumption DEF TypeOK, Days
        <3>2. QED
            BY <2>2, <2>3, <3>1, DiagnosesStay DEF Explained
    <2>4. CASE drop = "running"
        BY <2>1, <2>3, <2>4 DEF DropInv
    <2>5. ASSUME drop # "running", drop' = "running" PROVE Explained'
        <3>1. Check
            BY <2>5, DropSteps
        <3>2. place["rollup"] = "measured" /\ today > 0 /\ drop = "waiting"
            BY <3>1, <2>5 DEF Check, EndRollup, DropInv, TypeOK
        <3>3. today - 1 \in Days /\ today - 1 < today
            BY <3>2, NightlyAssumption DEF TypeOK, Days
        <3>4. LET c == coverage[today - 1] IN ~(c.exists /\ ~c.known /\ Low(c.events))
            BY <3>1, <2>5 DEF Check, EndRollup
        <3>5. seen[today - 1] > 0 => Recorded(today - 1)
            BY <3>2, <3>3 DEF RecordInv, AllRecorded
        <3>6. seen[today - 1] \in Nat
            BY <3>3, NightlyAssumption DEF TypeOK
        <3>7. Explained
            BY <3>4, <3>5, <3>6 DEF Explained, Recorded
        <3>8. QED
            BY <2>3, <3>2, <3>7
    <2>6. QED
        BY <2>1, <2>4, <2>5 DEF DropInv
<1>3. QED
    BY <1>1, <1>2

-----------------------------------------------------------------------------
(* The site.                                                               *)
LEMMA HeadlineFits ==
    ASSUME TypeOK, RecordInv, NEW d \in Days \cup {NoDay}, IsHeadline(d), d # NoDay
    PROVE  d < today /\ ~Low(seen[d])
<1>1. d \in Days /\ Fit(d)
    BY DEF IsHeadline
<1>2. coverage[d].events # 0
    BY <1>1, NoneIsLow DEF Fit
<1>3. QED
    BY <1>1, <1>2 DEF Fit, RecordInv

LEMMA SiteStays ==
    ASSUME TypeOK, RecordInv, SiteInv, [Next]_vars
    PROVE  SiteInv'
<1> USE DayFacts DEF TypeOK
<1>1. ASSUME NEW events \in 0..Scheduled, NextDay(events) PROVE SiteInv'
    <2>1. /\ UNCHANGED <<page, published, place>> /\ today' = today + 1
          /\ \A d \in Days : d # today => seen'[d] = seen[d]
        BY <1>1 DEF NextDay, siteVars
    <2>2. ASSUME NEW site \in Site, Presentable(site)
          PROVE  site.headline # NoDay => site.headline < today' /\ ~Low(seen'[site.headline])
        <3>1. CASE site.headline = NoDay
            BY <3>1
        <3>2. CASE site.headline # NoDay
            <4>1. site.headline \in Days /\ site.headline \in Nat /\ today \in Nat
                BY <3>2 DEF Site
            <4>2. site.headline < today /\ ~Low(seen[site.headline])
                BY <2>2, <3>2 DEF Presentable
            <4>3. seen'[site.headline] = seen[site.headline]
                BY <2>1, <4>1, <4>2
            <4>4. QED
                BY <2>1, <4>1, <4>2, <4>3
        <3>3. QED
            BY <3>1, <3>2
    <2>3. QED
        BY <2>1, <2>2 DEF SiteInv, Presentable
<1>2. ASSUME UNCHANGED <<today, seen, page, published>>,
             place'["deploy"] = "publish" => place["deploy"] = "publish"
      PROVE  SiteInv'
    BY <1>2 DEF SiteInv, Presentable
<1>3. ASSUME NEW j \in Jobs, RebuildStep(j) PROVE SiteInv'
    BY <1>2, <1>3, SeenDays
       DEF RebuildStep, BeginRebuild, CountDay, UpsertDay, EndRebuild, Goto, siteVars, rawVars
<1>4. ASSUME NEW d \in Days, Diagnose(d) \/ DropPartition(d) PROVE SiteInv'
    BY <1>2, <1>4 DEF Diagnose, DropPartition, siteVars, rawVars
<1>5. CASE StartRollup \/ BuildDaily \/ StartDrop \/ EndDrop
    BY <1>2, <1>5 DEF StartRollup, BuildDaily, StartDrop, EndDrop, Goto, siteVars, rawVars
<1>6. CASE Check \/ RollupFails
    BY <1>2, <1>6 DEF Check, RollupFails, EndRollup, Goto, siteVars, rawVars
<1>7. CASE StartDeploy
    <2>1. /\ page'.headline = NoDay /\ place'["deploy"] = "rebuild"
          /\ UNCHANGED <<today, seen, published>>
        BY <1>7 DEF StartDeploy, Goto, rawVars
    <2>2. QED
        BY <2>1 DEF SiteInv, Presentable
<1>8. CASE WriteFiles
    <2>1. PICK d \in Days \cup {NoDay} : IsHeadline(d) /\ page' = [page EXCEPT !.headline = d]
        BY <1>8 DEF WriteFiles
    <2>2. page'.headline = d /\ place'["deploy"] = "write" /\ UNCHANGED <<today, seen, published>>
        BY <1>8, <2>1 DEF WriteFiles, Goto, Site, rawVars
    <2>3. QED
        BY <2>1, <2>2, HeadlineFits DEF SiteInv, Presentable
<1>9. CASE WriteIndex
    <2>1. page'.headline = page.headline /\ page'.whole /\ UNCHANGED <<today, seen, published>>
        BY <1>9 DEF WriteIndex, Site, rawVars
    <2>2. QED
        BY <2>1 DEF SiteInv, Presentable
<1>10. CASE Publish \/ DeployFails
    <2>1. /\ page' = Nothing /\ place'["deploy"] = "idle" /\ UNCHANGED <<today, seen>>
          /\ published' = published \/ (published' = page /\ place["deploy"] = "publish")
        BY <1>10 DEF Publish, DeployFails, EndDeploy, Goto, rawVars
    <2>2. QED
        BY <2>1 DEF SiteInv, Presentable, Nothing
<1>11. CASE UNCHANGED vars
    BY <1>2, <1>11 DEF vars, siteVars, rawVars
<1>12. QED
    BY <1>1, <1>3, <1>4, <1>5, <1>6, <1>7, <1>8, <1>9, <1>10, <1>11 DEF Next

-----------------------------------------------------------------------------
(* The inductive invariant: types, what rebuilds under way know, who holds *)
(* which row, what is on record, and what bus-drop and the site rely on.   *)
THEOREM NightlyInvariant == Spec => []NightlyInv
<1>1. NightlyInv /\ [Next]_vars => NightlyInv'
    BY TypeStep, RebuildStays, LocksStay, RecordStays, DropStays, SiteStays DEF NightlyInv
<1>2. QED
    BY <1>1, InitHolds, PTL DEF Spec

(* TypeOK: the tables and the jobs keep their types.                       *)
THEOREM TypeCorrect == Spec => []TypeOK
<1>1. NightlyInv => TypeOK
    BY DEF NightlyInv
<1>2. QED
    BY <1>1, NightlyInvariant, PTL

(* EvictedDaysStayOnRecord: whatever two rebuilds and the eviction do to   *)
(* each other, an evicted day keeps the coverage its observations gave.    *)
THEOREM EvictedDaysAreOnRecord == Spec => []EvictedDaysStayOnRecord
<1>1. NightlyInv => EvictedDaysStayOnRecord
    BY DEF NightlyInv, RecordInv, Recorded, EvictedDaysStayOnRecord
<1>2. QED
    BY <1>1, NightlyInvariant, PTL

(* RebuildsNeverDeadlock: a job waits for a row behind the ones it holds.  *)
THEOREM NoDeadlock == Spec => []RebuildsNeverDeadlock
<1>1. NightlyInv => RebuildsNeverDeadlock
    <2> SUFFICES ASSUME NightlyInv, Waits("rollup", "deploy"), Waits("deploy", "rollup")
                 PROVE  FALSE
        BY DEF RebuildsNeverDeadlock
    <2>1. /\ row["rollup"].day \in Days /\ row["deploy"].day \in Days
          /\ row["rollup"].day # NoDay /\ row["deploy"].day # NoDay
        BY DayFacts DEF Waits, NightlyInv, TypeOK, Reading
    <2>2. row["rollup"].day < row["deploy"].day /\ row["deploy"].day < row["rollup"].day
        BY <2>1, DayFacts DEF Waits, NightlyInv, RebuildInv, RebuildOf
    <2>3. row["rollup"].day \in Nat /\ row["deploy"].day \in Nat
        BY <2>1, DayFacts
    <2>4. QED
        BY <2>2, <2>3
<1>2. QED
    BY <1>1, NightlyInvariant, PTL

(* HeadlineIsCovered: what is published is whole and its headline's day    *)
(* was observed well enough.                                               *)
THEOREM HeadlinesAreCovered == Spec => []HeadlineIsCovered
<1>1. NightlyInv => HeadlineIsCovered
    BY DEF NightlyInv, SiteInv, Presentable, HeadlineIsCovered
<1>2. QED
    BY <1>1, NightlyInvariant, PTL

(* DiagnosisKept: no rebuild takes a reason away, not even one that has    *)
(* read the row before the reason was written.                             *)
THEOREM DiagnosesAreKept == Spec => DiagnosisKept
<1>1. NightlyInv /\ [Next]_vars =>
          [\A d \in Days : coverage[d].known => coverage'[d].known]_vars
    BY DiagnosesStay DEF NightlyInv
<1>2. QED
    BY <1>1, NightlyInvariant, PTL DEF Spec, DiagnosisKept

(* EvictionAwaitsDiagnosis: no partition goes on a morning after a day     *)
(* whose gap nobody has explained.                                         *)
THEOREM EvictionWaits == Spec => EvictionAwaitsDiagnosis
<1>1. NightlyInv /\ [Next]_vars =>
          [evicted' # evicted =>
              \/ seen[today - 1] = 0 \/ ~Low(seen[today - 1])
              \/ coverage[today - 1].known]_vars
    <2> SUFFICES ASSUME NightlyInv, Next, evicted' # evicted PROVE Explained
        BY DEF Explained
    <2>1. ASSUME NEW d \in Days, DropPartition(d) PROVE Explained
        BY <2>1 DEF DropPartition, NightlyInv, DropInv
    <2>2. ASSUME NEW j \in Jobs, RebuildStep(j) PROVE evicted' = evicted
        BY <2>2 DEF RebuildStep, BeginRebuild, CountDay, UpsertDay, EndRebuild, rawVars
    <2>3. ASSUME NEW events \in 0..Scheduled, NextDay(events) PROVE evicted' = evicted
        BY <2>3 DEF NextDay
    <2>4. ASSUME NEW d \in Days, Diagnose(d) PROVE evicted' = evicted
        BY <2>4 DEF Diagnose, rawVars
    <2>5. Quiet \/ (\E j \in Jobs : Ends(j)) => evicted' = evicted
        BY DEF Quiet, Ends, rawVars
    <2>6. QED
        BY <2>1, <2>2, <2>3, <2>4, <2>5, QuietSteps, EndingSteps DEF Next, NightlyInv
<1>2. QED
    BY <1>1, NightlyInvariant, PTL DEF Spec, EvictionAwaitsDiagnosis
=============================================================================
