-------------------------- MODULE RetentionProofs --------------------------
(***************************************************************************)
(* Theorems about Retention, for every length of week, month, lookahead    *)
(* and retention: when nothing is rolled up again after its retention,     *)
(* eviction never loses a countable row to the rollups, and no rollup ever *)
(* shrinks; and with a lookahead of a week no row is ever stray.           *)
(***************************************************************************)
EXTENDS Retention, TLAPS

(* What is known of one day: only a settled day has a daily rollup, which  *)
(* is complete, and only raw rows that are in it have been evicted.        *)
DayInv(d) ==
    /\ Raw(d) \subseteq ever[d]
    /\ monthly[d] \subseteq Countable(ever[d])
    /\ daily[d] # {} => Settled(d) /\ daily[d] = Countable(ever[d])
    /\ Evicted(d) => d < today - RetainDays /\ daily[d] # {}

(* What dropExpiredPartitions knows of the weeks it goes through.          *)
DropInv ==
    /\ \A w \in todo : Expired(w)
    /\ checked # NoWeek => Expired(checked) /\ RolledUp(checked)

IInv ==
    /\ TypeOK
    /\ \A d \in Days : DayInv(d)
    /\ DropInv

(* The rollups are only built while the raw rows are within retention.     *)
OnTime ==
    /\ BackfillDays <= RetainDays
    /\ MonthlyAge <= RetainDays
    /\ ~AnyDate

NoneShrinks ==
    \A d \in Days : daily[d] \subseteq daily'[d] /\ monthly[d] \subseteq monthly'[d]

-----------------------------------------------------------------------------
LEMMA Division ==
    ASSUME NEW d \in Nat, NEW k \in Nat \ {0}
    PROVE  /\ d \div k \in Int
           /\ (d \div k) * k <= d
           /\ d < (d \div k + 1) * k
OBVIOUS

LEMMA Later ==
    ASSUME NEW d \in Int, NEW a \in Int, NEW b \in Int, NEW c \in Int,
           a <= b, d < a - c
    PROVE  d < b - c
OBVIOUS

LEMMA DayIsInItsWeek ==
    ASSUME NEW d \in Days
    PROVE  Week(d) \in Int /\ d <= LastDay(Week(d)) /\ LastDay(Week(d)) \in Int
<1>1. d \in Nat /\ MaxDay \in Nat /\ WeekDays \in Nat \ {0}
    BY RetentionAssumption DEF Days
<1>2. Week(d) \in Int /\ d < (Week(d) + 1) * WeekDays
    BY <1>1, Division DEF Week
<1>3. (Week(d) + 1) * WeekDays \in Int
    BY <1>1, <1>2
<1> QED BY <1>1, <1>2, <1>3 DEF LastDay

LEMMA DayIsInItsMonth ==
    ASSUME NEW d \in Days
    PROVE  Month(d) * MonthDays \in Int /\ Month(d) * MonthDays <= d
<1>1. d \in Nat /\ MaxDay \in Nat /\ MonthDays \in Nat \ {0}
    BY RetentionAssumption DEF Days
<1>2. Month(d) \in Int /\ Month(d) * MonthDays <= d
    BY <1>1, Division DEF Month
<1> QED BY <1>1, <1>2

LEMMA ExpiredDays ==
    ASSUME NEW d \in Days, today \in Int, Expired(Week(d))
    PROVE  d < today - RetainDays
BY DayIsInItsWeek, RetentionAssumption DEF Expired, Days

-----------------------------------------------------------------------------
(* Nothing the invariant is about changes, except that time may pass.      *)

LEMMA TimePasses ==
    ASSUME IInv, UNCHANGED <<placed, stray, daily, monthly, ever>>,
           today' \in Int, today <= today',
           \A d \in Days : Settled(d) => Settled(d)'
    PROVE  (\A d \in Days : DayInv(d)') /\ NoneShrinks
<1>1. today \in Int /\ RetainDays \in Int
    BY RetentionAssumption DEF IInv, TypeOK
<1>2. ASSUME NEW d \in Days PROVE DayInv(d)'
    <2>1. DayInv(d) /\ d \in Int
        BY RetentionAssumption DEF IInv, Days
    <2>2. d < today - RetainDays => d < today' - RetainDays
        BY <1>1, <2>1, Later
    <2>3. Raw(d)' = Raw(d) /\ (Evicted(d)' <=> Evicted(d))
        BY DEF Raw, Evicted
    <2> QED BY <2>1, <2>2, <2>3 DEF DayInv, Countable
<1>3. NoneShrinks
    BY DEF NoneShrinks
<1> QED BY <1>2, <1>3

LEMMA SameExpired ==
    ASSUME IInv, today' \in Int, today <= today', NEW w \in Int, Expired(w)
    PROVE  Expired(w)'
<1>1. LastDay(w) \in Int /\ today \in Int /\ RetainDays \in Int
    BY RetentionAssumption DEF LastDay, IInv, TypeOK
<1> QED BY <1>1 DEF Expired, LastDay

LEMMA DropUndisturbed ==
    ASSUME IInv, UNCHANGED <<placed, stray, daily, dropVars>>,
           today' \in Int, today <= today'
    PROVE  DropInv'
<1>1. todo \subseteq Int /\ checked \in Int
    BY DEF IInv, TypeOK
<1>2. RolledUp(checked) => RolledUp(checked)'
    BY DEF RolledUp, Raw, dropVars
<1>3. \A w \in todo : Expired(w)'
    BY <1>1, SameExpired DEF IInv, DropInv
<1>4. todo' = todo /\ checked' = checked
    BY DEF dropVars
<1>5. checked # NoWeek => Expired(checked)'
    <2>1. LastDay(checked) \in Int /\ today \in Int /\ RetainDays \in Int
        BY <1>1, RetentionAssumption DEF LastDay, IInv, TypeOK
    <2>2. checked # NoWeek => LastDay(checked) < today - RetainDays
        BY DEF IInv, DropInv, Expired
    <2>3. LastDay(checked)' = LastDay(checked)
        BY <1>4 DEF LastDay
    <2> QED BY <2>1, <2>2, <2>3 DEF Expired
<1> QED BY <1>2, <1>3, <1>4, <1>5 DEF IInv, DropInv

LEMMA Undisturbed ==
    ASSUME IInv, UNCHANGED <<today, night, placed, stray, daily, monthly, ever>>
    PROVE  (\A d \in Days : DayInv(d)') /\ NoneShrinks
<1>1. today' \in Int /\ today <= today'
    BY DEF IInv, TypeOK
<1>2. \A d \in Days : Settled(d) => Settled(d)'
    BY DEF Settled
<1> QED BY <1>1, <1>2, TimePasses

-----------------------------------------------------------------------------
(* The steps that change rows or rollups.                                  *)

(* A row is only stored for a day that is not settled, so the day has no   *)
(* rollup yet and has not been evicted.                                    *)
LEMMA StoreStep ==
    ASSUME IInv, OnTime, NEW e \in Days, NEW r \in Rows, Store(e, r)
    PROVE  (\A d \in Days : DayInv(d)') /\ DropInv' /\ NoneShrinks
<1>1. /\ today \in Int /\ e \in Int /\ RetainDays \in Int /\ RetainDays >= 1
      /\ WeekDays \in Nat \ {0}
    BY RetentionAssumption DEF IInv, TypeOK, Days, OnTime
<1>2. ~Settled(e) /\ ~(e < today - RetainDays)
    BY <1>1 DEF Store, Settled
<1>3. /\ UNCHANGED <<today, night, daily, monthly, todo, checked>>
      /\ placed \in [Days -> SUBSET Rows] /\ stray \in [Days -> SUBSET Rows]
      /\ ever \in [Days -> SUBSET Rows]
    BY DEF Store, IInv, TypeOK, dropVars
<1>4. /\ ever' = [ever EXCEPT ![e] = @ \cup {r}]
      /\ \/ placed' = [placed EXCEPT ![e] = @ \cup {r}] /\ stray' = stray
         \/ stray' = [stray EXCEPT ![e] = @ \cup {r}] /\ placed' = placed
    BY DEF Store
<1>5. Raw(e)' = Raw(e) \cup {r} /\ ever'[e] = ever[e] \cup {r}
    BY <1>3, <1>4 DEF Raw
<1>6. \A d \in Days : d # e => Raw(d)' = Raw(d) /\ ever'[d] = ever[d]
    BY <1>3, <1>4 DEF Raw
<1>7. ASSUME NEW d \in Days PROVE DayInv(d)'
    <2>1. DayInv(d) /\ (Settled(d)' <=> Settled(d))
        BY <1>3 DEF IInv, Settled
    <2>2. CASE d # e
        BY <1>3, <1>6, <2>1, <2>2 DEF DayInv, Countable, Evicted
    <2>3. CASE d = e
        <3>1. Raw(e) = ever[e] /\ daily[e] = {}
            BY <1>2, <2>1, <2>3 DEF DayInv, Evicted
        <3> QED BY <1>3, <1>5, <2>1, <2>3, <3>1 DEF DayInv, Countable, Evicted
    <2> QED BY <2>2, <2>3
<1>8. DropInv'
    <2>1. /\ \A w \in todo : Expired(w)
          /\ checked # NoWeek => Expired(checked) /\ RolledUp(checked)
        BY DEF IInv, DropInv
    <2>2. checked # NoWeek => Week(e) # checked
        BY <1>1, <1>2, <2>1, ExpiredDays
    <2>3. checked # NoWeek => RolledUp(checked)'
        BY <1>3, <1>6, <2>1, <2>2 DEF RolledUp
    <2> QED BY <1>3, <2>1, <2>3 DEF DropInv, Expired, LastDay
<1>9. NoneShrinks
    BY <1>3 DEF NoneShrinks
<1> QED BY <1>7, <1>8, <1>9

(* What is rolled up is within retention, so its raw rows are all there.   *)
LEMMA RollupDayStep ==
    ASSUME IInv, OnTime, NEW e \in Days, RollupDay(e)
    PROVE  (\A d \in Days : DayInv(d)') /\ DropInv' /\ NoneShrinks
<1>1. /\ today \in Int /\ e \in Int /\ RetainDays \in Int /\ BackfillDays \in Int
      /\ BackfillDays <= RetainDays
    BY RetentionAssumption DEF IInv, TypeOK, Days, OnTime
<1>2. Settled(e) /\ today - BackfillDays <= e
    BY DEF RollupDay, OnTime
<1>3. ~(e < today - RetainDays)
    BY <1>1, <1>2
<1>4. /\ UNCHANGED <<today, night, placed, stray, monthly, todo, checked, ever>>
      /\ daily \in [Days -> SUBSET Rows]
      /\ daily' = [daily EXCEPT ![e] = Countable(Raw(e))]
    BY DEF RollupDay, IInv, TypeOK, dropVars, rawVars, ghostVars
<1>5. daily'[e] = Countable(Raw(e)) /\ \A d \in Days : d # e => daily'[d] = daily[d]
    BY <1>4
<1>6. Raw(e) = ever[e]
    BY <1>3 DEF IInv, DayInv, Evicted
<1>7. \A d \in Days : Raw(d)' = Raw(d) /\ (Evicted(d)' <=> Evicted(d))
                         /\ (Settled(d)' <=> Settled(d))
    BY <1>4 DEF Raw, Evicted, Settled
<1>8. ASSUME NEW d \in Days PROVE DayInv(d)' /\ daily[d] \subseteq daily'[d]
    <2>1. DayInv(d)
        BY DEF IInv
    <2>2. CASE d # e
        BY <1>4, <1>5, <1>7, <2>1, <2>2 DEF DayInv, Countable
    <2>3. CASE d = e
        BY <1>2, <1>4, <1>5, <1>6, <1>7, <2>1, <2>3 DEF DayInv, Countable, Evicted
    <2> QED BY <2>2, <2>3
<1>9. DropInv'
    <2>1. /\ \A w \in todo : Expired(w)
          /\ checked # NoWeek => Expired(checked) /\ RolledUp(checked)
        BY DEF IInv, DropInv
    <2>2. checked # NoWeek => Week(e) # checked
        BY <1>1, <1>3, <2>1, ExpiredDays
    <2>3. checked # NoWeek => RolledUp(checked)'
        BY <1>4, <1>5, <1>7, <2>1, <2>2 DEF RolledUp
    <2> QED BY <1>4, <2>1, <2>3 DEF DropInv, Expired, LastDay
<1>10. NoneShrinks
    BY <1>4, <1>8 DEF NoneShrinks
<1> QED BY <1>8, <1>9, <1>10

LEMMA RollupMonthStep ==
    ASSUME IInv, OnTime, NEW e \in Days, RollupMonth(Month(e))
    PROVE  (\A d \in Days : DayInv(d)') /\ DropInv' /\ NoneShrinks
<1> DEFINE m == Month(e)
<1>1. /\ today \in Int /\ RetainDays \in Int /\ MonthlyAge \in Int
      /\ MonthlyAge <= RetainDays
    BY RetentionAssumption DEF IInv, TypeOK, OnTime
<1>2. today - m * MonthDays <= MonthlyAge
    BY DEF RollupMonth, OnTime
<1>3. /\ UNCHANGED <<today, night, placed, stray, daily, todo, checked, ever>>
      /\ UNCHANGED dropVars
      /\ monthly' = [d \in Days |-> IF Month(d) = m THEN Countable(Raw(d)) ELSE monthly[d]]
    BY DEF RollupMonth, dropVars, rawVars, ghostVars
<1>4. \A d \in Days : Raw(d)' = Raw(d) /\ (Evicted(d)' <=> Evicted(d))
                         /\ (Settled(d)' <=> Settled(d))
    BY <1>3 DEF Raw, Evicted, Settled
<1>5. ASSUME NEW d \in Days PROVE DayInv(d)' /\ monthly[d] \subseteq monthly'[d]
    <2>1. DayInv(d) /\ d \in Int
        BY RetentionAssumption DEF IInv, Days
    <2>2. CASE Month(d) # m
        BY <1>3, <1>4, <2>1, <2>2 DEF DayInv, Countable
    <2>3. CASE Month(d) = m
        <3>1. m * MonthDays \in Int /\ m * MonthDays <= d
            BY <2>3, DayIsInItsMonth
        <3>2. ~(d < today - RetainDays)
            BY ONLY <1>1, <1>2, <2>1, <3>1
        <3>3. Raw(d) = ever[d]
            BY <2>1, <3>2 DEF DayInv, Evicted
        <3>4. monthly'[d] = Countable(ever[d])
            BY <1>3, <2>3, <3>3
        <3> QED BY <1>3, <1>4, <2>1, <3>4 DEF DayInv, Countable
    <2> QED BY <2>2, <2>3
<1>6. DropInv'
    <2>1. today' \in Int /\ today <= today'
        BY <1>1, <1>3
    <2> QED BY <1>3, <2>1, DropUndisturbed
<1>7. NoneShrinks
    BY <1>3, <1>5 DEF NoneShrinks
<1> QED BY <1>5, <1>6, <1>7

(* The guard was read earlier, but no row has come since for a day that is *)
(* past retention, and no rollup of such a day has been built again.       *)
LEMMA DropPartitionStep ==
    ASSUME IInv, DropPartition
    PROVE  (\A d \in Days : DayInv(d)') /\ DropInv' /\ NoneShrinks
<1>1. /\ UNCHANGED <<today, night, stray, daily, monthly, todo, ever>>
      /\ checked # NoWeek /\ checked' = NoWeek
      /\ placed' = [d \in Days |-> IF Week(d) = checked THEN {} ELSE placed[d]]
    BY DEF DropPartition, ghostVars
<1>2. /\ \A w \in todo : Expired(w)
      /\ Expired(checked) /\ RolledUp(checked)
    BY <1>1 DEF IInv, DropInv
<1>3. today \in Int
    BY DEF IInv, TypeOK
<1>4. ASSUME NEW d \in Days PROVE DayInv(d)'
    <2>1. DayInv(d) /\ (Settled(d)' <=> Settled(d))
        BY <1>1 DEF IInv, Settled
    <2>2. CASE Week(d) # checked
        <3>1. Raw(d)' = Raw(d)
            BY <1>1, <2>2 DEF Raw
        <3> QED BY <1>1, <2>1, <3>1 DEF DayInv, Countable, Evicted
    <2>3. CASE Week(d) = checked /\ Raw(d) # {}
        <3>1. d < today - RetainDays /\ daily[d] # {}
            BY <1>2, <1>3, <2>3, ExpiredDays DEF RolledUp
        <3>2. Raw(d)' \subseteq Raw(d)
            BY <1>1 DEF Raw
        <3> QED BY <1>1, <2>1, <3>1, <3>2 DEF DayInv, Countable, Evicted
    <2>4. CASE Week(d) = checked /\ Raw(d) = {}
        <3>1. Raw(d)' = {}
            BY <1>1, <2>4 DEF Raw
        <3> QED BY <1>1, <2>1, <2>4, <3>1 DEF DayInv, Countable, Evicted
    <2> QED BY <2>2, <2>3, <2>4
<1>5. DropInv'
    BY <1>1, <1>2 DEF DropInv, Expired, LastDay
<1>6. NoneShrinks
    BY <1>1 DEF NoneShrinks
<1> QED BY <1>4, <1>5, <1>6

-----------------------------------------------------------------------------
LEMMA TodayType ==
    ASSUME TypeOK, NEW n \in Int
    PROVE  Week(today) \in Int /\ today \in Int
<1>1. today \in Nat /\ WeekDays \in Nat \ {0}
    BY RetentionAssumption DEF TypeOK
<1> QED BY <1>1, Division DEF Week

LEMMA EnsureType ==
    ASSUME parts \subseteq Int, blocked \in BOOLEAN, NEW first \in Int, NEW last \in Int,
           EnsureSucceeds(first, last) \/ EnsureRefused(first, last)
    PROVE  parts' \subseteq Int /\ blocked' \in BOOLEAN
<1>1. first..last \subseteq Int
    OBVIOUS
<1>2. CASE EnsureSucceeds(first, last)
    BY <1>1, <1>2 DEF EnsureSucceeds
<1>3. CASE EnsureRefused(first, last)
    <2>1. {w \in first..last : \A b \in Refused(first, last) : w < b} \subseteq first..last
        OBVIOUS
    <2>2. parts' \subseteq parts \cup first..last /\ blocked' = TRUE
        BY <1>3, <2>1 DEF EnsureRefused
    <2> QED BY <1>1, <2>2
<1> QED BY <1>2, <1>3

LEMMA TypeStep ==
    ASSUME TypeOK, [Next]_vars
    PROVE  TypeOK'
<1> USE RetentionAssumption
<1>1. /\ Week(today) \in Int /\ today \in Int
      /\ Week(today) - Behind \in Int /\ Week(today) + Ahead \in Int
      /\ Week(today) - 1 \in Int /\ Week(today) + Ahead + 2 \in Int
    BY TodayType
<1>2. CASE StartWorker
    <2>1. parts' \subseteq Int /\ blocked' \in BOOLEAN
        BY <1>1, <1>2, EnsureType DEF StartWorker, TypeOK
    <2> QED BY <1>1, <1>2, <2>1 DEF StartWorker, TypeOK, dropVars
<1>3. CASE StopWorker
    BY <1>3 DEF StopWorker, TypeOK, rawVars, dropVars, ghostVars
<1>4. CASE Rollover
    <2>1. parts' \subseteq Int /\ blocked' \in BOOLEAN
        BY <1>1, <1>4, EnsureType DEF Rollover, TypeOK
    <2>2. behind' \in BOOLEAN
        BY <1>4 DEF Rollover, TypeOK
    <2> QED BY <1>1, <1>4, <2>1, <2>2 DEF Rollover, TypeOK, dropVars
<1>5. ASSUME NEW d \in Days, NEW r \in Rows, Store(d, r) PROVE TypeOK'
    BY <1>5 DEF Store, TypeOK, workerVars, dropVars
<1>6. ASSUME NEW d \in Days, RollupDay(d) PROVE TypeOK'
    <2>1. Countable(Raw(d)) \subseteq Rows
        BY DEF TypeOK, Countable, Raw
    <2> QED BY <1>6, <2>1 DEF RollupDay, TypeOK, workerVars, rawVars, dropVars, ghostVars
<1>7. ASSUME NEW m, RollupMonth(m) PROVE TypeOK'
    <2>1. \A d \in Days : Countable(Raw(d)) \subseteq Rows
        BY DEF TypeOK, Countable, Raw
    <2>2. monthly' \in [Days -> SUBSET Rows]
        BY <1>7, <2>1 DEF RollupMonth, TypeOK
    <2> QED BY <1>7, <2>2 DEF RollupMonth, TypeOK, workerVars, rawVars, dropVars, ghostVars
<1>8. CASE BeginDrop
    <2>1. parts' \subseteq Int /\ blocked' \in BOOLEAN
        BY <1>1, <1>8, EnsureType DEF BeginDrop, TypeOK
    <2>2. todo' \subseteq Int /\ dropping' \in BOOLEAN
        BY <1>8, <2>1 DEF BeginDrop, TypeOK
    <2> QED BY <1>8, <2>1, <2>2 DEF BeginDrop, TypeOK, workerVars
<1>9. ASSUME NEW w \in todo, CheckPartition(w) PROVE TypeOK'
    BY <1>9 DEF CheckPartition, TypeOK, NoWeek, workerVars, rawVars, ghostVars
<1>10. CASE DropPartition
    <2>1. placed' \in [Days -> SUBSET Rows]
        BY <1>10 DEF DropPartition, TypeOK
    <2> QED BY <1>10, <2>1 DEF DropPartition, TypeOK, NoWeek, workerVars, ghostVars
<1>11. CASE EndDrop
    BY <1>11 DEF EndDrop, TypeOK, workerVars, rawVars, ghostVars
<1>12. CASE AbortDrop
    <2>1. NoWeek \in Int
        BY DEF NoWeek
    <2>2. todo' = {} /\ checked' = NoWeek /\ dropping' = FALSE
        BY <1>12 DEF AbortDrop
    <2>3. todo' \subseteq Int /\ checked' \in Int
        BY <2>1, <2>2
    <2> QED BY <1>12, <2>2, <2>3 DEF AbortDrop, TypeOK, workerVars, rawVars, ghostVars
<1>13. CASE Midnight
    BY <1>13 DEF Midnight, TypeOK, workerVars, rawVars, dropVars, ghostVars
<1>14. CASE Settle
    BY <1>14 DEF Settle, TypeOK, workerVars, rawVars, dropVars, ghostVars
<1>15. CASE UNCHANGED vars
    BY <1>15 DEF TypeOK, vars, workerVars, rawVars, dropVars, ghostVars
<1> QED BY <1>2, <1>3, <1>4, <1>5, <1>6, <1>7, <1>8, <1>9, <1>10, <1>11, <1>12,
           <1>13, <1>14, <1>15 DEF Next, Worker, Rollup, Drop

LEMMA InvStep ==
    ASSUME IInv, OnTime, [Next]_vars
    PROVE  IInv' /\ NoneShrinks
<1> DEFINE Goal == (\A d \in Days : DayInv(d)') /\ DropInv' /\ NoneShrinks
<1>1. TypeOK' /\ today \in Int /\ today' \in Int
    BY TypeStep DEF IInv, TypeOK
<1>2. ASSUME StartWorker \/ StopWorker \/ Rollover \/ UNCHANGED vars PROVE Goal
    <2>1. UNCHANGED <<today, night, placed, stray, daily, monthly, ever>>
          /\ UNCHANGED dropVars
        <3>1. CASE StartWorker
            BY <3>1 DEF StartWorker, dropVars
        <3>2. CASE StopWorker
            BY <3>2 DEF StopWorker, rawVars, dropVars, ghostVars
        <3>3. CASE Rollover
            BY <3>3 DEF Rollover, dropVars
        <3>4. CASE UNCHANGED vars
            BY <3>4 DEF vars, rawVars, dropVars, ghostVars
        <3> QED BY <1>2, <3>1, <3>2, <3>3, <3>4
    <2>2. today <= today'
        BY <1>1, <2>1
    <2>3. (\A d \in Days : DayInv(d)') /\ NoneShrinks
        BY <2>1, Undisturbed
    <2>4. DropInv'
        BY <1>1, <2>1, <2>2, DropUndisturbed
    <2> QED BY <2>3, <2>4
<1>4. ASSUME NEW d \in Days, NEW r \in Rows, Store(d, r) PROVE Goal
    BY <1>4, StoreStep
<1>5. ASSUME NEW d \in Days, RollupDay(d) \/ RollupMonth(Month(d)) PROVE Goal
    BY <1>5, RollupDayStep, RollupMonthStep
<1>6. ASSUME BeginDrop \/ EndDrop \/ AbortDrop \/ \E w \in todo : CheckPartition(w)
      PROVE  Goal
    <2>1. UNCHANGED <<today, night, placed, stray, daily, monthly, ever>>
        BY <1>6 DEF BeginDrop, EndDrop, AbortDrop, CheckPartition, rawVars, ghostVars
    <2>2. DropInv'
        <3>1. CASE BeginDrop
            BY <2>1, <3>1 DEF BeginDrop, IInv, DropInv, Expired, LastDay, RolledUp, Raw
        <3>2. CASE EndDrop \/ AbortDrop
            BY <2>1, <3>2 DEF EndDrop, AbortDrop, IInv, DropInv, Expired, LastDay
        <3>3. ASSUME NEW w \in todo, CheckPartition(w) PROVE DropInv'
            BY <2>1, <3>3 DEF CheckPartition, IInv, DropInv, Expired, LastDay,
                RolledUp, Raw
        <3> QED BY <1>6, <3>1, <3>2, <3>3
    <2> QED BY <2>1, <2>2, Undisturbed
<1>7. ASSUME DropPartition PROVE Goal
    BY <1>7, DropPartitionStep
<1>8. ASSUME Midnight \/ Settle PROVE Goal
    <2>1. /\ UNCHANGED <<placed, stray, daily, monthly, ever>>
          /\ UNCHANGED <<placed, stray, daily, dropVars>>
        BY <1>8 DEF Midnight, Settle, rawVars, ghostVars
    <2>2. today <= today'
        BY <1>1, <1>8 DEF Midnight, Settle
    <2>3. ASSUME NEW d \in Days, Settled(d) PROVE Settled(d)'
        <3>1. d \in Int
            BY RetentionAssumption DEF Days
        <3>2. CASE Midnight
            <4>1. today' = today + 1 /\ d < today
                BY <1>1, <2>3, <3>1, <3>2 DEF Midnight, Settled
            <4> QED BY <1>1, <3>1, <4>1 DEF Settled
        <3>3. CASE Settle
            BY <2>3, <3>3 DEF Settle, Settled
        <3> QED BY <1>8, <3>2, <3>3
    <2> QED BY <1>1, <2>1, <2>2, <2>3, TimePasses, DropUndisturbed
<1>9. Goal
    BY <1>2, <1>4, <1>5, <1>6, <1>7, <1>8 DEF Next, Worker, Rollup, Drop
<1> QED BY <1>1, <1>9 DEF IInv

LEMMA InvInit == Init => IInv
<1> SUFFICES ASSUME Init PROVE IInv
    OBVIOUS
<1>1. TypeOK
    <2>1. today \in 0..MaxDay /\ workerDay \in 0..MaxDay
        BY RetentionAssumption DEF Init
    <2>2. NoRows \in [Days -> SUBSET Rows]
        BY DEF NoRows
    <2>3. parts \subseteq Int /\ todo \subseteq Int /\ checked \in Int /\ ensured \in Int
        BY DEF Init, NoWeek
    <2> QED BY <2>1, <2>2, <2>3 DEF Init, TypeOK
<1>2. ASSUME NEW d \in Days PROVE DayInv(d)
    BY DEF Init, NoRows, DayInv, Raw, Evicted, Countable
<1>3. DropInv
    BY DEF Init, DropInv
<1> QED BY <1>1, <1>2, <1>3 DEF IInv

LEMMA RetentionInvariant == ASSUME OnTime PROVE Spec => []IInv
<1>1. IInv /\ [Next]_vars => IInv'
    BY InvStep
<1> QED BY InvInit, <1>1, PTL DEF Spec

(* When nothing is rolled up after its retention, a day whose raw rows are *)
(* gone keeps all of its countable rows in its daily rollup.               *)
THEOREM EvictionIsLossless == ASSUME OnTime PROVE Spec => []EvictedIsRolledUp
<1>1. IInv => EvictedIsRolledUp
    BY DEF IInv, DayInv, EvictedIsRolledUp
<1> QED BY <1>1, RetentionInvariant, PTL

(* Under the same condition no rebuild of a rollup loses a row.            *)
THEOREM RebuildsAreSafe == ASSUME OnTime PROVE Spec => RollupsNeverShrink
<1>1. IInv /\ [Next]_vars =>
          [\A d \in Days : daily[d] \subseteq daily'[d] /\ monthly[d] \subseteq monthly'[d]]_vars
    BY InvStep DEF NoneShrinks
<1> QED BY <1>1, RetentionInvariant, PTL DEF Spec, RollupsNeverShrink
-----------------------------------------------------------------------------
(* The lookahead.  It needs a week on either side of the current one, and  *)
(* the day before today must be within retention.                          *)

Lookahead ==
    /\ Ahead >= 1
    /\ Behind >= 1
    /\ RetainDays >= 1

(* What a running worker relies on: from the week before its service day   *)
(* up to the lookahead, the weeks have a partition or are past retention,  *)
(* and the next day is within the lookahead.                               *)
WeeksReady ==
    \A w \in (Week(workerDay) - 1)..(ensured + Ahead) : w \in parts \/ Expired(w)

Covered == ~behind /\ up => Week(workerDay + 1) <= ensured + Ahead /\ WeeksReady

ExpiredOnly ==
    /\ \A w \in todo : Expired(w)
    /\ checked # NoWeek => Expired(checked)

LookaheadInv ==
    /\ TypeOK
    /\ workerDay <= today
    /\ ExpiredOnly
    /\ Covered
    /\ NoStrayRows

LEMMA Scaled ==
    ASSUME NEW x \in Int, NEW y \in Int, NEW k \in Nat, x <= y
    PROVE  x * k <= y * k
<1>1. PICK n \in Nat : y = x + n
    <2>1. y - x \in Nat /\ y = x + (y - x)
        OBVIOUS
    <2> QED BY <2>1
<1>2. y * k = x * k + n * k /\ n * k \in Nat /\ x * k \in Int
    BY <1>1
<1> QED BY <1>2

LEMMA WeekOf ==
    ASSUME NEW d \in Nat
    PROVE  /\ Week(d) \in Int
           /\ Week(d) * WeekDays <= d
           /\ d < (Week(d) + 1) * WeekDays
BY Division, RetentionAssumption DEF Week

LEMMA WeekMonotone ==
    ASSUME NEW a \in Nat, NEW b \in Nat, a <= b
    PROVE  Week(a) <= Week(b)
<1>1. /\ Week(a) \in Int /\ Week(b) \in Int /\ WeekDays \in Nat
      /\ Week(a) * WeekDays <= a /\ b < (Week(b) + 1) * WeekDays
    BY WeekOf, RetentionAssumption
<1>2. SUFFICES ASSUME Week(b) + 1 <= Week(a) PROVE FALSE
    BY <1>1
<1>3. (Week(b) + 1) * WeekDays <= Week(a) * WeekDays
    BY <1>1, <1>2, Scaled
<1>4. (Week(b) + 1) * WeekDays \in Int /\ Week(a) * WeekDays \in Int
    BY <1>1
<1> QED BY <1>1, <1>3, <1>4

LEMMA NextDaysWeek ==
    ASSUME NEW a \in Nat
    PROVE  Week(a + 1) <= Week(a) + 1
<1>1. /\ Week(a) \in Int /\ Week(a + 1) \in Int /\ WeekDays \in Nat \ {0}
      /\ Week(a + 1) * WeekDays <= a + 1 /\ a < (Week(a) + 1) * WeekDays
    BY WeekOf, RetentionAssumption
<1>2. SUFFICES ASSUME Week(a) + 2 <= Week(a + 1) PROVE FALSE
    BY <1>1
<1>3. (Week(a) + 2) * WeekDays <= Week(a + 1) * WeekDays
    BY <1>1, <1>2, Scaled
<1>4. /\ (Week(a) + 2) * WeekDays = (Week(a) + 1) * WeekDays + WeekDays
      /\ (Week(a) + 1) * WeekDays \in Int /\ Week(a + 1) * WeekDays \in Int
    BY <1>1
<1> QED BY <1>1, <1>3, <1>4

(* Nothing is stray, so no partition is refused.                           *)
LEMMA NothingRefused ==
    ASSUME NoStrayRows, ~behind, NEW first \in Int, NEW last \in Int
    PROVE  ~EnsureRefused(first, last)
BY DEF NoStrayRows, EnsureRefused, Refused

LEMMA StaysExpired ==
    ASSUME TypeOK, today' \in Int, today <= today', NEW w \in Int, Expired(w)
    PROVE  Expired(w)'
<1>1. LastDay(w) \in Int /\ today \in Int /\ RetainDays \in Int
    BY RetentionAssumption DEF LastDay, TypeOK
<1> QED BY <1>1 DEF Expired, LastDay

(* Partitions that are dropped, and days that pass, leave it ready.        *)
LEMMA StaysCovered ==
    ASSUME LookaheadInv, today' \in Int, today <= today',
           UNCHANGED <<workerDay, ensured, behind>>, up' => up,
           \A w \in parts : w \in parts' \/ Expired(w)
    PROVE  Covered'
<1>1. workerDay \in Nat /\ ensured \in Int /\ Week(workerDay) \in Int /\ Ahead \in Int
    BY WeekOf, RetentionAssumption DEF LookaheadInv, TypeOK
<1>2. ASSUME WeeksReady PROVE WeeksReady'
    <2>1. SUFFICES ASSUME NEW w \in (Week(workerDay) - 1)..(ensured + Ahead)
                   PROVE  w \in parts' \/ Expired(w)'
        BY DEF WeeksReady, Week
    <2>2. w \in Int /\ (w \in parts' \/ Expired(w))
        BY <1>1, <1>2 DEF WeeksReady
    <2> QED BY <2>2, StaysExpired DEF LookaheadInv
<1>3. Week(workerDay + 1)' = Week(workerDay + 1)
    BY DEF Week
<1> QED BY <1>2, <1>3 DEF LookaheadInv, Covered

LEMMA StaysExpiredOnly ==
    ASSUME LookaheadInv, today' \in Int, today <= today', UNCHANGED <<todo, checked>>
    PROVE  ExpiredOnly'
<1>1. todo \subseteq Int /\ checked \in Int
    BY DEF LookaheadInv, TypeOK
<1>2. \A w \in todo : Expired(w)'
    BY <1>1, StaysExpired DEF LookaheadInv, ExpiredOnly
<1>3. ASSUME checked # NoWeek PROVE Expired(checked)'
    <2>1. LastDay(checked) \in Int /\ today \in Int /\ RetainDays \in Int
        BY <1>1, RetentionAssumption DEF LastDay, LookaheadInv, TypeOK
    <2>2. LastDay(checked) < today - RetainDays
        BY <1>3 DEF LookaheadInv, ExpiredOnly, Expired
    <2> QED BY <2>1, <2>2 DEF Expired, LastDay
<1> QED BY <1>2, <1>3 DEF ExpiredOnly

LookaheadGoal == workerDay' <= today' /\ ExpiredOnly' /\ Covered' /\ NoStrayRows'

(* A starting worker creates the week before and the weeks ahead.          *)
LEMMA StartLookahead ==
    ASSUME LookaheadInv, Lookahead, StartWorker
    PROVE  LookaheadGoal
<1> DEFINE first == Week(today) - Behind
           last == Week(today) + Ahead
<1>1. /\ today \in Nat /\ Week(today) \in Int /\ Ahead \in Int /\ Behind \in Int
      /\ Week(today + 1) \in Int /\ Week(today + 1) <= Week(today) + 1
    BY WeekOf, NextDaysWeek, RetentionAssumption DEF LookaheadInv, TypeOK
<1>2. /\ UNCHANGED <<today, stray, todo, checked, behind>>
      /\ first \in Int /\ last \in Int
    BY <1>1 DEF StartWorker, dropVars
<1>3. ExpiredOnly'
    BY <1>1, <1>2, StaysExpiredOnly
<1>4. CASE EnsureSucceeds(first, last) /\ up' = TRUE /\ workerDay' = today
           /\ ensured' = Week(today)
    <2>1. WeeksReady'
        <3>1. \A w \in (Week(today) - 1)..(Week(today) + Ahead) : w \in first..last
            BY <1>1 DEF Lookahead
        <3> QED BY <1>2, <1>4, <3>1 DEF WeeksReady, EnsureSucceeds, Week
    <2>2. Week(workerDay + 1)' <= ensured' + Ahead
        BY <1>1, <1>4 DEF Lookahead, Week
    <2>3. Covered'
        BY <2>1, <2>2 DEF Covered
    <2>4. NoStrayRows'
        BY <1>2, <1>4 DEF LookaheadInv, NoStrayRows, EnsureSucceeds
    <2> QED BY <1>1, <1>2, <1>3, <1>4, <2>3, <2>4 DEF LookaheadGoal
<1>5. CASE EnsureRefused(first, last) /\ UNCHANGED <<up, workerDay, ensured>>
    <2>1. behind
        BY <1>2, <1>5, NothingRefused DEF LookaheadInv
    <2> QED BY <1>2, <1>3, <1>5, <2>1 DEF LookaheadInv, LookaheadGoal, Covered, NoStrayRows
<1> QED BY <1>4, <1>5 DEF StartWorker

(* A worker that rolls over finds the week before covered already: it was  *)
(* within the lookahead of the last call that succeeded.                   *)
LEMMA RolloverLookahead ==
    ASSUME LookaheadInv, Lookahead, Rollover
    PROVE  LookaheadGoal
<1> DEFINE last == Week(today) + Ahead
<1>1. /\ today \in Nat /\ workerDay \in Nat /\ workerDay <= today /\ workerDay # today
      /\ ensured \in Int /\ Ahead \in Int
    BY RetentionAssumption DEF LookaheadInv, TypeOK, Rollover
<1>2. /\ Week(today) \in Int /\ Week(today + 1) \in Int /\ Week(today - 1) \in Int
      /\ Week(workerDay) \in Int /\ last \in Int
      /\ Week(today + 1) <= Week(today) + 1
    BY <1>1, WeekOf, NextDaysWeek
<1>3. Week(workerDay) <= Week(today) /\ Week(today) - 1 <= Week(today - 1)
    <2>1. today - 1 \in Nat /\ (today - 1) + 1 = today
        BY <1>1
    <2>2. Week(today) <= Week(today - 1) + 1
        BY <2>1, NextDaysWeek
    <2> QED BY <1>1, <1>2, <2>2, WeekMonotone
<1>4. UNCHANGED <<today, up, stray, todo, checked>> /\ workerDay' = today /\ up
    BY DEF Rollover, dropVars
<1>5. ExpiredOnly' /\ workerDay' <= today'
    BY <1>1, <1>4, StaysExpiredOnly
<1>6. ASSUME ~behind PROVE WeeksReady /\ ~blocked /\ ~EnsureRefused(Week(today), last)
    BY <1>2, <1>4, <1>6, NothingRefused DEF LookaheadInv, Covered, NoStrayRows
<1>7. CASE EnsureSucceeds(Week(today), last) /\ ensured' = Week(today)
           /\ behind' = (behind \/ Week(today - 1) > ensured + Ahead)
    <2>1. ASSUME ~behind' PROVE WeeksReady'
        <3>1. ~behind /\ Week(today - 1) <= ensured + Ahead
            <4>1. ~behind /\ ~(Week(today - 1) > ensured + Ahead)
                BY <1>7, <2>1, Zenon
            <4> QED BY <1>1, <1>2, <4>1
        <3>2. SUFFICES ASSUME NEW w \in (Week(today) - 1)..last
                       PROVE  w \in parts' \/ Expired(w)
            BY <1>4, <1>7 DEF WeeksReady, Week, Expired, LastDay
        <3>3. CASE w \in Week(today)..last
            BY <1>7, <3>3 DEF EnsureSucceeds
        <3>4. CASE w = Week(today) - 1
            <4>1. w \in (Week(workerDay) - 1)..(ensured + Ahead)
                BY <1>1, <1>2, <1>3, <3>1, <3>4
            <4>2. w \in parts \/ Expired(w)
                BY <1>6, <3>1, <4>1 DEF WeeksReady
            <4> QED BY <1>7, <4>2 DEF EnsureSucceeds
        <3> QED BY <1>2, <3>3, <3>4
    <2>2. Week(workerDay + 1)' <= ensured' + Ahead
        BY <1>1, <1>2, <1>4, <1>7 DEF Lookahead, Week
    <2>3. Covered'
        BY <2>1, <2>2 DEF Covered
    <2>4. NoStrayRows'
        BY <1>4, <1>7 DEF LookaheadInv, NoStrayRows, EnsureSucceeds
    <2> QED BY <1>5, <2>3, <2>4 DEF LookaheadGoal
<1>8. CASE /\ EnsureRefused(Week(today), last) \/ UNCHANGED <<parts, blocked>>
           /\ behind' = (behind \/ Week(today + 1) > ensured + Ahead)
           /\ UNCHANGED ensured
    <2>1. ASSUME ~behind'
          PROVE  ~behind /\ Week(today + 1) <= ensured + Ahead /\ UNCHANGED <<parts, blocked>>
        <3>1. ~behind /\ ~(Week(today + 1) > ensured + Ahead)
            BY <1>8, <2>1, Zenon
        <3> QED BY <1>1, <1>2, <1>6, <1>8, <3>1
    <2>2. ASSUME ~behind' PROVE WeeksReady'
        <3>1. SUFFICES ASSUME NEW w \in (Week(today) - 1)..(ensured + Ahead)
                       PROVE  w \in parts' \/ Expired(w)
            BY <1>4, <1>8 DEF WeeksReady, Week, Expired, LastDay
        <3>2. w \in (Week(workerDay) - 1)..(ensured + Ahead)
            BY <1>1, <1>2, <1>3
        <3> QED BY <1>6, <2>1, <2>2, <3>2 DEF WeeksReady
    <2>3. Covered'
        BY <1>4, <1>8, <2>1, <2>2 DEF Covered, Week
    <2>4. NoStrayRows'
        BY <1>4, <2>1 DEF LookaheadInv, NoStrayRows
    <2> QED BY <1>5, <2>3, <2>4 DEF LookaheadGoal
<1> QED BY <1>7, <1>8 DEF Rollover

(* A service date is a neighbour of today, so its week is ready.           *)
LEMMA StoreLookahead ==
    ASSUME LookaheadInv, Lookahead, NEW d \in Days, NEW r \in Rows, Store(d, r)
    PROVE  LookaheadGoal
<1>1. /\ today \in Nat /\ d \in Nat /\ workerDay = today /\ up
      /\ today - 1 <= d /\ d <= today + 1
      /\ ensured \in Int /\ Ahead \in Int /\ RetainDays \in Int
    BY RetentionAssumption DEF LookaheadInv, TypeOK, Store, Days
<1>2. UNCHANGED <<today, workerDay, up, parts, todo, checked, ensured, behind, blocked>>
    BY DEF Store, workerVars, dropVars
<1>3. ExpiredOnly' /\ Covered' /\ workerDay' <= today'
    BY <1>1, <1>2, StaysExpiredOnly, StaysCovered DEF LookaheadInv
<1>4. ASSUME ~behind PROVE Week(d) \in parts
    <2>1. /\ Week(d) \in Int /\ Week(today) \in Int /\ Week(today + 1) \in Int
          /\ Week(d) <= Week(today + 1) /\ Week(today) <= Week(d + 1)
          /\ Week(d + 1) \in Int /\ Week(d + 1) <= Week(d) + 1
        BY <1>1, WeekOf, WeekMonotone, NextDaysWeek
    <2>2. Week(today + 1) <= ensured + Ahead /\ WeeksReady
        BY <1>1, <1>4 DEF LookaheadInv, Covered
    <2>3. Week(d) \in (Week(workerDay) - 1)..(ensured + Ahead)
        BY <1>1, <2>1, <2>2
    <2>4. ~Expired(Week(d))
        BY <1>1, ExpiredDays DEF Lookahead
    <2> QED BY <2>2, <2>3, <2>4 DEF WeeksReady
<1>5. NoStrayRows'
    BY <1>2, <1>4 DEF LookaheadInv, NoStrayRows, Store
<1> QED BY <1>3, <1>5 DEF LookaheadGoal

LEMMA DropLookahead ==
    ASSUME LookaheadInv, Drop
    PROVE  LookaheadGoal
<1>1. today \in Nat /\ Week(today) \in Int /\ Ahead \in Int /\ workerDay <= today
    BY WeekOf, RetentionAssumption DEF LookaheadInv, TypeOK
<1>2. UNCHANGED <<today, workerDay, up, stray, ensured, behind>>
    BY DEF Drop, BeginDrop, EndDrop, AbortDrop, CheckPartition, DropPartition,
           workerVars, rawVars, ghostVars
<1>3. ASSUME UNCHANGED <<parts, blocked>>, ExpiredOnly' PROVE LookaheadGoal
    BY <1>1, <1>2, <1>3, StaysCovered DEF LookaheadInv, NoStrayRows, LookaheadGoal
<1>4. CASE BeginDrop
    <2> DEFINE first == Week(today) - 1
               last == Week(today) + Ahead + 2
    <2>1. first \in Int /\ last \in Int /\ checked' = checked
        BY <1>1, <1>4 DEF BeginDrop
    <2>2. ASSUME ~behind PROVE UNCHANGED blocked
        BY <1>4, <2>1, <2>2, NothingRefused DEF BeginDrop, LookaheadInv, EnsureSucceeds
    <2>3. parts \subseteq parts'
        BY <1>4 DEF BeginDrop, EnsureSucceeds, EnsureRefused
    <2>4. Covered'
        BY <1>1, <1>2, <2>3, StaysCovered
    <2>5. NoStrayRows'
        BY <1>2, <2>2 DEF LookaheadInv, NoStrayRows
    <2>6. ExpiredOnly'
        BY <1>2, <1>4, <2>1 DEF BeginDrop, LookaheadInv, ExpiredOnly, Expired, LastDay
    <2> QED BY <1>1, <1>2, <2>4, <2>5, <2>6 DEF LookaheadGoal
<1>5. CASE EndDrop \/ AbortDrop
    <2>1. ExpiredOnly'
        BY <1>2, <1>5 DEF EndDrop, AbortDrop, LookaheadInv, ExpiredOnly, Expired, LastDay
    <2> QED BY <1>3, <1>5, <2>1 DEF EndDrop, AbortDrop, rawVars, ghostVars
<1>6. ASSUME NEW w \in todo, CheckPartition(w) PROVE LookaheadGoal
    <2>1. ExpiredOnly'
        BY <1>2, <1>6 DEF CheckPartition, LookaheadInv, ExpiredOnly, Expired, LastDay
    <2> QED BY <1>3, <1>6, <2>1 DEF CheckPartition, rawVars, ghostVars
<1>7. CASE DropPartition
    <2>1. /\ parts' = parts \ {checked} /\ Expired(checked)
          /\ UNCHANGED <<todo, blocked>> /\ checked' = NoWeek
        BY <1>7 DEF DropPartition, LookaheadInv, ExpiredOnly, ghostVars
    <2>2. Covered'
        BY <1>1, <1>2, <2>1, StaysCovered
    <2>3. ExpiredOnly' /\ NoStrayRows'
        BY <1>2, <2>1 DEF LookaheadInv, ExpiredOnly, NoStrayRows, Expired, LastDay
    <2> QED BY <1>1, <1>2, <2>2, <2>3 DEF LookaheadGoal
<1> QED BY <1>4, <1>5, <1>6, <1>7 DEF Drop

LEMMA LookaheadStep ==
    ASSUME LookaheadInv, Lookahead, [Next]_vars
    PROVE  LookaheadInv'
<1>1. TypeOK' /\ today \in Int /\ workerDay \in Int /\ workerDay <= today
    BY TypeStep DEF LookaheadInv, TypeOK
<1>2. ASSUME StopWorker \/ Rollup \/ Midnight \/ Settle \/ UNCHANGED vars
      PROVE  LookaheadGoal
    <2>1. /\ UNCHANGED <<workerDay, ensured, behind, blocked, parts, stray, todo, checked>>
          /\ up' => up
          /\ today' = today \/ today' = today + 1
        BY <1>2 DEF StopWorker, Rollup, RollupDay, RollupMonth, Midnight, Settle, vars,
               workerVars, rawVars, dropVars, ghostVars
    <2>2. today' \in Int /\ today <= today' /\ workerDay' <= today'
        BY <1>1, <2>1
    <2> QED BY <2>1, <2>2, StaysCovered, StaysExpiredOnly
               DEF LookaheadInv, NoStrayRows, LookaheadGoal
<1>3. LookaheadGoal
    BY <1>2, StartLookahead, RolloverLookahead, StoreLookahead, DropLookahead
       DEF Next, Worker
<1> QED BY <1>1, <1>3 DEF LookaheadInv, LookaheadGoal

(* With a lookahead of at least a week and yesterday within retention, no  *)
(* row reaches the DEFAULT partition, and no partition is refused, until   *)
(* ensurePartitions has failed for longer than the lookahead.              *)
THEOREM NoRowIsStray == ASSUME Lookahead PROVE Spec => []NoStrayRows
<1>1. Init => LookaheadInv
    <2>1. Init => TypeOK
        BY InvInit DEF IInv
    <2> QED BY <2>1 DEF Init, LookaheadInv, ExpiredOnly, Covered, NoStrayRows, NoRows
<1>2. LookaheadInv /\ [Next]_vars => LookaheadInv'
    BY LookaheadStep
<1>3. LookaheadInv => NoStrayRows
    BY DEF LookaheadInv
<1> QED BY <1>1, <1>2, <1>3, PTL DEF Spec
=============================================================================
