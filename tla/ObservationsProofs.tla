------------------------- MODULE ObservationsProofs -------------------------
(***************************************************************************)
(* Theorems about Observations, for all keys, versions, updates and        *)
(* bounds: a row is the summary of everything stored for its stop, its     *)
(* schedule columns come from one version, and nothing it knows is lost.   *)
(* Storing a prediction twice changes nothing, and a replay converges.     *)
(***************************************************************************)
EXTENDS Observations, FiniteSetTheorems, TLAPS

Inv ==
    /\ TypeOK
    /\ RowsSummariseReports
    /\ ScheduleFromOneVersion

-----------------------------------------------------------------------------
(* What transformFeed emits.                                               *)

LEMMA EmittedType ==
    ASSUME NEW k \in Keys, NEW u \in Updates \cup {Absent}, NEW stamp \in Stamps,
           bound \in Versions \cup {NULL}, Emits(u)
    PROVE  /\ Emitted(k, u, stamp) \in EmittedRow
           /\ OneVersion(k, Emitted(k, u, stamp))
<1>1. u \in Update /\ u.arrival \in Int
    BY DataAssumption DEF Emits, Update, Absent, Relationships
<1>2. Matched(k) => /\ bound \in Versions /\ ScheduledAt[bound][k] \in Int
                    /\ HourOf[ScheduledAt[bound][k]] \in 0..23
    BY DataAssumption DEF Matched, Arrivals
<1>3. Emitted(k, u, stamp) \in EmittedRow
    BY <1>1, <1>2, DataAssumption
    DEF Emitted, EmittedRow, Update, Provenance, Sources, Hours
<1>4. CASE Matched(k)
    BY <1>2, <1>3, <1>4, DataAssumption DEF Emitted, OneVersion
<1>5. CASE ~Matched(k)
    BY <1>3, <1>5 DEF Emitted, OneVersion
<1> QED BY <1>3, <1>4, <1>5

-----------------------------------------------------------------------------
(* What the upsert makes of one row.                                       *)

LEMMA InsertType ==
    ASSUME NEW new \in EmittedRow
    PROVE  Inserted(new) \in Row
BY DEF Inserted, Row, EmittedRow

LEMMA MergeType ==
    ASSUME NEW row \in Row, NEW new \in EmittedRow
    PROVE  Merged(row, new) \in Row
BY DEF Merged, Changed, Row, EmittedRow, Least, Greatest, Coalesce

LEMMA MergeKeeps ==
    ASSUME NEW row \in Row, NEW new \in EmittedRow, NEW k \in Keys,
           OneVersion(k, row), OneVersion(k, new)
    PROVE  /\ OneVersion(k, Merged(row, new))
           /\ Keeps(row, Merged(row, new))
<1> DEFINE r == Merged(row, new)
<1>1. /\ r.scheduled = Coalesce(new.scheduled, row.scheduled)
      /\ r.hour = Coalesce(new.hour, row.hour)
      /\ r.dayType = Coalesce(new.dayType, row.dayType)
      /\ r.version = Coalesce(new.version, row.version)
      /\ r.vehicle = Coalesce(new.vehicle, row.vehicle)
      /\ r.source = IF new.scheduled # NULL THEN new.source ELSE row.source
    BY DEF Merged
<1>2. ASSUME new.version = NULL PROVE OneVersion(k, r)
    <2>1. /\ r.scheduled = row.scheduled /\ r.hour = row.hour /\ r.dayType = row.dayType
          /\ r.version = row.version /\ r.source = row.source
        <3> HIDE DEF r
        <3> QED BY <1>1, <1>2 DEF OneVersion, Coalesce
    <2> HIDE DEF r
    <2> QED BY <2>1 DEF OneVersion
<1>3. ASSUME new.version # NULL PROVE OneVersion(k, r)
    <2>1. new.scheduled # NULL /\ new.hour # NULL /\ new.dayType # NULL
        <3>1. /\ new.scheduled = ScheduledAt[new.version][k]
              /\ new.scheduled # NULL
              /\ new.hour = HourOf[new.scheduled] /\ new.dayType = DayTypeOf[k]
              /\ new.version \in Versions
            BY <1>3 DEF OneVersion, EmittedRow
        <3>2. new.scheduled \in Arrivals
            BY <3>1 DEF Arrivals
        <3>3. HourOf[new.scheduled] \in Int /\ DayTypeOf[k] \in DayTypes
            BY <3>2, DataAssumption
        <3>4. NULL \notin Int /\ NULL \notin DayTypes
            BY DataAssumption
        <3> QED BY <3>1, <3>3, <3>4
    <2>2. /\ r.scheduled = new.scheduled /\ r.hour = new.hour /\ r.dayType = new.dayType
          /\ r.version = new.version /\ r.source = new.source
        <3> HIDE DEF r
        <3> QED BY <1>1, <1>3, <2>1 DEF Coalesce
    <2> HIDE DEF r
    <2> QED BY <2>2 DEF OneVersion
<1>4. OneVersion(k, r)
    BY <1>2, <1>3
<1>5. Keeps(row, r)
    <2>1. row.version # NULL => r.version # NULL /\ r.source = row.source
        <3> HIDE DEF r
        <3> QED BY <1>1, <1>4 DEF OneVersion, Coalesce
    <2>2. /\ r.first = row.first /\ r.firstSeen = row.firstSeen
          /\ r.min <= row.min /\ r.max >= row.max
          /\ r.polls >= row.polls /\ r.changes >= row.changes
          /\ r.lastSeen >= row.lastSeen
        BY DEF Merged, Changed, Least, Greatest, Row, EmittedRow
    <2> HIDE DEF r
    <2> QED BY <1>1, <2>1, <2>2 DEF Keeps, Coalesce
<1> QED BY <1>4, <1>5

-----------------------------------------------------------------------------
(* A summary stays one when a row is merged and the history grows.         *)

LEMMA FirstSummary ==
    ASSUME NEW new \in EmittedRow
    PROVE  Summarises(Inserted(new), Append(<< >>, new))
<1> DEFINE h == Append(<< >>, new)
<1>1. Len(h) = 1 /\ h[1] = new
    OBVIOUS
<1>2. Changes(h) = {}
    BY <1>1 DEF Changes
<1>3. Cardinality(Changes(h)) = 0
    BY <1>2, FS_EmptySet
<1> QED
    BY <1>1, <1>3 DEF Summarises, Inserted, EmittedRow

LEMMA ChangesCount ==
    ASSUME NEW h \in Seq(EmittedRow), NEW new \in EmittedRow, Len(h) > 0
    PROVE  Cardinality(Changes(Append(h, new))) =
               Cardinality(Changes(h))
                   + IF h[Len(h)].observed # new.observed THEN 1 ELSE 0
<1> DEFINE n == Len(h)
           g == Append(h, new)
<1>1. /\ Len(g) = n + 1 /\ g[n + 1] = new /\ n \in Nat
      /\ \A i \in 1..n : g[i] = h[i]
    OBVIOUS
<1>2. \A i \in 2..n : i \in Changes(g) <=> i \in Changes(h)
    BY <1>1 DEF Changes
<1>3. n + 1 \in Changes(g) <=> h[n].observed # new.observed
    BY <1>1 DEF Changes
<1>4. Changes(g) \subseteq 2..(n + 1) /\ Changes(h) \subseteq 2..n
    BY <1>1 DEF Changes
<1>5. /\ IsFiniteSet(Changes(h)) /\ Cardinality(Changes(h)) \in Nat
      /\ n + 1 \notin Changes(h)
    <2>1. IsFiniteSet(2..n)
        BY <1>1, FS_Interval
    <2>2. IsFiniteSet(Changes(h))
        BY <1>4, <2>1, FS_Subset
    <2> QED BY <1>1, <1>4, <2>2, FS_CardinalityType
<1>6. CASE h[n].observed # new.observed
    <2>1. Changes(g) = Changes(h) \cup {n + 1}
        BY <1>1, <1>2, <1>3, <1>4, <1>6
    <2> QED BY <1>5, <1>6, <2>1, FS_AddElement
<1>7. CASE h[n].observed = new.observed
    <2>1. ASSUME NEW i PROVE i \in Changes(g) <=> i \in Changes(h)
        <3>1. CASE i \in 2..n
            BY <1>2, <3>1
        <3>2. CASE i \notin 2..n
            <4>1. i \notin Changes(h)
                BY <1>4, <3>2
            <4>2. i \in 2..(n + 1) => i = n + 1
                BY <1>1, <3>2
            <4> QED BY <1>3, <1>4, <1>7, <4>1, <4>2
        <3> QED BY <3>1, <3>2
    <2>2. Changes(g) = Changes(h)
        BY <2>1
    <2> QED BY <1>5, <1>7, <2>2
<1> QED BY <1>6, <1>7

LEMMA MergedSummary ==
    ASSUME NEW row \in Row, NEW h \in Seq(EmittedRow), NEW new \in EmittedRow,
           Summarises(row, h)
    PROVE  Summarises(Merged(row, new), Append(h, new))
<1> DEFINE n == Len(h)
           g == Append(h, new)
           r == Merged(row, new)
<1>1. /\ Len(g) = n + 1 /\ g[n + 1] = new /\ n \in Nat
      /\ \A i \in 1..n : g[i] = h[i]
      /\ n > 0
    BY DEF Summarises
<1>2. ASSUME NEW i \in 1..n PROVE h[i].observed \in Int /\ h[i].seen \in Int
    <2>1. h[i] \in EmittedRow
        BY <1>1
    <2> QED BY <2>1 DEF EmittedRow
<1>3. new.observed \in Int /\ new.seen \in Int
    BY DEF EmittedRow
<1>4. /\ row.min \in Int /\ row.max \in Int /\ row.lastSeen \in Int
      /\ row.polls \in Nat
    BY DEF Row
<1>5. /\ r.polls = row.polls + 1 /\ r.first = row.first
      /\ r.observed = new.observed
      /\ r.min = IF row.min <= new.observed THEN row.min ELSE new.observed
      /\ r.max = IF row.max >= new.observed THEN row.max ELSE new.observed
      /\ r.lastSeen = IF row.lastSeen >= new.seen THEN row.lastSeen ELSE new.seen
      /\ r.changes = row.changes + IF row.observed # new.observed THEN 1 ELSE 0
    BY DEF Merged, Changed, Least, Greatest
<1>6. r.polls = Len(g) /\ r.first = g[1].observed /\ r.observed = g[Len(g)].observed
    BY <1>1, <1>4, <1>5 DEF Summarises
<1>7. /\ \A i \in 1..n : row.min <= h[i].observed /\ h[i].observed <= row.max
      /\ \A i \in 1..n : h[i].seen <= row.lastSeen
      /\ \E i \in 1..n : row.min = h[i].observed
      /\ \E i \in 1..n : row.max = h[i].observed
    BY DEF Summarises
<1>8. ASSUME NEW i \in 1..(n + 1)
      PROVE  r.min <= g[i].observed /\ g[i].observed <= r.max /\ g[i].seen <= r.lastSeen
    <2>1. CASE i \in 1..n
        <3>1. /\ g[i] = h[i] /\ h[i].observed \in Int /\ h[i].seen \in Int
              /\ row.min <= h[i].observed /\ h[i].observed <= row.max
              /\ h[i].seen <= row.lastSeen
            BY <1>1, <1>2, <1>7, <2>1
        <3> HIDE DEF g, r
        <3>2. r.min <= row.min /\ r.min \in Int
            BY <1>3, <1>4, <1>5
        <3>3. row.max <= r.max /\ r.max \in Int
            BY <1>3, <1>4, <1>5
        <3>4. row.lastSeen <= r.lastSeen /\ r.lastSeen \in Int
            BY <1>3, <1>4, <1>5
        <3>5. r.min <= h[i].observed /\ h[i].observed <= r.max
            BY <3>1, <3>2, <3>3, <1>4
        <3>6. h[i].seen <= r.lastSeen
            BY <3>1, <3>4, <1>4
        <3> QED BY <3>1, <3>5, <3>6
    <2>2. CASE i = n + 1
        BY <1>1, <1>3, <1>4, <1>5, <2>2
    <2> QED BY <1>1, <2>1, <2>2
<1>9. \E i \in 1..(n + 1) : r.min = g[i].observed
    <2>1. CASE row.min <= new.observed
        <3>1. PICK i \in 1..n : row.min = h[i].observed
            BY <1>7
        <3> QED BY <1>1, <1>5, <2>1, <3>1
    <2>2. CASE ~(row.min <= new.observed)
        <3>1. n + 1 \in 1..(n + 1)
            BY <1>1
        <3> QED BY <1>1, <1>5, <2>2, <3>1
    <2> QED BY <2>1, <2>2
<1>10. \E i \in 1..(n + 1) : r.max = g[i].observed
    <2>1. CASE row.max >= new.observed
        <3>1. PICK i \in 1..n : row.max = h[i].observed
            BY <1>7
        <3> QED BY <1>1, <1>5, <2>1, <3>1
    <2>2. CASE ~(row.max >= new.observed)
        <3>1. n + 1 \in 1..(n + 1)
            BY <1>1
        <3> QED BY <1>1, <1>5, <2>2, <3>1
    <2> QED BY <2>1, <2>2
<1>11. r.changes = Cardinality(Changes(g))
    BY <1>1, <1>5, ChangesCount DEF Summarises
<1> HIDE DEF r, g
<1>12. Summarises(r, g)
    BY <1>1, <1>6, <1>8, <1>9, <1>10, <1>11 DEF Summarises
<1> QED BY <1>12 DEF r, g

-----------------------------------------------------------------------------
(* The statement: what it does to the row and to the history of each key.  *)

LEMMA UpsertStep ==
    ASSUME Inv, NEW poll \in Polls, Upsert(poll)
    PROVE  /\ DOMAIN table' \subseteq Keys
           /\ table' \in [DOMAIN table' -> Row]
           /\ history' \in [Keys -> Seq(EmittedRow)]
           /\ RowsSummariseReports'
           /\ ScheduleFromOneVersion'
           /\ \A k \in DOMAIN table : k \in DOMAIN table' /\ Keeps(table[k], table'[k])
<1> DEFINE u(k) == poll.updates[k]
           new(k) == Emitted(k, u(k), poll.stamp)
<1>1. /\ DOMAIN table \subseteq Keys /\ table \in [DOMAIN table -> Row]
      /\ history \in [Keys -> Seq(EmittedRow)]
      /\ bound \in Versions \cup {NULL}
    BY DEF Inv, TypeOK
<1>2. \A k \in Keys : u(k) \in Updates \cup {Absent}
    BY DEF Polls
<1>3. \A k \in Keys : Emits(u(k)) =>
          new(k) \in EmittedRow /\ OneVersion(k, new(k))
    BY <1>1, <1>2, EmittedType DEF Polls
<1>4. DOMAIN table' = DOMAIN table \cup {k \in Keys : Emits(u(k))}
    BY DEF Upsert, Remembered
<1>5. DOMAIN history' = Keys
    BY DEF Upsert, Remembered
<1>6. ASSUME NEW k \in Keys, ~Emits(u(k))
      PROVE  /\ k \in DOMAIN table' <=> k \in DOMAIN table
             /\ k \in DOMAIN table => table'[k] = table[k]
             /\ history'[k] = history[k]
    BY <1>4, <1>6 DEF Upsert, Remembered
<1>7. ASSUME NEW k \in Keys, Emits(u(k)), k \notin DOMAIN table
      PROVE  /\ k \in DOMAIN table'
             /\ table'[k] = Inserted(new(k))
             /\ history'[k] = Append(history[k], new(k))
    BY <1>4, <1>7 DEF Upsert, Remembered
<1>8. ASSUME NEW k \in Keys, Emits(u(k)), k \in DOMAIN table
      PROVE  /\ k \in DOMAIN table'
             /\ table'[k] = Merged(table[k], new(k))
             /\ history'[k] = Append(history[k], new(k))
    BY <1>4, <1>8 DEF Upsert, Remembered
<1> HIDE DEF new, u
<1>9. ASSUME NEW k \in Keys
      PROVE  /\ k \in DOMAIN table' => table'[k] \in Row /\ OneVersion(k, table'[k])
             /\ history'[k] \in Seq(EmittedRow)
             /\ IF k \in DOMAIN table' THEN Summarises(table'[k], history'[k])
                                       ELSE history'[k] = << >>
             /\ k \in DOMAIN table =>
                    k \in DOMAIN table' /\ Keeps(table[k], table'[k])
    <2>1. /\ k \in DOMAIN table => table[k] \in Row /\ OneVersion(k, table[k])
          /\ IF k \in DOMAIN table THEN Summarises(table[k], history[k])
                                   ELSE history[k] = << >>
        BY <1>1 DEF Inv, RowsSummariseReports, ScheduleFromOneVersion
    <2>2. CASE ~Emits(u(k))
        <3>1. k \in DOMAIN table => Keeps(table[k], table[k])
            BY <2>1 DEF Keeps, Row
        <3> QED BY <1>1, <1>6, <2>1, <2>2, <3>1
    <2>3. CASE Emits(u(k)) /\ k \notin DOMAIN table
        <3>1. /\ k \in DOMAIN table' /\ table'[k] = Inserted(new(k))
              /\ history'[k] = Append(<< >>, new(k)) /\ new(k) \in EmittedRow
              /\ OneVersion(k, new(k))
            BY <1>3, <1>7, <2>1, <2>3
        <3>2. OneVersion(k, Inserted(new(k)))
            BY <3>1 DEF OneVersion, Inserted
        <3> QED BY <2>3, <3>1, <3>2, InsertType, FirstSummary
    <2>4. CASE Emits(u(k)) /\ k \in DOMAIN table
        <3>1. /\ k \in DOMAIN table' /\ table'[k] = Merged(table[k], new(k))
              /\ history'[k] = Append(history[k], new(k))
              /\ new(k) \in EmittedRow /\ OneVersion(k, new(k))
              /\ history[k] \in Seq(EmittedRow)
            BY <1>1, <1>3, <1>8, <2>4
        <3> QED BY <2>1, <2>4, <3>1, MergeType, MergeKeeps, MergedSummary
    <2> QED BY <2>2, <2>3, <2>4
<1>10. DOMAIN table' \subseteq Keys /\ table' \in [DOMAIN table' -> Row]
    <2>1. DOMAIN table' \subseteq Keys
        BY <1>1, <1>4
    <2>2. table' = [k \in DOMAIN table' |-> table'[k]]
        BY DEF Upsert, Remembered
    <2> QED BY <1>9, <2>1, <2>2
<1>11. history' \in [Keys -> Seq(EmittedRow)]
    <2>1. history' = [k \in Keys |-> history'[k]]
        BY DEF Upsert, Remembered
    <2> QED BY <1>9, <2>1
<1>12. RowsSummariseReports'
    BY <1>9 DEF RowsSummariseReports
<1>13. ScheduleFromOneVersion'
    BY <1>9, <1>10 DEF ScheduleFromOneVersion
<1> QED BY <1>1, <1>9, <1>10, <1>11, <1>12, <1>13

-----------------------------------------------------------------------------
(* Every step keeps the invariant and what the rows know.                  *)

RowsKeep == \A k \in DOMAIN table : k \in DOMAIN table' /\ Keeps(table[k], table'[k])

LEMMA RowsUnchanged ==
    ASSUME Inv, UNCHANGED <<table, history>>
    PROVE  /\ DOMAIN table' \subseteq Keys
           /\ table' \in [DOMAIN table' -> Row]
           /\ history' \in [Keys -> Seq(EmittedRow)]
           /\ RowsSummariseReports'
           /\ ScheduleFromOneVersion'
           /\ RowsKeep
<1>1. \A k \in DOMAIN table : table[k] \in Row
    BY DEF Inv, TypeOK
<1>2. \A k \in DOMAIN table : Keeps(table[k], table[k])
    BY <1>1 DEF Keeps, Row
<1> QED
    BY <1>2 DEF Inv, TypeOK, RowsSummariseReports, ScheduleFromOneVersion, RowsKeep

LEMMA LogGrows ==
    ASSUME TypeOK, NEW poll \in Polls, log' = Append(log, poll), UNCHANGED <<replay, replays>>
    PROVE  /\ log' \in Seq(Polls)
           /\ replay' \in [first : 0..Len(log'), next : 0..Len(log'), last : 0..Len(log')]
           /\ Replaying' => /\ 0 < replay'.first /\ replay'.first <= replay'.next
                            /\ replay'.next <= replay'.last
           /\ replays' \in 0..MaxReplays
<1>1. log' \in Seq(Polls) /\ Len(log') = Len(log) + 1 /\ Len(log) \in Nat
    BY DEF TypeOK
<1> QED BY <1>1 DEF TypeOK, Replaying

LEMMA InvStep ==
    ASSUME Inv, [Next]_vars
    PROVE  Inv' /\ RowsKeep
<1>1. ASSUME NEW poll \in Polls, Poll(poll) PROVE Inv' /\ RowsKeep
    <2>1. UNCHANGED <<bound, replay, replays>> /\ log' = Append(log, poll) /\ Upsert(poll)
        BY <1>1 DEF Poll
    <2> QED BY <2>1, UpsertStep, LogGrows DEF Inv, TypeOK, RowsKeep
<1>2. ASSUME NEW poll \in Polls, PollNotStored(poll) PROVE Inv' /\ RowsKeep
    <2>1. UNCHANGED <<table, bound, replay, replays, history>> /\ log' = Append(log, poll)
        BY <1>2 DEF PollNotStored
    <2> QED BY <2>1, RowsUnchanged, LogGrows DEF Inv, TypeOK
<1>3. ASSUME NEW v \in Versions \cup {NULL}, Rebind(v) PROVE Inv' /\ RowsKeep
    <2>1. UNCHANGED <<table, log, replay, replays, history>> /\ bound' = v
        BY <1>3 DEF Rebind
    <2> QED BY <2>1, RowsUnchanged DEF Inv, TypeOK, Replaying
<1>4. ASSUME NEW from \in DOMAIN log, NEW to \in DOMAIN log, StartReplay(from, to)
      PROVE  Inv' /\ RowsKeep
    <2>1. /\ UNCHANGED <<table, bound, log, history>>
          /\ replay' = [first |-> from, next |-> from, last |-> to]
          /\ replays' = replays + 1 /\ replays < MaxReplays /\ from <= to
        BY <1>4 DEF StartReplay
    <2>2. DOMAIN log = 1..Len(log) /\ Len(log) \in Nat
        BY DEF Inv, TypeOK
    <2>3. replays' \in 0..MaxReplays
        BY <2>1, BoundsAssumption DEF Inv, TypeOK
    <2>4. /\ replay' \in [first : 0..Len(log), next : 0..Len(log), last : 0..Len(log)]
          /\ 0 < replay'.first /\ replay'.first <= replay'.next
          /\ replay'.next <= replay'.last
        BY <2>1, <2>2
    <2> QED BY <2>1, <2>3, <2>4, RowsUnchanged DEF Inv, TypeOK
<1>5. ASSUME ReplayPoll PROVE Inv' /\ RowsKeep
    <2>1. /\ UNCHANGED <<bound, log, replays>> /\ Upsert(log[replay.next]) /\ Replaying
          /\ replay' = IF replay.next < replay.last
                       THEN [replay EXCEPT !.next = @ + 1] ELSE NoReplay
        BY <1>5 DEF ReplayPoll
    <2>2. /\ replay \in [first : 0..Len(log), next : 0..Len(log), last : 0..Len(log)]
          /\ 0 < replay.first /\ replay.first <= replay.next /\ replay.next <= replay.last
          /\ log \in Seq(Polls) /\ Len(log) \in Nat
        BY <2>1 DEF Inv, TypeOK
    <2>3. log[replay.next] \in Polls
        BY <2>2
    <2>4. /\ replay' \in [first : 0..Len(log), next : 0..Len(log), last : 0..Len(log)]
          /\ Replaying' => /\ 0 < replay'.first /\ replay'.first <= replay'.next
                           /\ replay'.next <= replay'.last
        <3>1. CASE replay.next < replay.last
            BY <2>1, <2>2, <3>1
        <3>2. CASE ~(replay.next < replay.last)
            BY <2>1, <2>2, <3>2 DEF NoReplay, Replaying
        <3> QED BY <3>1, <3>2
    <2> QED BY <2>1, <2>3, <2>4, UpsertStep DEF Inv, TypeOK, RowsKeep
<1>6. CASE UNCHANGED vars
    <2>1. UNCHANGED <<table, history>> /\ UNCHANGED <<bound, log, replay, replays>>
        BY <1>6 DEF vars
    <2> QED BY <2>1, RowsUnchanged DEF Inv, TypeOK, Replaying
<1> QED BY <1>1, <1>2, <1>3, <1>4, <1>5, <1>6 DEF Next

LEMMA InvInit == Init => Inv
<1> SUFFICES ASSUME Init PROVE Inv
    OBVIOUS
<1>1. DOMAIN table = {} /\ table \in [DOMAIN table -> Row]
    BY DEF Init
<1>2. << >> \in Seq(EmittedRow) /\ << >> \in Seq(Polls) /\ Len(<< >>) = 0
    OBVIOUS
<1>3. replays \in 0..MaxReplays
    BY BoundsAssumption DEF Init
<1> QED
    BY <1>1, <1>2, <1>3 DEF Init, Inv, TypeOK, NoReplay, Replaying,
        RowsSummariseReports, ScheduleFromOneVersion

THEOREM ObservationsInvariant == Spec => []Inv
<1>1. Inv /\ [Next]_vars => Inv'
    BY InvStep
<1> QED BY InvInit, <1>1, PTL DEF Spec

(* Whatever is polled, lost and replayed, every row is the summary of the  *)
(* predictions stored for its stop.                                        *)
THEOREM RowsAreSummaries == Spec => []RowsSummariseReports
<1>1. Inv => RowsSummariseReports
    BY DEF Inv
<1> QED BY <1>1, ObservationsInvariant, PTL

(* The separately coalesced schedule columns of a row never mix versions.  *)
THEOREM OneVersionPerRow == Spec => []ScheduleFromOneVersion
<1>1. Inv => ScheduleFromOneVersion
    BY DEF Inv
<1> QED BY <1>1, ObservationsInvariant, PTL

(* No step of the worker and no replay takes anything away from a row.     *)
THEOREM NothingIsForgotten == Spec => InformationIsOnlyAdded
<1>1. Inv /\ [Next]_vars =>
          [\A k \in DOMAIN table : k \in DOMAIN table' /\ Keeps(table[k], table'[k])]_vars
    BY InvStep DEF RowsKeep
<1> QED BY <1>1, ObservationsInvariant, PTL DEF Spec, InformationIsOnlyAdded
-----------------------------------------------------------------------------
(* A poll stored twice.  The row still shows what was stored last, as far  *)
(* as that said something: storing it again finds nothing to change.       *)

Shows(row, e) ==
    /\ row.observed = e.observed /\ row.relationship = e.relationship
    /\ row.min <= e.observed /\ e.observed <= row.max
    /\ e.seen <= row.lastSeen
    /\ e.vehicle # NULL => row.vehicle = e.vehicle
    /\ e.scheduled # NULL => row.scheduled = e.scheduled /\ row.source = e.source
    /\ e.hour # NULL => row.hour = e.hour
    /\ e.dayType # NULL => row.dayType = e.dayType
    /\ e.version # NULL => row.version = e.version

RowsShowTheLast ==
    \A k \in DOMAIN table : Shows(table[k], history[k][Len(history[k])])

LEMMA InsertedShows ==
    ASSUME NEW new \in EmittedRow
    PROVE  Shows(Inserted(new), new)
BY DEF Shows, Inserted, EmittedRow

LEMMA MergedShows ==
    ASSUME NEW row \in Row, NEW new \in EmittedRow
    PROVE  Shows(Merged(row, new), new)
BY DEF Shows, Merged, Least, Greatest, Coalesce, Row, EmittedRow

LEMMA MergeTwice ==
    ASSUME NEW row \in Row, NEW e \in EmittedRow, Shows(row, e)
    PROVE  SameButPolls(row, Merged(row, e))
<1>1. Changed(row, e) = 0
    BY DEF Changed, Shows
<1>2. /\ row.changes + 0 = row.changes
      /\ Least(row.min, e.observed) = row.min
      /\ Greatest(row.max, e.observed) = row.max
      /\ Greatest(row.lastSeen, e.seen) = row.lastSeen
    BY DEF Shows, Least, Greatest, Row, EmittedRow
<1>3. /\ Coalesce(e.vehicle, row.vehicle) = row.vehicle
      /\ Coalesce(e.scheduled, row.scheduled) = row.scheduled
      /\ Coalesce(e.hour, row.hour) = row.hour
      /\ Coalesce(e.dayType, row.dayType) = row.dayType
      /\ (IF e.scheduled # NULL THEN e.source ELSE row.source) = row.source
      /\ Coalesce(e.version, row.version) = row.version
      /\ e.observed = row.observed /\ e.relationship = row.relationship
    BY DEF Shows, Coalesce
<1> QED
    BY <1>1, <1>2, <1>3 DEF Merged, SameButPolls, Row

(* One key under one upsert.                                               *)
LEMMA UpsertKey ==
    ASSUME Inv, NEW poll \in Polls, Upsert(poll), NEW k \in Keys
    PROVE  /\ ~Emits(poll.updates[k]) =>
                  /\ k \in DOMAIN table' <=> k \in DOMAIN table
                  /\ k \in DOMAIN table => table'[k] = table[k]
                  /\ history'[k] = history[k]
           /\ Emits(poll.updates[k]) =>
                  LET new == Emitted(k, poll.updates[k], poll.stamp)
                  IN /\ new \in EmittedRow
                     /\ k \in DOMAIN table'
                     /\ table'[k] = IF k \in DOMAIN table THEN Merged(table[k], new)
                                                          ELSE Inserted(new)
                     /\ history'[k] = Append(history[k], new)
<1>1. /\ bound \in Versions \cup {NULL}
      /\ poll.updates[k] \in Updates \cup {Absent} /\ poll.stamp \in Stamps
    BY DEF Inv, TypeOK, Polls
<1>2. Emits(poll.updates[k]) =>
          Emitted(k, poll.updates[k], poll.stamp) \in EmittedRow
    BY <1>1, EmittedType
<1>3. DOMAIN table' = DOMAIN table \cup {j \in Keys : Emits(poll.updates[j])}
    BY DEF Upsert, Remembered
<1> QED
    BY <1>2, <1>3 DEF Upsert, Remembered

LEMMA HistoryGrowsByOne ==
    ASSUME NEW h \in Seq(EmittedRow), NEW new \in EmittedRow
    PROVE  /\ Len(Append(h, new)) = Len(h) + 1 /\ Len(h) \in Nat
           /\ Append(h, new)[Len(h) + 1] = new
           /\ Len(h) > 0 => Append(h, new)[Len(h)] = h[Len(h)]
OBVIOUS

RepeatKeeps(k) ==
    LET h == history'[k]
        n == Len(h)
    IN n > 1 /\ n > Len(history[k]) /\ h[n] = h[n - 1] =>
           SameButPolls(table[k], table'[k])

LEMMA UpsertShows ==
    ASSUME Inv, RowsShowTheLast, NEW poll \in Polls, Upsert(poll)
    PROVE  RowsShowTheLast' /\ \A k \in Keys : RepeatKeeps(k)
<1>1. DOMAIN table' \subseteq Keys
    BY UpsertStep
<1>2. ASSUME NEW k \in Keys
      PROVE  /\ k \in DOMAIN table' =>
                    Shows(table'[k], history'[k][Len(history'[k])])
             /\ RepeatKeeps(k)
    <2> DEFINE new == Emitted(k, poll.updates[k], poll.stamp)
    <2>1. /\ history[k] \in Seq(EmittedRow) /\ Len(history[k]) \in Nat
          /\ k \in DOMAIN table => table[k] \in Row /\ Len(history[k]) > 0
          /\ k \notin DOMAIN table => history[k] = << >>
        BY DEF Inv, TypeOK, RowsSummariseReports, Summarises
    <2>2. CASE ~Emits(poll.updates[k])
        <3>1. /\ k \in DOMAIN table' <=> k \in DOMAIN table
              /\ k \in DOMAIN table => table'[k] = table[k]
              /\ history'[k] = history[k]
            BY <2>2, UpsertKey
        <3> QED BY <2>1, <3>1 DEF RowsShowTheLast, RepeatKeeps
    <2>3. CASE Emits(poll.updates[k])
        <3>1. /\ new \in EmittedRow
              /\ table'[k] = IF k \in DOMAIN table THEN Merged(table[k], new)
                                                   ELSE Inserted(new)
              /\ history'[k] = Append(history[k], new)
            BY <2>3, UpsertKey
        <3> HIDE DEF new
        <3>2. /\ Len(history'[k]) = Len(history[k]) + 1
              /\ history'[k][Len(history[k]) + 1] = new
              /\ Len(history[k]) > 0 =>
                     history'[k][Len(history[k])] = history[k][Len(history[k])]
            BY <2>1, <3>1, HistoryGrowsByOne
        <3>3. Shows(table'[k], new)
            BY <2>1, <3>1, InsertedShows, MergedShows
        <3>4. ASSUME Len(history'[k]) > 1,
                     history'[k][Len(history'[k])] = history'[k][Len(history'[k]) - 1]
              PROVE  SameButPolls(table[k], table'[k])
            <4>1. Len(history[k]) > 0 /\ k \in DOMAIN table
                <5>1. Len(history[k]) > 0
                    BY <2>1, <3>2, <3>4
                <5>2. Len(<< >>) = 0
                    OBVIOUS
                <5> QED BY <2>1, <5>1, <5>2
            <4>2. history[k][Len(history[k])] = new
                <5>1. Len(history'[k]) - 1 = Len(history[k])
                    BY <2>1, <3>2
                <5> QED BY <3>2, <3>4, <4>1, <5>1
            <4>3. Shows(table[k], new)
                BY <4>1, <4>2 DEF RowsShowTheLast
            <4> QED BY <2>1, <3>1, <4>1, <4>3, MergeTwice
        <3> QED BY <3>2, <3>3, <3>4 DEF RepeatKeeps
    <2> QED BY <2>2, <2>3
<1> QED BY <1>1, <1>2 DEF RowsShowTheLast

LEMMA StoredPollIsArchived ==
    ASSUME TypeOK, ReplayPoll
    PROVE  /\ log[replay.next] \in Polls /\ Upsert(log[replay.next])
           /\ replay.first \in Nat /\ replay.next \in Nat /\ replay.last \in Nat
           /\ Len(log) \in Nat /\ replay.first <= replay.next
           /\ replay.next <= replay.last /\ replay.last <= Len(log)
           /\ UNCHANGED <<bound, log, replays>>
<1>1. /\ replay \in [first : 0..Len(log), next : 0..Len(log), last : 0..Len(log)]
      /\ 0 < replay.first /\ replay.first <= replay.next /\ replay.next <= replay.last
      /\ log \in Seq(Polls) /\ Len(log) \in Nat
    BY DEF TypeOK, ReplayPoll
<1> QED
    BY <1>1 DEF ReplayPoll

LEMMA ShowsStep ==
    ASSUME Inv, RowsShowTheLast, [Next]_vars
    PROVE  RowsShowTheLast' /\ \A k \in Keys : RepeatKeeps(k)
<1>1. ASSUME NEW poll \in Polls, Upsert(poll)
      PROVE  RowsShowTheLast' /\ \A k \in Keys : RepeatKeeps(k)
    BY <1>1, UpsertShows
<1>2. ASSUME UNCHANGED <<table, history>>
      PROVE  RowsShowTheLast' /\ \A k \in Keys : RepeatKeeps(k)
    <2>1. \A k \in Keys : Len(history[k]) \in Nat
        BY DEF Inv, TypeOK
    <2> QED BY <1>2, <2>1 DEF RowsShowTheLast, RepeatKeeps
<1>3. CASE \E poll \in Polls : Poll(poll)
    BY <1>1, <1>3 DEF Poll
<1>4. CASE ReplayPoll
    BY <1>1, <1>4, StoredPollIsArchived DEF Inv
<1>5. CASE \/ \E poll \in Polls : PollNotStored(poll)
           \/ \E v \in Versions \cup {NULL} : Rebind(v)
           \/ \E from, to \in DOMAIN log : StartReplay(from, to)
           \/ UNCHANGED vars
    BY <1>2, <1>5 DEF PollNotStored, Rebind, StartReplay, vars
<1> QED BY <1>3, <1>4, <1>5 DEF Next

(* The same prediction under the same binding, stored twice in a row by a  *)
(* replay or by an unchanged feed, changes nothing but poll_count.         *)
THEOREM RepeatChangesNothing == Spec => RepeatIsIdempotent
<1>1. Init => RowsShowTheLast
    BY DEF Init, RowsShowTheLast
<1>2. Inv /\ RowsShowTheLast /\ [Next]_vars => RowsShowTheLast'
    BY ShowsStep
<1>3. Inv /\ RowsShowTheLast /\ [Next]_vars =>
          [\A k \in Keys :
              LET h == history'[k]
                  n == Len(h)
              IN n > 1 /\ n > Len(history[k]) /\ h[n] = h[n - 1] =>
                     SameButPolls(table[k], table'[k])]_vars
    BY ShowsStep DEF RepeatKeeps
<1> QED
    BY <1>1, <1>2, <1>3, ObservationsInvariant, PTL DEF Spec, RepeatIsIdempotent

-----------------------------------------------------------------------------
(* A replay up to the newest archived poll.  While nothing is archived     *)
(* behind its back, the rows show the newest of the polls replayed so far. *)

NewestBefore(k, i, next) ==
    /\ Emits(log[i].updates[k])
    /\ \A j \in (i + 1)..(next - 1) : ~Emits(log[j].updates[k])

ShowsPoll(k, i) ==
    k \in DOMAIN table /\ table[k].observed = log[i].updates[k].arrival

Converging ==
    Replaying /\ replay.last = Len(log) =>
        \A k \in Keys : \A i \in replay.first..(replay.next - 1) :
            NewestBefore(k, i, replay.next) => ShowsPoll(k, i)

LEMMA ReplayedPollShows ==
    ASSUME Inv, Converging, ReplayPoll, replay.last = Len(log),
           NEW k \in Keys, NEW i \in replay.first..replay.next,
           Emits(log[i].updates[k]),
           \A j \in (i + 1)..replay.next : ~Emits(log[j].updates[k])
    PROVE  k \in DOMAIN table' /\ table'[k].observed = log[i].updates[k].arrival
<1> DEFINE poll == log[replay.next]
<1>1. /\ poll \in Polls /\ Upsert(poll)
      /\ replay.first \in Nat /\ replay.next \in Nat
      /\ replay.first <= replay.next
    BY StoredPollIsArchived DEF Inv
<1>2. CASE i = replay.next
    <2> DEFINE new == Emitted(k, poll.updates[k], poll.stamp)
    <2>1. /\ k \in DOMAIN table'
          /\ table'[k] = IF k \in DOMAIN table THEN Merged(table[k], new)
                                               ELSE Inserted(new)
        BY <1>1, <1>2, UpsertKey
    <2>2. table'[k].observed = new.observed
        <3> HIDE DEF new
        <3>1. /\ Inserted(new).observed = new.observed
              /\ Merged(table[k], new).observed = new.observed
            BY DEF Merged, Inserted
        <3> QED BY <2>1, <3>1
    <2> QED BY <1>2, <2>1, <2>2 DEF Emitted
<1>3. CASE i # replay.next
    <2>1. /\ i \in replay.first..(replay.next - 1)
          /\ replay.next \in (i + 1)..replay.next
          /\ (i + 1)..(replay.next - 1) \subseteq (i + 1)..replay.next
        BY <1>1, <1>3
    <2>2. ~Emits(poll.updates[k]) /\ NewestBefore(k, i, replay.next)
        BY <2>1 DEF NewestBefore
    <2>3. Replaying
        BY DEF ReplayPoll
    <2>4. ShowsPoll(k, i)
        BY <2>1, <2>2, <2>3 DEF Converging
    <2>5. k \in DOMAIN table' /\ table'[k] = table[k]
        BY <1>1, <2>2, <2>4, UpsertKey DEF ShowsPoll
    <2> QED BY <2>4, <2>5 DEF ShowsPoll
<1> QED BY <1>2, <1>3

LEMMA ConvergingStep ==
    ASSUME Inv, Converging, [Next]_vars
    PROVE  Converging'
<1>1. ASSUME NEW poll \in Polls, Poll(poll) \/ PollNotStored(poll)
      PROVE  Converging'
    <2>1. log' = Append(log, poll) /\ replay' = replay /\ Len(log) \in Nat
          /\ log \in Seq(Polls)
        BY <1>1 DEF Poll, PollNotStored, Inv, TypeOK
    <2>2. Len(log') = Len(log) + 1
        BY <2>1
    <2>3. replay.last \in 0..Len(log)
        BY DEF Inv, TypeOK
    <2> QED BY <2>1, <2>2, <2>3 DEF Converging
<1>2. ASSUME NEW from \in DOMAIN log, NEW to \in DOMAIN log, StartReplay(from, to)
      PROVE  Converging'
    <2>1. replay'.first = from /\ replay'.next = from /\ from \in Nat
        BY <1>2 DEF StartReplay, Inv, TypeOK
    <2>2. replay'.first..(replay'.next - 1) = {}
        BY <2>1
    <2> QED BY <2>2 DEF Converging
<1>3. CASE ReplayPoll
    <2> SUFFICES ASSUME Replaying', (replay.last = Len(log))', NEW k \in Keys,
                        NEW i \in replay'.first..(replay'.next - 1),
                        NewestBefore(k, i, replay.next)'
                 PROVE  ShowsPoll(k, i)'
        BY DEF Converging
    <2>1. /\ log' = log
          /\ replay' = [replay EXCEPT !.next = @ + 1]
          /\ replay.first \in Nat /\ replay.next \in Nat
        BY <1>3, StoredPollIsArchived DEF ReplayPoll, Replaying, NoReplay, Inv
    <2>2. /\ replay'.first = replay.first /\ replay'.last = replay.last
          /\ replay'.next = replay.next + 1 /\ replay'.next - 1 = replay.next
        BY <2>1 DEF Inv, TypeOK
    <2>3. /\ Emits(log[i].updates[k])
          /\ \A j \in (i + 1)..replay.next : ~Emits(log[j].updates[k])
        BY <2>1, <2>2 DEF NewestBefore
    <2> QED BY <1>3, <2>1, <2>2, <2>3, ReplayedPollShows DEF ShowsPoll
<1>4. CASE \/ \E v \in Versions \cup {NULL} : Rebind(v)
           \/ UNCHANGED vars
    BY <1>4 DEF Rebind, vars, Converging, Replaying, NewestBefore, ShowsPoll
<1> QED BY <1>1, <1>2, <1>3, <1>4 DEF Next

(* Whatever earlier replays, lost polls and bindings did to a row, a       *)
(* replay that ends with the newest archived poll leaves it showing the    *)
(* newest prediction the archive has for it.                               *)
THEOREM ReplayRepairsRows == Spec => ReplayConverges
<1>1. Init => Converging
    BY DEF Init, Converging, Replaying, NoReplay
<1>2. Inv /\ Converging /\ [Next]_vars => Converging'
    BY ConvergingStep
<1> DEFINE Repairs ==
        Replaying /\ ~Replaying' /\ replay.last = Len(log) =>
            \A k \in Keys : \A i \in LastReported(k, replay.first) :
                table'[k].observed = log[i].updates[k].arrival
<1>3. Inv /\ Converging /\ [Next]_vars => [Repairs]_vars
    <2> SUFFICES ASSUME Inv, Converging, Next, Replaying, ~Replaying',
                        replay.last = Len(log), NEW k \in Keys,
                        NEW i \in LastReported(k, replay.first)
                 PROVE  table'[k].observed = log[i].updates[k].arrival
        OBVIOUS
    <2>1. replay' # replay
        BY DEF Replaying
    <2>2. ReplayPoll
        BY <2>1 DEF Next, Poll, PollNotStored, Rebind, StartReplay
    <2>3. /\ replay.first \in Nat /\ replay.next \in Nat /\ replay.last \in Nat
          /\ replay.first <= replay.next /\ replay.next <= replay.last
        BY <2>2, StoredPollIsArchived DEF Inv
    <2>4. replay.next = replay.last
        BY <2>2, <2>3 DEF ReplayPoll, Replaying, Inv, TypeOK
    <2>5. /\ i \in replay.first..replay.next
          /\ Emits(log[i].updates[k])
          /\ \A j \in (i + 1)..replay.next : ~Emits(log[j].updates[k])
        BY <2>4 DEF LastReported
    <2> QED BY <2>2, <2>5, ReplayedPollShows
<1> QED
    BY <1>1, <1>2, <1>3, ObservationsInvariant, PTL DEF Spec, ReplayConverges
=============================================================================
