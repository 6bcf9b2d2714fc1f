-------------------------- MODULE TransformProofs --------------------------
(***************************************************************************)
(* For every zone and every change of its clocks: the service day starts   *)
(* twelve hours before noon, and resolveServiceDate finds the run.  For    *)
(* every timetable and every feed whose buses are roughly on time: what    *)
(* transformFeed stores for a scheduled stop belongs to the run it was     *)
(* reported of.                                                            *)
(***************************************************************************)
EXTENDS Transform, TLAPS

(* The date from which noon is read with the new offset.                   *)
ChangeDate == (Transition + Before) \div Day

LEMMA ChangeDateFacts ==
    /\ ChangeDate \in Int
    /\ ChangeDate * Day <= Transition + Before
    /\ Transition + Before < ChangeDate * Day + 6 * Hour
BY ZoneAssumption DEF ChangeDate, Day, Hour

(* Both guesses of serviceDayStartMs at the instant of noon lie on the     *)
(* same side of a change of the clocks.                                    *)
LEMMA GuessesAgree ==
    ASSUME NEW day \in Int
    PROVE  /\ day < ChangeDate =>
                /\ Noon(day) - Before < Transition
                /\ Noon(day) - After < Transition
           /\ day >= ChangeDate =>
                /\ Noon(day) - Before >= Transition
                /\ Noon(day) - After >= Transition
<1>1. ChangeDate \in Int
    BY ChangeDateFacts
<1>2. ASSUME day < ChangeDate
      PROVE  /\ Noon(day) - Before < Transition
             /\ Noon(day) - After < Transition
    <2>1. day * Day + Day <= ChangeDate * Day
        BY <1>1, <1>2 DEF Day, Hour
    <2>2. QED
        BY <1>1, <2>1, ChangeDateFacts, ZoneAssumption DEF Noon, Day, Hour, MaxShift
<1>3. ASSUME day >= ChangeDate
      PROVE  /\ Noon(day) - Before >= Transition
             /\ Noon(day) - After >= Transition
    <2>1. day * Day >= ChangeDate * Day
        BY <1>1, <1>3 DEF Day, Hour
    <2>2. QED
        BY <1>1, <2>1, ChangeDateFacts, ZoneAssumption DEF Noon, Day, Hour, MaxShift
<1>4. QED
    BY <1>2, <1>3

(* The offset noon of a date is read with.                                 *)
NoonOffset(day) == IF day < ChangeDate THEN Before ELSE After

LEMMA NoonIsFound ==
    ASSUME NEW day \in Int
    PROVE  /\ NoonInstant(day) = Noon(day) - NoonOffset(day)
           /\ Offset(NoonInstant(day)) = NoonOffset(day)
           /\ NoonInstant(day) \in Int
<1> DEFINE n == Noon(day) - NoonOffset(day)
<1>1. /\ Before \in Int /\ After \in Int /\ Transition \in Int
      /\ ChangeDate \in Int /\ Noon(day) \in Int
    BY ZoneAssumption, ChangeDateFacts DEF Noon, Day, Hour
<1>2. \A t \in {Noon(day) - Before, Noon(day) - After} :
        Offset(t) = NoonOffset(day)
    BY <1>1, GuessesAgree DEF Offset, NoonOffset
<1>3. n \in {Noon(day) - Before, Noon(day) - After}
    BY DEF NoonOffset
<1>4. \A t \in {Noon(day) - Before, Noon(day) - After} :
        WallClock(t) = Noon(day) <=> t = n
    BY <1>1, <1>2 DEF WallClock, NoonOffset
<1>5. NoonInstant(day) = n
    BY <1>3, <1>4 DEF NoonInstant
<1>6. QED
    BY <1>1, <1>2, <1>3, <1>5 DEF NoonOffset

(* serviceDayStartMs is twelve hours before local noon, for every date.    *)
THEOREM ServiceDayIsNoonBased ==
    ASSUME NEW day \in Int
    PROVE  ServiceDayStart(day) = NoonInstant(day) - 12 * Hour
<1>1. /\ Before \in Int /\ After \in Int /\ Transition \in Int
      /\ ChangeDate \in Int /\ Noon(day) \in Int
    BY ZoneAssumption, ChangeDateFacts DEF Noon, Day, Hour
<1>2. \A t \in {Noon(day) - Before, Noon(day) - After} :
        Offset(t) = NoonOffset(day)
    BY <1>1, GuessesAgree DEF Offset, NoonOffset
<1>3. ServiceDayStart(day) = Noon(day) - NoonOffset(day) - 12 * Hour
    BY <1>2 DEF ServiceDayStart, Offset
<1>4. QED
    BY <1>3, NoonIsFound

(* Two service days start about as many days apart as their dates are.     *)
LEMMA DaysApart ==
    ASSUME NEW d \in Int, NEW e \in Int, d < e
    PROVE  NoonInstant(e) - NoonInstant(d) >= Day - MaxShift
<1>1. Noon(e) - Noon(d) >= Day
    BY DEF Noon, Day, Hour
<1>2. NoonOffset(e) - NoonOffset(d) <= MaxShift
    BY ZoneAssumption, ChangeDateFacts DEF NoonOffset, MaxShift, Hour
<1>3. /\ Noon(d) \in Int /\ Noon(e) \in Int /\ NoonOffset(d) \in Int
      /\ NoonOffset(e) \in Int /\ MaxShift \in Int /\ Day \in Int
    BY ZoneAssumption DEF Noon, NoonOffset, MaxShift, Day, Hour
<1>4. QED
    BY <1>1, <1>2, <1>3, NoonIsFound

(* The run's date is the clock's, or the one before it or after it.        *)
LEMMA RunIsCandidate ==
    ASSUME NEW observed \in Int, NEW day \in Int, NEW time \in Nat,
           NearTimetable(observed, day, time)
    PROVE  day \in {LocalDate(observed) - 1, LocalDate(observed), LocalDate(observed) + 1}
<1> DEFINE noon == NoonInstant(day)
<1>1. noon \in Int /\ noon = Noon(day) - NoonOffset(day)
    BY NoonIsFound
<1>2. /\ observed > noon - 12 * Hour - 11 * Hour
      /\ observed < noon - 12 * Hour + 2 * Day - MaxShift
    BY <1>1 DEF NearTimetable, TimetableInstant, Distance, Day, MaxShift, Hour
<1>3. /\ NoonOffset(day) - Offset(observed) \in (-MaxShift)..MaxShift
      /\ Offset(observed) \in Int /\ NoonOffset(day) \in Int
    BY ZoneAssumption, ChangeDateFacts DEF NoonOffset, Offset, MaxShift, Hour
<1> HIDE DEF noon
<1>4. /\ WallClock(observed) >= (day - 1) * Day
      /\ WallClock(observed) < (day + 2) * Day
      /\ WallClock(observed) \in Int
    BY <1>1, <1>2, <1>3 DEF WallClock, Noon, Day, MaxShift, Hour
<1>5. LocalDate(observed) \in (day - 1)..(day + 1)
    BY <1>4 DEF LocalDate, Day, Hour
<1>6. QED
    BY <1>5

(* The run a bus is on is the one found: with a bus less than eleven hours *)
(* off its timetable and before 46:00 of its service day, for every        *)
(* calendar, in every zone and across every change of the clocks.          *)
THEOREM ResolveFindsRun ==
    ASSUME NEW observed \in Int, NEW day \in Int, NEW time \in Nat, NEW runsOn,
           runsOn \subseteq Int, day \in runsOn, NearTimetable(observed, day, time)
    PROVE  ResolveServiceDate(observed, time, runsOn) = {day}
<1> DEFINE centre == LocalDate(observed)
           candidates == {centre - 1, centre, centre + 1} \cap runsOn
           Away(d) == Distance(ScheduledInstant(d, time), observed)
<1>1. \A d \in Int : ScheduledInstant(d, time) = TimetableInstant(d, time)
                       /\ NoonInstant(d) \in Int
    BY ServiceDayIsNoonBased, NoonIsFound DEF ScheduledInstant, TimetableInstant
<1>2. day \in candidates
    BY RunIsCandidate
<1>3. 2 * Away(day) < Day - MaxShift
    BY <1>1 DEF NearTimetable, Distance, TimetableInstant, Hour
<1>4. ASSUME NEW d \in candidates, d # day
      PROVE  Away(day) < Away(d)
    <2>1. d \in Int
        OBVIOUS
    <2>2. \/ NoonInstant(d) - NoonInstant(day) >= Day - MaxShift
          \/ NoonInstant(day) - NoonInstant(d) >= Day - MaxShift
        BY <1>4, <2>1, DaysApart
    <2>3. QED
        BY <1>1, <1>3, <2>1, <2>2 DEF TimetableInstant, Distance, Day, MaxShift, Hour
<1>5. Away(day) \in Int
    BY <1>1 DEF Distance, TimetableInstant, Hour
<1>6. \A d \in candidates : Away(d) \in Int
    BY <1>1 DEF Distance, TimetableInstant, Hour
<1>7. ResolveServiceDate(observed, time, runsOn) =
        {d \in candidates : \A c \in candidates :
            Away(d) < Away(c) \/ (Away(d) = Away(c) /\ d <= c)}
    BY DEF ResolveServiceDate
<1> HIDE DEF Away, candidates
<1>8. \A c \in candidates : Away(day) < Away(c) \/ (Away(day) = Away(c) /\ day <= c)
    BY <1>4, <1>5
<1>9. ASSUME NEW d \in candidates, d # day
      PROVE  ~(Away(d) < Away(day) \/ Away(d) = Away(day))
    BY <1>4, <1>5, <1>6, <1>9
<1>10. QED
    BY <1>2, <1>7, <1>8, <1>9

-----------------------------------------------------------------------------
(* A decoded trip still keeps to the timetable.                            *)
TrueToTimetable(trip) ==
    /\ trip.run \in Int
    /\ \A n \in DOMAIN trip.stops :
        LET stop == trip.stops[n] IN
        stop.arrival # NULL /\ OnTimetable(trip.trip, stop) =>
            /\ stop.arrival \in Int
            /\ trip.run \in Static[trip.trip].dates
            /\ NearTimetable(stop.arrival, trip.run, Static[trip.trip].times[stop.sequence])

FeedInv ==
    /\ decoded \in BOOLEAN
    /\ ~decoded => feed \in Feeds /\ i = 0 /\ DOMAIN byKey = {}
    /\ decoded => \A n \in DOMAIN feed : TrueToTimetable(feed[n])

(* A trip that is anchored is anchored to its run.                         *)
AnchorInv == i # 0 => i \in DOMAIN feed /\ (anchored => date = Trip.run)

(* A scheduled entry was computed from the timetable of its own run.       *)
EntryInv ==
    \A k \in DOMAIN byKey :
        LET row == byKey[k].row IN
        /\ byKey[k].from[1] \in DOMAIN feed
        /\ row.scheduled # NULL =>
            /\ k.date = feed[byKey[k].from[1]].run
            /\ k.trip \in DOMAIN Static
            /\ k.sequence \in DOMAIN Static[k.trip].times
            /\ row.scheduled = ScheduledInstant(k.date, Static[k.trip].times[k.sequence])
            /\ row.hour = LocalHour(row.scheduled)
            /\ row.dayType = DayTypeOf(k.date)

DateInv == FeedInv /\ AnchorInv /\ EntryInv
-----------------------------------------------------------------------------
LEMMA TimesAreNat ==
    ASSUME NEW t \in DOMAIN Static, NEW n \in DOMAIN Static[t].times
    PROVE  Static[t].times[n] \in Nat
BY StaticAssumption

(* The decoder drops entities and stops, and changes none.                 *)
LEMMA DecodedIsTrue ==
    ASSUME NEW published \in Feeds, NEW n \in DOMAIN published, IsTripUpdate(published[n])
    PROVE  TrueToTimetable(TripUpdate(published[n]))
<1> DEFINE entity == published[n]
           trip == TripUpdate(entity)
<1>1. entity \in Entities
    BY FeedsAssumption
<1>2. entity.run \in Int /\ entity.stops \in Seq(StopReports)
    BY <1>1 DEF IsTripUpdate, Entities
<1>3. /\ trip.run = entity.run
      /\ trip.trip = Identity(entity)
      /\ DOMAIN trip.stops \subseteq DOMAIN entity.stops
      /\ \A m \in DOMAIN trip.stops : trip.stops[m] = entity.stops[m]
    BY DEF TripUpdate, Named
<1> HIDE DEF entity, trip
<1>4. \A m \in DOMAIN entity.stops : entity.stops[m].arrival \in Int \cup {NULL}
    <2>1. \A m \in DOMAIN entity.stops : entity.stops[m] \in StopReports
        BY <1>2
    <2>2. \A s \in StopReports : s.arrival \in Int \cup {NULL}
        BY DEF StopReports
    <2>3. QED
        BY <2>1, <2>2
<1>5. \A m \in DOMAIN entity.stops :
        LET stop == entity.stops[m] IN
        OnTimetable(Identity(entity), stop) /\ stop.arrival # NULL =>
            /\ entity.run \in Static[Identity(entity)].dates
            /\ NearTimetable(stop.arrival, entity.run,
                             Static[Identity(entity)].times[stop.sequence])
    BY OnTimeAssumption DEF entity
<1>6. TrueToTimetable(trip)
    BY <1>2, <1>3, <1>4, <1>5 DEF TrueToTimetable
<1>7. QED
    BY <1>6 DEF trip, entity

(* Whatever date a stop of a trip resolves to is the date of its run.      *)
LEMMA ResolvedIsRun ==
    ASSUME NEW trip, TrueToTimetable(trip), NEW n \in DOMAIN trip.stops,
           NEW d \in Resolved(trip, trip.stops[n])
    PROVE  d = trip.run
<1> DEFINE stop == trip.stops[n]
<1>1. stop.arrival # NULL /\ OnTimetable(trip.trip, stop)
    BY DEF Resolved
<1>2. /\ stop.arrival \in Int /\ trip.run \in Int
      /\ trip.run \in Static[trip.trip].dates
      /\ NearTimetable(stop.arrival, trip.run, Static[trip.trip].times[stop.sequence])
    BY <1>1 DEF TrueToTimetable
<1>3. /\ Static[trip.trip].times[stop.sequence] \in Nat
      /\ Static[trip.trip].dates \subseteq Int
    BY <1>1, StaticAssumption DEF OnTimetable
<1> DEFINE time == Static[trip.trip].times[stop.sequence]
           dates == Static[trip.trip].dates
<1>4. d \in ResolveServiceDate(stop.arrival, time, dates)
    BY <1>1 DEF Resolved
<1> HIDE DEF stop, time, dates
<1>5. ResolveServiceDate(stop.arrival, time, dates) = {trip.run}
    BY <1>2, <1>3, ResolveFindsRun DEF time, dates
<1>6. QED
    BY <1>4, <1>5

THEOREM DateInvariant == Spec => []DateInv
<1>1. Init => DateInv
    BY DEF Init, DateInv, FeedInv, AnchorInv, EntryInv
<1>2. DateInv /\ [Next]_vars => DateInv'
    <2> SUFFICES ASSUME DateInv, [Next]_vars
                 PROVE  DateInv'
        OBVIOUS
    <2>1. CASE Decode
        <3>1. feed \in Feeds /\ i = 0 /\ DOMAIN byKey = {}
            BY <2>1 DEF Decode, DateInv, FeedInv
        <3>2. FeedInv'
            BY <2>1, <3>1, DecodedIsTrue DEF Decode, FeedInv
        <3>3. (AnchorInv /\ EntryInv)'
            BY <2>1, <3>1 DEF Decode, AnchorInv, EntryInv
        <3>4. QED
            BY <3>2, <3>3 DEF DateInv
    <2>2. CASE ResolveTrip
        <3>1. i' \in DOMAIN feed
            BY <2>2 DEF ResolveTrip, Ahead, First
        <3>2. TrueToTimetable(feed[i'])
            BY <2>2, <3>1 DEF ResolveTrip, DateInv, FeedInv
        <3>3. anchored' => date' = feed[i'].run
            BY <2>2, <3>2, ResolvedIsRun DEF ResolveTrip
        <3>4. AnchorInv'
            BY <2>2, <3>1, <3>3 DEF ResolveTrip, AnchorInv, Trip
        <3>5. (FeedInv /\ EntryInv)'
            BY <2>2 DEF ResolveTrip, DateInv, FeedInv, EntryInv
        <3>6. QED
            BY <3>4, <3>5 DEF DateInv
    <2>3. CASE EmitStop
        <3>1. PICK n \in First(StopsAhead) :
                LET stop == Trip.stops[n] IN
                IF Emits(stop) /\ Preferred(Key(stop))
                THEN byKey' = [k \in DOMAIN byKey \cup {Key(stop)} |->
                                 IF k = Key(stop) THEN Entry(n) ELSE byKey[k]]
                ELSE UNCHANGED byKey
            BY <2>3 DEF EmitStop
        <3>2. i # 0 /\ n \in DOMAIN Trip.stops
            BY <3>1 DEF StopsAhead, Ahead, First
        <3> DEFINE stop == Trip.stops[n]
        <3>3. /\ i \in DOMAIN feed
              /\ anchored => date = Trip.run
            BY <3>2 DEF DateInv, AnchorInv
        <3>4. decoded
            BY <3>2 DEF DateInv, FeedInv
        <3>5. /\ Key(stop).date = date
              /\ Key(stop).trip = Trip.trip
              /\ Key(stop).sequence = stop.sequence
            BY DEF Key
        <3>6. /\ Entry(n).from[1] = i
              /\ Entry(n).row = Row(stop)
            BY DEF Entry
        <3>7. Row(stop).scheduled # NULL =>
                /\ Scheduled(stop)
                /\ Row(stop).scheduled = ScheduledAt(stop)
                /\ Row(stop).hour = LocalHour(Row(stop).scheduled)
                /\ Row(stop).dayType = DayTypeOf(date)
            BY DEF Row
        <3>8. EntryInv'
            <4> SUFFICES ASSUME NEW k \in DOMAIN byKey'
                         PROVE  LET row == byKey'[k].row IN
                                /\ byKey'[k].from[1] \in DOMAIN feed
                                /\ row.scheduled # NULL =>
                                    /\ k.date = feed[byKey'[k].from[1]].run
                                    /\ k.trip \in DOMAIN Static
                                    /\ k.sequence \in DOMAIN Static[k.trip].times
                                    /\ row.scheduled =
                                        ScheduledInstant(k.date, Static[k.trip].times[k.sequence])
                                    /\ row.hour = LocalHour(row.scheduled)
                                    /\ row.dayType = DayTypeOf(k.date)
                BY <2>3 DEF EmitStop, EntryInv
            <4> HIDE DEF stop
            <4>1. \/ k = Key(stop) /\ byKey'[k] = Entry(n)
                  \/ k \in DOMAIN byKey /\ byKey'[k] = byKey[k]
                BY <3>1 DEF stop
            <4>2. CASE k = Key(stop) /\ byKey'[k] = Entry(n)
                BY <4>2, <3>3, <3>5, <3>6, <3>7 DEF Scheduled, ScheduledAt, OnTimetable, Trip
            <4>3. CASE k \in DOMAIN byKey /\ byKey'[k] = byKey[k]
                BY <4>3 DEF DateInv, EntryInv
            <4>4. QED
                BY <4>1, <4>2, <4>3
        <3>9. (FeedInv /\ AnchorInv)'
            BY <2>3, <3>4 DEF EmitStop, DateInv, FeedInv, AnchorInv, Trip
        <3>10. QED
            BY <3>8, <3>9 DEF DateInv
    <2>4. CASE UNCHANGED vars
        BY <2>4 DEF vars, DateInv, FeedInv, AnchorInv, EntryInv, Trip
    <2>5. QED
        BY <2>1, <2>2, <2>3, <2>4 DEF Next
<1>3. QED
    BY <1>1, <1>2, PTL DEF Spec

(* Every stored delay is measured against the timetable's instant on the   *)
(* date the bus really runs on (transform.ts, scheduledArrivalMs).         *)
THEOREM StoredDelaysAreReal == Spec => []DelaysAreReal
<1>1. DateInv => DelaysAreReal
    <2> SUFFICES ASSUME DateInv, NEW k \in DOMAIN byKey,
                        byKey[k].row.scheduled # NULL
                 PROVE  byKey[k].row.scheduled =
                            TimetableInstant(feed[byKey[k].from[1]].run,
                                             Static[k.trip].times[k.sequence])
        BY DEF DelaysAreReal
    <2>1. /\ k.date = feed[byKey[k].from[1]].run
          /\ k.date \in Int
          /\ byKey[k].row.scheduled = ScheduledInstant(k.date, Static[k.trip].times[k.sequence])
        BY DEF DateInv, FeedInv, EntryInv, TrueToTimetable
    <2>2. QED
        BY <2>1, ServiceDayIsNoonBased DEF ScheduledInstant, TimetableInstant
<1>2. QED
    BY <1>1, DateInvariant, PTL

(* The hour of a scheduled instant is the timetable's, on either side of a *)
(* change of the clocks.                                                   *)
LEMMA HourOfTimetable ==
    ASSUME NEW d \in Int, NEW time \in Nat,
           SameSide(ScheduledInstant(d, time), NoonInstant(d))
    PROVE  LocalHour(ScheduledInstant(d, time)) = (time \div Hour) % 24
<1> DEFINE scheduled == ScheduledInstant(d, time)
<1>1. /\ scheduled = NoonInstant(d) - 12 * Hour + time
      /\ NoonInstant(d) = Noon(d) - NoonOffset(d)
      /\ Offset(NoonInstant(d)) = NoonOffset(d)
      /\ NoonInstant(d) \in Int
    BY ServiceDayIsNoonBased, NoonIsFound DEF ScheduledInstant
<1>2. Offset(scheduled) = NoonOffset(d)
    BY <1>1 DEF SameSide, Offset
<1>3. NoonOffset(d) \in Int
    BY ZoneAssumption DEF NoonOffset
<1>4. WallClock(scheduled) = d * Day + time
    BY <1>1, <1>2, <1>3 DEF WallClock, Noon, Day, Hour
<1>5. \A t \in Nat : ((d * Day + t) % Day) \div Hour = (t \div Hour) % 24
    BY DEF Day, Hour
<1>6. QED
    BY <1>4, <1>5 DEF LocalHour

(* A row counts in the hour and the type of day of the timetable, however  *)
(* late the bus is (transform.ts, scheduledHourLocal and dayType).         *)
THEOREM BucketsAreTimetables == Spec => []BucketsFollowTimetable
<1>1. DateInv => BucketsFollowTimetable
    <2> SUFFICES ASSUME DateInv, NEW k \in DOMAIN byKey,
                        byKey[k].row.scheduled # NULL
                 PROVE  LET row == byKey[k].row IN
                        /\ row.dayType = DayTypeOf(feed[byKey[k].from[1]].run)
                        /\ SameSide(row.scheduled, NoonInstant(k.date)) =>
                              row.hour = (Static[k.trip].times[k.sequence] \div Hour) % 24
        BY DEF BucketsFollowTimetable
    <2>1. /\ k.date = feed[byKey[k].from[1]].run
          /\ k.date \in Int
          /\ k.trip \in DOMAIN Static /\ k.sequence \in DOMAIN Static[k.trip].times
          /\ byKey[k].row.scheduled = ScheduledInstant(k.date, Static[k.trip].times[k.sequence])
          /\ byKey[k].row.hour = LocalHour(byKey[k].row.scheduled)
          /\ byKey[k].row.dayType = DayTypeOf(k.date)
        BY DEF DateInv, FeedInv, EntryInv, TrueToTimetable
    <2>2. QED
        BY <2>1, TimesAreNat, HourOfTimetable
<1>2. QED
    BY <1>1, DateInvariant, PTL
-----------------------------------------------------------------------------
(* Which report is kept: the loops' positions, the date of the trip they   *)
(* are at, and the preference stored with an entry.                        *)
Stamps(trip) == trip.stamp \in (0..Freshest) \cup {NULL}

LoopInv ==
    /\ i \in Int /\ j \in Int
    /\ i = 0 => j = 0
    /\ i # 0 => date = TrueDate(Trip)
    /\ decoded => \A n \in DOMAIN feed :
        /\ n \in Nat \ {0} /\ Stamps(feed[n])
        /\ DOMAIN feed[n].stops \subseteq Nat \ {0}

PreferenceInv ==
    \A k \in DOMAIN byKey :
        /\ byKey[k].from[1] \in DOMAIN feed
        /\ byKey[k].preference = Preference(feed[byKey[k].from[1]])

BestInv == LoopInv /\ PreferenceInv /\ BestReportsKept

(* The code's number orders reports as the reference does.                 *)
LEMMA PreferenceOrders ==
    ASSUME NEW r, NEW q, Stamps(feed[r[1]]), Stamps(feed[q[1]])
    PROVE  LET p == Preference(feed[r[1]])
               o == Preference(feed[q[1]])
           IN /\ p \in Int /\ o \in Int
              /\ Outranks(r, q) <=> p > o \/ (p = o /\ Later(r, q))
<1>1. Freshest \in Nat /\ NULL \notin Int
    BY FeedsAssumption
<1>2. QED
    BY <1>1 DEF Stamps, Preference, Outranks

(* Where a scheduled stop is reported, some date is resolved.              *)
LEMMA AnchorableResolves ==
    ASSUME NEW trip, TrueToTimetable(trip)
    PROVE  /\ \A n \in DOMAIN trip.stops :
                trip.stops[n].arrival # NULL /\ OnTimetable(trip.trip, trip.stops[n]) =>
                    Resolved(trip, trip.stops[n]) = {trip.run}
           /\ Anchorable(trip) <=> \E n \in DOMAIN trip.stops :
                                    Resolved(trip, trip.stops[n]) # {}
<1>1. ASSUME NEW n \in DOMAIN trip.stops,
             trip.stops[n].arrival # NULL, OnTimetable(trip.trip, trip.stops[n])
      PROVE  Resolved(trip, trip.stops[n]) = {trip.run}
    <2> DEFINE stop == trip.stops[n]
    <2>1. /\ stop.arrival \in Int /\ trip.run \in Int
          /\ trip.run \in Static[trip.trip].dates
          /\ NearTimetable(stop.arrival, trip.run, Static[trip.trip].times[stop.sequence])
        BY <1>1 DEF TrueToTimetable
    <2>2. /\ Static[trip.trip].times[stop.sequence] \in Nat
          /\ Static[trip.trip].dates \subseteq Int
        BY <1>1, StaticAssumption DEF OnTimetable
    <2> DEFINE time == Static[trip.trip].times[stop.sequence]
               dates == Static[trip.trip].dates
    <2>3. Resolved(trip, stop) = ResolveServiceDate(stop.arrival, time, dates)
        BY <1>1 DEF Resolved
    <2>4. ResolveServiceDate(stop.arrival, time, dates) = {trip.run}
        <3> HIDE DEF stop, time, dates
        <3> QED BY <2>1, <2>2, ResolveFindsRun DEF time, dates
    <2>5. QED
        BY <2>3, <2>4
<1>2. \A n \in DOMAIN trip.stops :
        Resolved(trip, trip.stops[n]) # {} =>
            trip.stops[n].arrival # NULL /\ OnTimetable(trip.trip, trip.stops[n])
    BY DEF Resolved
<1>3. QED
    BY <1>1, <1>2 DEF Anchorable

LEMMA DecodedPositions ==
    ASSUME NEW published \in Feeds, NEW n \in DOMAIN published, IsTripUpdate(published[n])
    PROVE  /\ n \in Nat \ {0}
           /\ Stamps(TripUpdate(published[n]))
           /\ DOMAIN TripUpdate(published[n]).stops \subseteq Nat \ {0}
<1> DEFINE entity == published[n]
<1>1. published \in Seq(Entities)
    BY FeedsAssumption
<1>2. n \in Nat \ {0} /\ entity \in Entities
    BY <1>1
<1>3. entity.stamp \in (0..Freshest) \cup {NULL} /\ entity.stops \in Seq(StopReports)
    BY <1>2 DEF IsTripUpdate, Entities
<1>4. DOMAIN entity.stops \subseteq Nat \ {0}
    BY <1>3
<1>5. QED
    BY <1>2, <1>3, <1>4 DEF TripUpdate, Stamps, Named

THEOREM BestInvariant == Spec => []BestInv
<1>1. Init => BestInv
    BY DEF Init, BestInv, LoopInv, PreferenceInv, BestReportsKept
<1>2. DateInv /\ BestInv /\ [Next]_vars => BestInv'
    <2> SUFFICES ASSUME DateInv, BestInv, [Next]_vars
                 PROVE  BestInv'
        OBVIOUS
    <2>1. CASE Decode
        <3>1. feed \in Feeds /\ i = 0 /\ j = 0 /\ DOMAIN byKey = {}
            BY <2>1 DEF Decode, DateInv, FeedInv, BestInv, LoopInv
        <3>2. \A n \in DOMAIN feed' :
                /\ n \in Nat \ {0} /\ Stamps(feed'[n])
                /\ DOMAIN feed'[n].stops \subseteq Nat \ {0}
            BY <2>1, <3>1, DecodedPositions DEF Decode
        <3>3. (LoopInv /\ PreferenceInv)'
            BY <2>1, <3>1, <3>2 DEF Decode, LoopInv, PreferenceInv
        <3>4. Done' = {}
            BY <2>1, <3>1, <3>2 DEF Decode, Done, Reports
        <3>5. BestReportsKept'
            BY <2>1, <3>1, <3>4 DEF Decode, BestReportsKept
        <3>6. QED
            BY <3>3, <3>5 DEF BestInv
    <2>2. CASE ResolveTrip
        <3>1. /\ i' \in First(Ahead(feed, i))
              /\ j' = 0 /\ decoded /\ decoded' /\ StopsAhead = {}
              /\ feed' = feed /\ byKey' = byKey /\ header' = header
            BY <2>2 DEF ResolveTrip, DateInv, FeedInv
        <3>2. /\ i' \in DOMAIN feed /\ i' > i
              /\ \A n \in DOMAIN feed : n > i => i' <= n
            BY <3>1 DEF Ahead, First
        <3>3. /\ i \in Int /\ j \in Int /\ i' \in Nat \ {0}
              /\ \A n \in DOMAIN feed : n \in Nat \ {0} /\ DOMAIN feed[n].stops \subseteq Nat \ {0}
            BY <3>1, <3>2 DEF BestInv, LoopInv
        <3>4. Done' = Done
            <4>1. \A r \in Reports : (r[1] < i' \/ (r[1] = i' /\ r[2] <= 0))
                                        <=> (r[1] < i \/ (r[1] = i /\ r[2] <= j))
                <5> SUFFICES ASSUME NEW n \in DOMAIN feed, NEW m \in DOMAIN feed[n].stops
                             PROVE  (n < i' \/ (n = i' /\ m <= 0)) <=> (n < i \/ (n = i /\ m <= j))
                    BY DEF Reports
                <5>1. n \in Nat \ {0} /\ m \in Nat \ {0}
                    BY <3>3
                <5>2. n = i => m <= j
                    BY <3>1, <3>3, <5>1 DEF StopsAhead, Ahead, Trip
                <5>3. QED
                    BY <3>2, <3>3, <5>1, <5>2
            <4>2. QED
                BY <3>1, <4>1 DEF Done, Reports
        <3>5. date' = TrueDate(feed[i'])
            <4>1. TrueToTimetable(feed[i'])
                BY <3>1, <3>2 DEF DateInv, FeedInv
            <4>2. \/ /\ \E n \in DOMAIN feed[i'].stops : date' \in Resolved(feed[i'], feed[i'].stops[n])
                     /\ Anchorable(feed[i'])
                  \/ ~Anchorable(feed[i']) /\ date' = LocalDate(header)
                BY <2>2, <3>1, <4>1, AnchorableResolves DEF ResolveTrip
            <4>3. QED
                BY <3>1, <4>1, <4>2, ResolvedIsRun DEF TrueDate, Anchorable
        <3>6. LoopInv'
            BY <3>1, <3>3, <3>5 DEF BestInv, LoopInv, Trip, TrueDate, Anchorable
        <3>7. /\ \A r : Belongs(r)' = Belongs(r)
              /\ \A r, q : Outranks(r, q)' = Outranks(r, q)
            BY <3>1 DEF Belongs, TrueDate, Anchorable, Outranks, Later
        <3>8. PreferenceInv' /\ BestReportsKept'
            BY <3>1, <3>4, <3>7 DEF BestInv, PreferenceInv, BestReportsKept
        <3>9. QED
            BY <3>6, <3>8 DEF BestInv
    <2>3. CASE EmitStop
        <3>1. PICK n \in First(StopsAhead) :
                /\ j' = n
                /\ LET stop == Trip.stops[n] IN
                   IF Emits(stop) /\ Preferred(Key(stop))
                   THEN byKey' = [k \in DOMAIN byKey \cup {Key(stop)} |->
                                    IF k = Key(stop) THEN Entry(n) ELSE byKey[k]]
                   ELSE UNCHANGED byKey
            BY <2>3 DEF EmitStop
        <3>2. /\ i # 0 /\ n \in DOMAIN Trip.stops /\ n > j
              /\ \A m \in DOMAIN Trip.stops : m > j => n <= m
            BY <3>1 DEF StopsAhead, Ahead, First
        <3>3. /\ header' = header /\ feed' = feed /\ decoded' = decoded
              /\ i' = i /\ date' = date
            BY <2>3 DEF EmitStop
        <3>4. /\ decoded /\ i \in DOMAIN feed /\ date = TrueDate(Trip)
              /\ i \in Int /\ j \in Int
              /\ DOMAIN Trip.stops \subseteq Nat \ {0}
              /\ \A m \in DOMAIN feed : m \in Nat \ {0} /\ Stamps(feed[m])
                                          /\ DOMAIN feed[m].stops \subseteq Nat \ {0}
            BY <3>2 DEF DateInv, FeedInv, AnchorInv, BestInv, LoopInv, Trip
        <3> DEFINE stop == Trip.stops[n]
                   new == <<i, n>>
                   key == Key(stop)
        <3>5. Done' = Done \cup (IF Emits(stop) THEN {new} ELSE {})
            <4>1. new \in Reports
                BY <3>2, <3>4 DEF Reports, Trip
            <4>2. \A r \in Reports : (r[1] < i \/ (r[1] = i /\ r[2] <= n))
                        <=> (r[1] < i \/ (r[1] = i /\ r[2] <= j) \/ r = new)
                <5> SUFFICES ASSUME NEW a \in DOMAIN feed, NEW m \in DOMAIN feed[a].stops
                             PROVE  (a < i \/ (a = i /\ m <= n))
                                    <=> (a < i \/ (a = i /\ m <= j) \/ <<a, m>> = new)
                    BY DEF Reports
                <5>1. a \in Int /\ m \in Int /\ n \in Int
                    BY <3>2, <3>4
                <5>2. QED
                    BY <3>2, <3>4, <5>1 DEF Trip
            <4>3. \A r : r \in Done' <=> /\ r \in Reports
                                         /\ r[1] < i \/ (r[1] = i /\ r[2] <= n)
                                         /\ Emits(feed[r[1]].stops[r[2]])
                BY <3>1, <3>3 DEF Done, Reports, Emits
            <4>4. feed[new[1]].stops[new[2]] = stop
                BY DEF Trip
            <4>5. QED
                BY <4>1, <4>2, <4>3, <4>4 DEF Done
        <3>6. Belongs(new) = key
            BY <3>4 DEF Belongs, Key, Trip
        <3>7. \A r \in Done' : /\ r[1] \in DOMAIN feed /\ Stamps(feed[r[1]])
                               /\ Later(new, r)
            <4>1. new \in Reports
                BY <3>2, <3>4 DEF Reports, Trip
            <4>2. \A r \in Reports : r[1] \in DOMAIN feed /\ r[2] \in DOMAIN feed[r[1]].stops
                BY DEF Reports
            <4>3. QED
                BY <3>1, <3>2, <3>3, <3>4, <4>1, <4>2 DEF Done, Reports, Later, Trip
        <3>8. /\ \A r : Belongs(r)' = Belongs(r)
              /\ \A r, q : Outranks(r, q)' = Outranks(r, q)
            BY <3>3 DEF Belongs, TrueDate, Anchorable, Outranks, Later
        <3>9. /\ DOMAIN byKey = {Belongs(r) : r \in Done}
              /\ \A k \in DOMAIN byKey :
                    /\ byKey[k].from \in Done
                    /\ Belongs(byKey[k].from) = k
                    /\ byKey[k].from[1] \in DOMAIN feed
                    /\ byKey[k].preference = Preference(feed[byKey[k].from[1]])
                    /\ \A r \in Done : Belongs(r) = k => Outranks(byKey[k].from, r)
            BY <3>4 DEF BestInv, PreferenceInv, BestReportsKept
        <3>10. Entry(n).from = new /\ Entry(n).preference = Preference(feed[i])
            BY DEF Entry, Trip
        <3> DEFINE Kept(b, done) ==
                /\ DOMAIN b = {Belongs(r) : r \in done}
                /\ \A k \in DOMAIN b :
                    /\ b[k].from \in done
                    /\ Belongs(b[k].from) = k
                    /\ b[k].from[1] \in DOMAIN feed
                    /\ b[k].preference = Preference(feed[b[k].from[1]])
                    /\ \A r \in done : Belongs(r) = k => Outranks(b[k].from, r)
        <3>11. Kept(byKey', Done')
            <4>1. CASE ~Emits(stop)
                BY <4>1, <3>1, <3>5, <3>9
            <4>2. CASE Emits(stop) /\ Preferred(key)
                <5>1. /\ DOMAIN byKey' = DOMAIN byKey \cup {key}
                      /\ byKey'[key] = Entry(n)
                      /\ \A k \in DOMAIN byKey : k # key => byKey'[k] = byKey[k]
                    BY <4>2, <3>1
                <5>2. Done' = Done \cup {new}
                    BY <4>2, <3>5
                <5>3. DOMAIN byKey' = {Belongs(r) : r \in Done'}
                    BY <5>1, <5>2, <3>6, <3>9
                <5>4. ASSUME NEW r \in Done', Belongs(r) = key
                      PROVE  Outranks(new, r)
                    <6>1. CASE r = new
                        BY <6>1, <3>4, <3>7, <5>2, PreferenceOrders
                    <6>2. CASE r \in Done
                        <7>1. key \in DOMAIN byKey
                            BY <6>2, <5>4, <3>9
                        <7>2. Preference(feed[i]) >= Preference(feed[byKey[key].from[1]])
                            BY <7>1, <4>2, <3>9 DEF Preferred, Trip
                        <7>3. Outranks(byKey[key].from, r)
                            BY <7>1, <6>2, <5>4, <3>9
                        <7>4. byKey[key].from \in Done'
                            BY <7>1, <3>9, <5>2
                        <7>5. /\ Stamps(feed[byKey[key].from[1]]) /\ Stamps(feed[r[1]])
                              /\ Stamps(feed[new[1]]) /\ Later(new, r)
                            BY <7>4, <3>4, <3>7
                        <7> DEFINE P(q) == Preference(feed[q[1]])
                                   old == byKey[key].from
                        <7>6. /\ P(old) \in Int /\ P(r) \in Int
                              /\ P(old) > P(r) \/ P(old) = P(r)
                            BY <7>3, <7>5, PreferenceOrders
                        <7>7. /\ P(new) \in Int
                              /\ P(new) > P(r) \/ P(new) = P(r) => Outranks(new, r)
                            BY <7>5, PreferenceOrders
                        <7>8. P(new) >= P(old)
                            BY <7>2
                        <7> HIDE DEF P
                        <7>9. QED
                            BY <7>6, <7>7, <7>8
                    <6>3. QED
                        BY <6>1, <6>2, <5>2
                <5>5. QED
                    BY <5>1, <5>2, <5>3, <5>4, <3>4, <3>6, <3>9, <3>10
            <4>3. CASE Emits(stop) /\ ~Preferred(key)
                <5>1. /\ byKey' = byKey /\ key \in DOMAIN byKey
                      /\ ~(Preference(feed[i]) >= Preference(feed[byKey[key].from[1]]))
                    BY <4>3, <3>1, <3>9 DEF Preferred, Trip
                <5>2. Done' = Done \cup {new}
                    BY <4>3, <3>5
                <5>3. DOMAIN byKey' = {Belongs(r) : r \in Done'}
                    BY <5>1, <5>2, <3>6, <3>9
                <5>4. Outranks(byKey[key].from, new)
                    <6>1. byKey[key].from \in Done'
                        BY <5>1, <5>2, <3>9
                    <6>2. Stamps(feed[byKey[key].from[1]]) /\ Stamps(feed[new[1]])
                        BY <6>1, <3>4, <3>7
                    <6>3. QED
                        BY <5>1, <6>2, PreferenceOrders
                <5>5. QED
                    BY <5>1, <5>2, <5>3, <5>4, <3>6, <3>9
            <4>4. QED
                BY <4>1, <4>2, <4>3
        <3>12. PreferenceInv' /\ BestReportsKept'
            BY <3>3, <3>4, <3>8, <3>11 DEF PreferenceInv, BestReportsKept
        <3>13. LoopInv'
            BY <3>1, <3>2, <3>3, <3>4 DEF BestInv, LoopInv, Trip, TrueDate, Anchorable
        <3>14. QED
            BY <3>12, <3>13 DEF BestInv
    <2>4. CASE UNCHANGED vars
        <3>1. /\ Done' = Done /\ Reports' = Reports
              /\ \A r : Belongs(r)' = Belongs(r)
              /\ \A r, q : Outranks(r, q)' = Outranks(r, q)
            BY <2>4 DEF vars, Belongs, TrueDate, Anchorable, Outranks, Later, Done, Reports
        <3>2. LoopInv'
            BY <2>4 DEF vars, BestInv, LoopInv, Trip, TrueDate, Anchorable
        <3>3. PreferenceInv' /\ BestReportsKept'
            BY <2>4, <3>1 DEF vars, BestInv, PreferenceInv, BestReportsKept
        <3>4. QED
            BY <3>2, <3>3 DEF BestInv
    <2>5. QED
        BY <2>1, <2>2, <2>3, <2>4 DEF Next
<1>3. QED
    BY <1>1, <1>2, DateInvariant, PTL DEF Spec

(* Every reported arrival is stored under the date of its run, and of the  *)
(* reports of one stop the preferred one is kept (transform.ts, byKey and  *)
(* preferenceOf).                                                          *)
THEOREM BestReportIsKept == Spec => []BestReportsKept
BY BestInvariant, PTL DEF BestInv
-----------------------------------------------------------------------------
(* Types: of a decoded trip, and of the variables.                         *)
TypedTrip(trip) ==
    /\ trip.trip # NULL
    /\ \A n \in DOMAIN trip.stops :
        trip.stops[n].sequence # NULL /\ trip.stops[n].relationship \in Relationships

TypeInv == TypeOK /\ (decoded => \A n \in DOMAIN feed : TypedTrip(feed[n]))

LEMMA DecodedIsTyped ==
    ASSUME NEW published \in Feeds, NEW n \in DOMAIN published, IsTripUpdate(published[n])
    PROVE  TypedTrip(TripUpdate(published[n]))
<1> DEFINE entity == published[n]
<1>1. entity \in Entities
    BY FeedsAssumption
<1>2. entity.stops \in Seq(StopReports)
    BY <1>1 DEF IsTripUpdate, Entities
<1>3. \A m \in DOMAIN entity.stops : entity.stops[m] \in StopReports
    BY <1>2
<1>4. \A s \in StopReports : s.relationship \in Relationships
    BY DEF StopReports
<1>5. QED
    BY <1>3, <1>4 DEF TypedTrip, TripUpdate, Named, IsTripUpdate

LEMMA ClockDateIsInt ==
    ASSUME NEW instant \in Int
    PROVE  LocalDate(instant) \in Int
BY ZoneAssumption DEF LocalDate, WallClock, Offset, Day, Hour

(* The types hold for every feed and timetable.                            *)
THEOREM TypeCorrect == Spec => []TypeOK
<1>1. Init => TypeInv
    BY FeedsAssumption, ClockDateIsInt DEF Init, TypeInv, TypeOK
<1>2. DateInv /\ TypeInv /\ [Next]_vars => TypeInv'
    <2> SUFFICES ASSUME DateInv, TypeInv, [Next]_vars
                 PROVE  TypeInv'
        OBVIOUS
    <2>1. CASE Decode
        <3>1. feed \in Feeds /\ i = 0 /\ j = 0 /\ DOMAIN byKey = {}
            BY <2>1 DEF Decode, DateInv, FeedInv, TypeInv, TypeOK
        <3>2. \A n \in DOMAIN feed' : TypedTrip(feed'[n])
            BY <2>1, <3>1, DecodedIsTyped DEF Decode
        <3>3. QED
            BY <2>1, <3>1, <3>2 DEF Decode, TypeInv, TypeOK
    <2>2. CASE ResolveTrip
        <3>1. i' \in DOMAIN feed
            BY <2>2 DEF ResolveTrip, Ahead, First
        <3>2. TrueToTimetable(feed[i'])
            BY <2>2, <3>1 DEF ResolveTrip, DateInv, FeedInv
        <3>3. header \in Int
            BY FeedsAssumption DEF TypeInv, TypeOK
        <3>4. date' \in Int /\ anchored' \in BOOLEAN
            BY <2>2, <3>2, <3>3, ResolvedIsRun, ClockDateIsInt DEF ResolveTrip, TrueToTimetable
        <3>5. QED
            BY <2>2, <3>1, <3>4 DEF ResolveTrip, TypeInv, TypeOK
    <2>3. CASE EmitStop
        <3>1. PICK n \in First(StopsAhead) :
                /\ j' = n
                /\ LET stop == Trip.stops[n] IN
                   IF Emits(stop) /\ Preferred(Key(stop))
                   THEN byKey' = [k \in DOMAIN byKey \cup {Key(stop)} |->
                                    IF k = Key(stop) THEN Entry(n) ELSE byKey[k]]
                   ELSE UNCHANGED byKey
            BY <2>3 DEF EmitStop
        <3>2. i # 0 /\ n \in DOMAIN Trip.stops
            BY <3>1 DEF StopsAhead, Ahead, First
        <3> DEFINE stop == Trip.stops[n]
        <3>3. /\ Trip.trip # NULL /\ stop.sequence # NULL
              /\ stop.relationship \in Relationships
            BY <3>2 DEF TypeInv, TypeOK, TypedTrip, Trip
        <3>4. /\ Key(stop).trip # NULL /\ Key(stop).sequence # NULL /\ Key(stop).date \in Int
              /\ Entry(n).row.observed = stop.arrival
              /\ Entry(n).row.relationship = stop.relationship
            BY <3>3 DEF Key, Entry, Row, TypeInv, TypeOK
        <3>5. ASSUME NEW k \in DOMAIN byKey'
              PROVE  /\ k.trip # NULL /\ k.sequence # NULL /\ k.date \in Int
                     /\ byKey'[k].row.observed # NULL
                     /\ byKey'[k].row.relationship \in Relationships \ {"no_data"}
            <4>1. CASE Emits(stop) /\ k = Key(stop) /\ byKey'[k] = Entry(n)
                BY <4>1, <3>3, <3>4 DEF Emits
            <4>2. CASE k \in DOMAIN byKey /\ byKey'[k] = byKey[k]
                BY <4>2 DEF TypeInv, TypeOK
            <4>3. QED
                BY <3>1, <3>5, <4>1, <4>2
        <3>6. QED
            BY <2>3, <3>1, <3>2, <3>5 DEF EmitStop, TypeInv, TypeOK, Trip
    <2>4. CASE UNCHANGED vars
        BY <2>4 DEF vars, TypeInv, TypeOK, Trip
    <2>5. QED
        BY <2>1, <2>2, <2>3, <2>4 DEF Next
<1>3. TypeInv => TypeOK
    BY DEF TypeInv
<1>4. QED
    BY <1>1, <1>2, <1>3, DateInvariant, PTL DEF Spec
=============================================================================
