----------------------------- MODULE Transform -----------------------------
(***************************************************************************)
(* From a feed to rows: decodeTripUpdatesFeed (src/gtfsrt/decode.ts) and   *)
(* transformFeed (src/gtfsrt/transform.ts).  The feed names no service     *)
(* date and may report a trip in two entities; every entity is anchored to *)
(* a date, every stop gives a row, and of the rows of one key one is kept. *)
(*                                                                         *)
(* A report of the feed carries the date its bus really runs on (run),     *)
(* which the code does not see; a scheduled bus runs on a date of its      *)
(* calendar and not half a day late.  Payloads that do not parse and empty *)
(* ids are left out.                                                       *)
(***************************************************************************)
EXTENDS ServiceDate, Sequences

CONSTANTS
    Trips,
    Vehicles,
    Static,         \* [trips of the bound version -> [dates, times]]
    Feeds,          \* the sequences of entities that may be published
    Headers,        \* header timestamps
    Freshest,       \* bound: entity timestamps are 0..Freshest
    NULL

Relationships == {"scheduled", "skipped", "no_data", "unscheduled"}
StopReports ==
    [sequence : Nat \cup {NULL}, relationship : Relationships, arrival : Int \cup {NULL}]
Entities ==
    [kind : {"shape", "stop", "tripModifications"}]
        \cup [kind : {"tripUpdate"}, trip : Trips \cup {NULL}, affects : Trips \cup {NULL},
              vehicle : Vehicles \cup {NULL}, stamp : (0..Freshest) \cup {NULL},
              stops : Seq(StopReports), run : Int]

ASSUME FeedsAssumption ==
    /\ Freshest \in Nat
    /\ NULL \notin Int \cup Trips \cup Vehicles
    /\ Headers \subseteq Int
    /\ Feeds \subseteq Seq(Entities)
ASSUME StaticAssumption ==
    /\ DOMAIN Static \subseteq Trips
    /\ \A t \in DOMAIN Static :
        /\ Static[t].dates \subseteq Int
        /\ DOMAIN Static[t].times \subseteq Nat
        /\ \A n \in DOMAIN Static[t].times : Static[t].times[n] \in Nat

VARIABLES
    header,         \* feed.headerTimestampMs
    feed,           \* the entities, then feed.tripUpdates
    decoded,
    i,              \* the trip the outer loop is at; 0 before it
    j,              \* the stop the inner loop has dealt with; 0 before it
    date,           \* resolution.serviceDate
    anchored,       \* resolution.anchored
    byKey           \* [keys met -> the entry kept]

vars == <<header, feed, decoded, i, j, date, anchored, byKey>>

Init ==
    /\ header \in Headers
    /\ feed \in Feeds
    /\ decoded = FALSE
    /\ i = 0
    /\ j = 0
    /\ date = LocalDate(header)
    /\ anchored = FALSE
    /\ byKey = [k \in {} |-> k]

(* A list from which elements are left out keeps the positions of the      *)
(* others; a loop goes from one to the next.                               *)
Ahead(list, n) == {m \in DOMAIN list : m > n}
First(positions) == {n \in positions : \A m \in positions : n <= m}

-----------------------------------------------------------------------------
(* decodeTripUpdatesFeed.  An entity that is no trip update, or names no   *)
(* trip, is passed over, and so is a stop without number or id.            *)
Identity(entity) == IF entity.trip # NULL THEN entity.trip ELSE entity.affects

IsTripUpdate(entity) ==
    /\ entity.kind = "tripUpdate"
    /\ Identity(entity) # NULL

Named(stops) == {n \in DOMAIN stops : stops[n].sequence # NULL}

TripUpdate(entity) ==
    [trip     |-> Identity(entity),
     modified |-> entity.affects # NULL,
     vehicle  |-> entity.vehicle,
     stamp    |-> entity.stamp,
     stops    |-> [n \in Named(entity.stops) |-> entity.stops[n]],
     run      |-> entity.run]

(* The environment: scheduled buses run when their calendar says, roughly  *)
(* on time.                                                                *)
OnTimetable(trip, stop) ==
    /\ trip \in DOMAIN Static
    /\ stop.sequence \in DOMAIN Static[trip].times

ASSUME OnTimeAssumption ==
    \A published \in Feeds : \A n \in DOMAIN published :
        LET entity == published[n] IN
        IsTripUpdate(entity) => \A m \in DOMAIN entity.stops :
            LET stop == entity.stops[m]
                trip == Identity(entity)
            IN OnTimetable(trip, stop) /\ stop.arrival # NULL =>
                  /\ entity.run \in Static[trip].dates
                  /\ NearTimetable(stop.arrival, entity.run, Static[trip].times[stop.sequence])

Decode ==
    /\ ~decoded
    /\ decoded' = TRUE
    /\ feed' = [n \in {m \in DOMAIN feed : IsTripUpdate(feed[m])} |-> TripUpdate(feed[n])]
    /\ UNCHANGED <<header, i, j, date, anchored, byKey>>

-----------------------------------------------------------------------------
(* transformFeed                                                           *)
Trip == feed[i]
StopsAhead == IF i = 0 THEN {} ELSE Ahead(Trip.stops, j)

(* resolveTripServiceDate: the first stop that is reported and scheduled,  *)
(* and has a date, anchors the whole trip.                                 *)
Resolved(trip, stop) ==
    IF stop.arrival # NULL /\ OnTimetable(trip.trip, stop)
    THEN ResolveServiceDate(stop.arrival, Static[trip.trip].times[stop.sequence],
                            Static[trip.trip].dates)
    ELSE {}

ResolveTrip ==
    /\ decoded
    /\ StopsAhead = {}
    /\ i' \in First(Ahead(feed, i))
    /\ j' = 0
    /\ LET trip == feed[i'] IN
       \/ \E n \in DOMAIN trip.stops :
            /\ date' \in Resolved(trip, trip.stops[n])
            /\ \A m \in DOMAIN trip.stops : m < n => Resolved(trip, trip.stops[m]) = {}
            /\ anchored' = TRUE
       \/ /\ \A n \in DOMAIN trip.stops : Resolved(trip, trip.stops[n]) = {}
          /\ date' = LocalDate(header)
          /\ anchored' = FALSE
    /\ UNCHANGED <<header, feed, decoded, byKey>>

(* preferenceOf: a vehicle outranks any timestamp, a missing one is oldest. *)
Preference(trip) ==
    (IF trip.vehicle # NULL THEN Freshest + 1 ELSE 0)
        + (IF trip.stamp # NULL THEN trip.stamp ELSE 0)

Scheduled(stop) == anchored /\ OnTimetable(Trip.trip, stop)
ScheduledAt(stop) == ScheduledInstant(date, Static[Trip.trip].times[stop.sequence])
Source(stop) ==
    IF ~Scheduled(stop) THEN "unmatched"
    ELSE IF Trip.modified THEN "static_pre_modification"
    ELSE "static_exact"

(* Mutant: the hour is the one the bus was observed in.                    *)
RowAsObserved(stop) ==
    [observed     |-> stop.arrival,
     relationship |-> stop.relationship,
     vehicle      |-> Trip.vehicle,
     scheduled    |-> IF Scheduled(stop) THEN ScheduledAt(stop) ELSE NULL,
     hour         |-> IF Scheduled(stop) THEN LocalHour(stop.arrival) ELSE NULL,
     dayType      |-> IF Scheduled(stop) THEN DayTypeOf(date) ELSE NULL,
     source       |-> Source(stop)]

Row(stop) ==
    [observed     |-> stop.arrival,
     relationship |-> stop.relationship,
     vehicle      |-> Trip.vehicle,
     scheduled    |-> IF Scheduled(stop) THEN ScheduledAt(stop) ELSE NULL,
     hour         |-> IF Scheduled(stop) THEN LocalHour(ScheduledAt(stop)) ELSE NULL,
     dayType      |-> IF Scheduled(stop) THEN DayTypeOf(date) ELSE NULL,
     source       |-> Source(stop)]

Key(stop) == [date |-> date, trip |-> Trip.trip, sequence |-> stop.sequence,
              modified |-> Trip.modified]

(* The entry also remembers which report it stems from.                    *)
Entry(n) == [row |-> Row(Trip.stops[n]), preference |-> Preference(Trip), from |-> <<i, n>>]

Emits(stop) == stop.relationship # "no_data" /\ stop.arrival # NULL

Preferred(key) ==
    key \in DOMAIN byKey => Preference(Trip) >= byKey[key].preference

EmitStop ==
    /\ \E n \in First(StopsAhead) :
        LET stop == Trip.stops[n] IN
        /\ j' = n
        /\ IF Emits(stop) /\ Preferred(Key(stop))
           THEN byKey' = [k \in DOMAIN byKey \cup {Key(stop)} |->
                             IF k = Key(stop) THEN Entry(n) ELSE byKey[k]]
           ELSE UNCHANGED byKey
    /\ UNCHANGED <<header, feed, decoded, i, date, anchored>>

Next == Decode \/ ResolveTrip \/ EmitStop

Spec == Init /\ [][Next]_vars
-----------------------------------------------------------------------------
(* Properties, against a reference that knows on which date a bus runs.    *)

(* The variables have the types of the code's fields, and the loops stay   *)
(* within the feed.                                                        *)
TypeOK ==
    /\ header \in Headers
    /\ decoded \in BOOLEAN
    /\ i # 0 => decoded /\ i \in DOMAIN feed
    /\ j # 0 => i # 0 /\ j \in DOMAIN Trip.stops
    /\ date \in Int
    /\ anchored \in BOOLEAN
    /\ \A k \in DOMAIN byKey :
        /\ k.trip # NULL /\ k.sequence # NULL /\ k.date \in Int
        /\ byKey[k].row.observed # NULL
        /\ byKey[k].row.relationship \in Relationships \ {"no_data"}

Anchorable(trip) ==
    \E n \in DOMAIN trip.stops :
        trip.stops[n].arrival # NULL /\ OnTimetable(trip.trip, trip.stops[n])

TrueDate(trip) == IF Anchorable(trip) THEN trip.run ELSE LocalDate(header)

(* The stop reports the loops have dealt with, and the keys they belong to. *)
Reports == UNION {{n} \X DOMAIN feed[n].stops : n \in DOMAIN feed}
Done ==
    {r \in Reports : /\ r[1] < i \/ (r[1] = i /\ r[2] <= j)
                    /\ Emits(feed[r[1]].stops[r[2]])}
Belongs(r) ==
    LET trip == feed[r[1]] IN
    [date |-> TrueDate(trip), trip |-> trip.trip,
     sequence |-> trip.stops[r[2]].sequence, modified |-> trip.modified]

Later(r, q) == r[1] > q[1] \/ (r[1] = q[1] /\ r[2] >= q[2])
Outranks(r, q) ==
    LET a == feed[r[1]]
        b == feed[q[1]]
    IN \/ a.vehicle # NULL /\ b.vehicle = NULL
       \/ /\ (a.vehicle = NULL) = (b.vehicle = NULL)
          /\ \/ b.stamp = NULL /\ a.stamp \notin {NULL, 0}
             \/ a.stamp # NULL /\ b.stamp # NULL /\ a.stamp > b.stamp
             \/ /\ a.stamp = b.stamp \/ {a.stamp, b.stamp} = {NULL, 0}
                /\ Later(r, q)

(* Every reported arrival of a bus is stored under the date the bus really *)
(* runs on, past midnight and across a change of the clocks; of several    *)
(* reports of one stop of one run the live one is kept, else the freshest, *)
(* else the last one; and the reports of another day's run of the same     *)
(* trip, or of its detour, never take their place.                         *)
BestReportsKept ==
    decoded =>
        /\ DOMAIN byKey = {Belongs(r) : r \in Done}
        /\ \A k \in DOMAIN byKey :
            /\ byKey[k].from \in Done
            /\ Belongs(byKey[k].from) = k
            /\ \A r \in Done : Belongs(r) = k => Outranks(byKey[k].from, r)

(* A stored delay is the real one: the scheduled arrival is the timetable's *)
(* instant on the date of the run, whichever stop anchored the trip.       *)
DelaysAreReal ==
    \A k \in DOMAIN byKey :
        LET row == byKey[k].row
            trip == feed[byKey[k].from[1]]
        IN row.scheduled # NULL =>
              row.scheduled = TimetableInstant(trip.run, Static[k.trip].times[k.sequence])

(* A stop of a trip counts in the same hour, and a run in the same type of *)
(* day, however late its buses are: unless the clocks change between the   *)
(* stop and noon of the date.                                              *)
SameSide(t, u) == t < Transition <=> u < Transition

BucketsFollowTimetable ==
    \A k \in DOMAIN byKey :
        LET row == byKey[k].row IN
        row.scheduled # NULL =>
            /\ row.dayType = DayTypeOf(feed[byKey[k].from[1]].run)
            /\ SameSide(row.scheduled, NoonInstant(k.date)) =>
                  row.hour = (Static[k.trip].times[k.sequence] \div Hour) % 24
=============================================================================
