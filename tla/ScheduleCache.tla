--------------------------- MODULE ScheduleCache ---------------------------
(***************************************************************************)
(* The static schedule: ScheduleCache (src/db/schedule.ts) as the trip     *)
(* poll and the service-day rollover of src/worker.ts use it, while        *)
(* loadStatic (src/static/load.ts), another process, publishes versions.   *)
(* Every query is a step of its own and may fail; the worker may be killed *)
(* and started again; the loader may be killed half way.                   *)
(***************************************************************************)
EXTENDS Integers, FiniteSets

CONSTANTS
    Publications,   \* feed_version names Metro publishes
    Covers,         \* [Publications -> the days of its validity window]
    Trips,
    Knows,          \* [Publications -> the trips in it]
    Forced,         \* whether load-static may be run with --force
    Failures,       \* whether a query of the worker may fail
    MaxDay,         \* bound: days are 0..MaxDay
    MaxId,          \* bound: version ids handed out
    NULL

Days == 0..MaxDay
Ids == 1..MaxId

ASSUME DataAssumption ==
    /\ MaxDay \in Nat /\ MaxId \in Nat
    /\ Forced \in BOOLEAN /\ Failures \in BOOLEAN
    /\ Covers \in [Publications -> SUBSET Int]
    /\ Knows \in [Publications -> SUBSET Trips]
    /\ NULL \notin Int \cup Publications

Tables == {"trips", "calendar", "stop_times"}

VARIABLES
    versions,       \* gtfs_feed_versions with the static tables of each row
    lastId,         \* the id sequence
    loading,        \* the id loadStatic is filling, or NULL
    referenced,     \* ids that observation rows refer to
    today,          \* the agency's local date
    awaited,        \* what the worker awaits
    starting,       \* whether initialise is called by main() or by a rollover
    currentDay,     \* currentServiceDay
    feedVersion,    \* #feedVersionId
    found,          \* the id whose static_calendar rows were found, or NULL
    calendar,       \* the id whose calendar is #activeDatesByService, or NULL
    trips,          \* #trips: [Trips -> {} or the singleton of its entry]
    polled,         \* the trips of the poll in progress
    services,       \* the ones the first query of #loadTrips found
    broken,         \* an initialise failed since the last one that succeeded
    known           \* the complete versions when initialise looked

loaderVars == <<versions, lastId, loading>>
cacheVars == <<feedVersion, calendar, trips>>
pollVars == <<found, polled, services>>
ghostVars == <<broken, known>>
scheduleVars == <<loaderVars, referenced, today, awaited, starting, currentDay,
                  cacheVars, pollVars, ghostVars>>

Version == [pub : Publications, id : Ids, complete : BOOLEAN, tables : SUBSET Tables]
Entry == [version : Ids, calendar : Ids \cup {NULL}]
NotInStatic == [version |-> NULL, calendar |-> NULL]    \* the cached null
Nothing == [t \in Trips |-> {}]

CacheInit ==
    /\ versions = {}
    /\ lastId = 0
    /\ loading = NULL
    /\ referenced = {}
    /\ today = 0
    /\ awaited = "down"
    /\ starting = FALSE
    /\ currentDay = 0
    /\ feedVersion = NULL
    /\ found = NULL
    /\ calendar = NULL
    /\ trips = Nothing
    /\ polled = {}
    /\ services = {}
    /\ broken = FALSE
    /\ known = {}

-----------------------------------------------------------------------------
(* loadStatic                                                              *)

(* Mutant: load_completed_at is not asked for.                             *)
CompleteOrNot == versions
Complete == {v \in versions : v.complete}
Newest(S) == CHOOSE v \in S : \A w \in S : w.id <= v.id
Filled(id, table) == \E v \in versions : v.id = id /\ table \in v.tables
workerVars == <<referenced, today, awaited, starting, currentDay, cacheVars,
                pollVars, ghostVars>>

(* A complete version is only loaded again with --force; a row that is in  *)
(* the way is deleted with its static tables, unless observations refer to *)
(* it, in which case the load fails.                                       *)
BeginLoad(p) ==
    LET already == {v \in versions : v.pub = p} IN
    /\ loading = NULL
    /\ lastId < MaxId
    /\ Forced \/ \A v \in already : ~v.complete
    /\ \A v \in already : v.id \notin referenced
    /\ versions' = (versions \ already) \cup
           {[pub |-> p, id |-> lastId + 1, complete |-> FALSE, tables |-> {}]}
    /\ lastId' = lastId + 1
    /\ loading' = lastId + 1
    /\ UNCHANGED workerVars

(* The batches of one table, in the order of the code.                     *)
LoadTable ==
    \E v \in versions :
        /\ v.id = loading
        /\ LET next == IF v.tables = {} THEN "trips"
                       ELSE IF v.tables = {"trips"} THEN "calendar"
                       ELSE "stop_times"
           IN /\ v.tables # Tables
              /\ versions' = (versions \ {v}) \cup
                                 {[v EXCEPT !.tables = @ \cup {next}]}
    /\ UNCHANGED <<lastId, loading, workerVars>>

CompleteLoad ==
    \E v \in versions :
        /\ v.id = loading
        /\ v.tables = Tables
        /\ versions' = (versions \ {v}) \cup {[v EXCEPT !.complete = TRUE]}
        /\ loading' = NULL
        /\ UNCHANGED <<lastId, workerVars>>

AbortLoad ==
    /\ loading # NULL
    /\ loading' = NULL
    /\ UNCHANGED <<versions, lastId, workerVars>>

-----------------------------------------------------------------------------
(* ScheduleCache.initialise                                                *)

InitialiseDone ==
    /\ broken' = FALSE
    /\ awaited' = IF starting THEN "idle" ELSE "index"

Covering ==
    LET covering == {v \in Complete : currentDay \in Covers[v.pub]} IN
    /\ awaited = "covering"
    /\ known' = Complete
    /\ \/ /\ covering = {}
          /\ awaited' = "latest"
          /\ UNCHANGED <<feedVersion, trips>>
       \/ /\ covering # {}
          /\ feedVersion' = Newest(covering).id
          /\ trips' = Nothing
          /\ awaited' = "calendar"
    /\ UNCHANGED <<loaderVars, referenced, today, starting, currentDay, calendar,
                   pollVars, broken>>

Latest ==
    /\ awaited = "latest"
    /\ \/ /\ Complete = {}
          /\ feedVersion' = NULL
          /\ InitialiseDone
          /\ UNCHANGED trips
       \/ /\ Complete # {}
          /\ feedVersion' = Newest(Complete).id
          /\ trips' = Nothing
          /\ awaited' = "calendar"
          /\ UNCHANGED broken
    /\ UNCHANGED <<loaderVars, referenced, today, starting, currentDay, calendar,
                   pollVars, known>>

(* #loadCalendar: two queries, and the map is replaced at the end.         *)
LoadCalendar ==
    /\ awaited = "calendar"
    /\ found' = IF Filled(feedVersion, "calendar") THEN feedVersion ELSE NULL
    /\ awaited' = "exceptions"
    /\ UNCHANGED <<loaderVars, referenced, today, starting, currentDay, cacheVars,
                   polled, services, ghostVars>>

LoadExceptions ==
    /\ awaited = "exceptions"
    /\ calendar' = IF Filled(feedVersion, "calendar") THEN found ELSE NULL
    /\ found' = NULL
    /\ InitialiseDone
    /\ UNCHANGED <<loaderVars, referenced, today, starting, currentDay, feedVersion,
                   trips, polled, services, known>>

-----------------------------------------------------------------------------
(* The worker.                                                             *)

(* main(): ensurePartitions, then initialise(today).                       *)
Start ==
    /\ awaited = "down"
    /\ awaited' = "ensure"
    /\ starting' = TRUE
    /\ currentDay' = today
    /\ UNCHANGED <<loaderVars, referenced, today, cacheVars, pollVars, ghostVars>>

(* Mutant: no rollover.                                                    *)
BeginPollNoRollover(ts) ==
    /\ awaited = "idle"
    /\ polled' = ts
    /\ currentDay' = today
    /\ starting' = FALSE
    /\ awaited' = "index"
    /\ UNCHANGED <<loaderVars, referenced, today, cacheVars, found, services, ghostVars>>

(* A poll has been fetched and decoded: onDayRollover.                     *)
BeginPoll(ts) ==
    /\ awaited = "idle"
    /\ polled' = ts
    /\ currentDay' = today
    /\ starting' = FALSE
    /\ awaited' = IF today = currentDay THEN "index" ELSE "ensure"
    /\ UNCHANGED <<loaderVars, referenced, today, cacheVars, found, services, ghostVars>>

Ensure ==
    /\ awaited = "ensure"
    /\ trips' = Nothing
    /\ awaited' = "covering"
    /\ UNCHANGED <<loaderVars, referenced, today, starting, currentDay, feedVersion,
                   calendar, pollVars, ghostVars>>

(* indexFor: the trips that are not cached are queried.                    *)
Wanted == {t \in polled : trips[t] = {}}

Index ==
    /\ awaited = "index"
    /\ awaited' = IF feedVersion = NULL \/ Wanted = {} THEN "upsert" ELSE "services"
    /\ UNCHANGED <<loaderVars, referenced, today, starting, currentDay, cacheVars,
                   pollVars, ghostVars>>

(* Mutant: the queries do not name the version.                            *)
FoundAnywhere(table) ==
    {t \in Wanted : \E v \in versions : table \in v.tables /\ t \in Knows[v.pub]}

Found(table) ==
    {t \in Wanted : \E v \in versions :
        v.id = feedVersion /\ table \in v.tables /\ t \in Knows[v.pub]}

LoadServices ==
    /\ awaited = "services"
    /\ services' = Found("trips")
    /\ awaited' = "stop_times"
    /\ UNCHANGED <<loaderVars, referenced, today, starting, currentDay, cacheVars,
                   found, polled, ghostVars>>

LoadStopTimes ==
    /\ awaited = "stop_times"
    /\ trips' = [t \in Trips |->
           IF t \notin Wanted THEN trips[t]
           ELSE IF t \in services \cap Found("stop_times")
           THEN {[version |-> feedVersion, calendar |-> calendar]}
           ELSE {NotInStatic}]
    /\ services' = {}
    /\ awaited' = "upsert"
    /\ UNCHANGED <<loaderVars, referenced, today, starting, currentDay, feedVersion,
                   calendar, found, polled, ghostVars>>

(* transformFeed and upsertObservations.  The versions of the matched rows *)
(* are foreign keys: one that is gone fails the whole statement.  A trip   *)
(* whose service dates do not fit the poll is stored unmatched.            *)
Matched ==
    {v \in Ids : feedVersion # NULL /\
        \E t \in polled : \E e \in trips[t] : e.version = v}

Upsert ==
    /\ awaited = "upsert"
    /\ \E S \in SUBSET Matched :
           referenced' = IF \A i \in S : \E v \in versions : v.id = i
                         THEN referenced \cup S ELSE referenced
    /\ polled' = {}
    /\ awaited' = "idle"
    /\ UNCHANGED <<loaderVars, today, starting, currentDay, cacheVars, found, services,
                   ghostVars>>

(* Everything in memory is lost.                                           *)
Down ==
    /\ awaited' = "down"
    /\ feedVersion' = NULL
    /\ calendar' = NULL
    /\ trips' = Nothing
    /\ broken' = FALSE

Initialising == awaited \in {"ensure", "covering", "latest", "calendar", "exceptions"}

(* A query of a poll fails: the poll is abandoned, with the state its      *)
(* steps have left.  One of main() fails: the process exits.               *)
QueryFails ==
    /\ Failures
    /\ Initialising \/ awaited \in {"services", "stop_times", "upsert"}
    /\ found' = NULL /\ polled' = {} /\ services' = {}
    /\ \/ /\ starting /\ Initialising
          /\ Down
       \/ /\ ~(starting /\ Initialising)
          /\ awaited' = "idle"
          /\ broken' = (broken \/ Initialising)
          /\ UNCHANGED cacheVars
    /\ UNCHANGED <<loaderVars, referenced, today, starting, currentDay, known>>

Crash ==
    /\ awaited # "down"
    /\ Down
    /\ found' = NULL /\ polled' = {} /\ services' = {}
    /\ UNCHANGED <<loaderVars, referenced, today, starting, currentDay, known>>

Midnight ==
    /\ today < MaxDay
    /\ today' = today + 1
    /\ UNCHANGED <<loaderVars, referenced, awaited, starting, currentDay, cacheVars,
                   pollVars, ghostVars>>

-----------------------------------------------------------------------------
Initialise == Covering \/ Latest \/ LoadCalendar \/ LoadExceptions
PollStep ==
    \/ \E ts \in SUBSET Trips : BeginPoll(ts)
    \/ Ensure \/ Index \/ LoadServices \/ LoadStopTimes \/ Upsert
Loader == (\E p \in Publications : BeginLoad(p)) \/ LoadTable \/ CompleteLoad \/ AbortLoad

CacheNext ==
    \/ Loader
    \/ Start \/ Initialise \/ PollStep
    \/ QueryFails \/ Crash
    \/ Midnight

CacheSpec == CacheInit /\ [][CacheNext]_scheduleVars
-----------------------------------------------------------------------------
(* Properties.                                                             *)

(* The variables have the types of the code's fields.                      *)
CacheTypeOK ==
    /\ versions \subseteq Version
    /\ lastId \in 0..MaxId
    /\ loading \in Ids \cup {NULL}
    /\ referenced \subseteq Ids
    /\ today \in Days /\ currentDay \in Days
    /\ awaited \in {"down", "ensure", "covering", "latest", "calendar", "exceptions",
               "idle", "index", "services", "stop_times", "upsert"}
    /\ starting \in BOOLEAN
    /\ feedVersion \in Ids \cup {NULL}
    /\ found \in Ids \cup {NULL}
    /\ calendar \in Ids \cup {NULL}
    /\ trips \in [Trips -> SUBSET (Entry \cup {NotInStatic})]
    /\ polled \subseteq Trips /\ services \subseteq Trips
    /\ broken \in BOOLEAN
    /\ known \subseteq Version

Bound == {v \in versions : v.id = feedVersion}

(* "Partial loads must never be joined against" (sql/001): the version the *)
(* worker is bound to is there, and complete, whatever the loader does in  *)
(* the meantime.                                                           *)
BoundToComplete ==
    feedVersion # NULL => \E v \in Bound : v.complete /\ v.tables = Tables

(* The cache never mixes versions, and a trip cached as unknown is unknown *)
(* to the version: a query that raced a load is not remembered for a day.  *)
CacheMatchesVersion ==
    \A t \in Trips : \A e \in trips[t] :
        feedVersion # NULL =>
            IF e = NotInStatic
            THEN \A v \in Bound : t \notin Knows[v.pub]
            ELSE e.version = feedVersion /\ \E v \in Bound : t \in Knows[v.pub]

(* "Bind to the static feed version in effect on onDate", else to the most *)
(* recent one: unless an initialise has failed since, a poll is matched    *)
(* against a version and calendar chosen for the day it runs on.           *)
AfterInitialise == awaited \in {"index", "services", "stop_times", "upsert"}

ScheduleIsRight ==
    AfterInitialise /\ ~broken =>
        /\ calendar = feedVersion \/ feedVersion = NULL
        /\ feedVersion = NULL => known = {}
        /\ \/ \E v \in Bound : currentDay \in Covers[v.pub]
           \/ \A v \in known : currentDay \notin Covers[v.pub]
        /\ \A t \in Trips : \A e \in trips[t] :
               feedVersion # NULL => e.calendar \in {NULL, calendar}

(* "static_exact: matched the schedule in effect on service_date"          *)
(* (sql/002): the service dates of a cached trip come from the version its *)
(* stop times come from.  A trip cached without a calendar, because the    *)
(* first one could not be read, has no service date and no such row.       *)
DatesMatchTimes ==
    awaited = "upsert" =>
        \A t \in polled : \A e \in trips[t] : e.calendar \in {NULL, e.version}
=============================================================================
