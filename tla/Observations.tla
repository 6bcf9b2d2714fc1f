---------------------------- MODULE Observations ----------------------------
(***************************************************************************)
(* stop_time_observations (sql/002_observations.sql) as transformFeed      *)
(* (src/gtfsrt/transform.ts) and upsertObservations (src/db/upsert.ts)     *)
(* maintain it: every poll is transformed against the static feed version  *)
(* the worker is bound to, and its rows are merged in one statement.       *)
(*                                                                         *)
(* The raw archive keeps every poll.  The repository has no replay tool;   *)
(* a replay is modelled as the documents describe it: the polls of a shard *)
(* go through the same two functions again, in order, while the worker may *)
(* go on polling.  Keys, times and versions are abstract; the service date *)
(* of a stop is part of its key.                                           *)
(***************************************************************************)
EXTENDS Integers, Sequences, FiniteSets

CONSTANTS
    Keys,           \* (service_date, trip_id, stop_sequence, is_modified)
    ModifiedKeys,   \* the keys with is_modified
    Versions,       \* static feed versions
    ScheduledAt,    \* [Versions -> [Keys -> scheduled arrival, or NULL]]
    HourOf,         \* [Arrivals -> local hour]
    DayTypeOf,      \* [Keys -> type of the service date]
    Vehicles,
    Updates,        \* the stop updates a decoded feed can hold for a key
    Stamps,         \* feed header timestamps
    StoreMayFail,   \* whether an archived poll may fail to be stored
    MaxPolls,       \* bound: live polls
    MaxReplays,     \* bound: shards replayed
    NULL

Relationships == {"scheduled", "skipped", "no_data", "unscheduled"}
Sources == {"unmatched", "static_exact", "static_pre_modification"}

(* A decoded stop update; the arrival of a skipped stop, of an origin or   *)
(* of a vehicle without data may be missing.  Absent: not in the feed.     *)
Update == [relationship : Relationships, arrival : Int \cup {NULL},
           vehicle : Vehicles \cup {NULL}]
Absent == [relationship |-> "no_data", arrival |-> NULL, vehicle |-> NULL]

Arrivals == {ScheduledAt[v][k] : v \in Versions, k \in Keys} \ {NULL}
DayTypes == {"weekday", "saturday", "sunday"}

ASSUME DataAssumption ==
    /\ NULL \notin Int \cup Versions \cup Vehicles \cup DayTypes
    /\ ModifiedKeys \subseteq Keys
    /\ ScheduledAt \in [Versions -> [Keys -> Int \cup {NULL}]]
    /\ HourOf \in [Arrivals -> 0..23]
    /\ DayTypeOf \in [Keys -> DayTypes]
    /\ Updates \subseteq Update
    /\ Stamps \subseteq Int
ASSUME BoundsAssumption ==
    /\ StoreMayFail \in BOOLEAN
    /\ MaxPolls \in Nat
    /\ MaxReplays \in Nat

VARIABLES
    table,      \* the rows, by key
    bound,      \* the version ScheduleCache is bound to, or NULL
    log,        \* the archived polls
    replay,     \* the polls being replayed and the next one; 0 when idle
    replays,    \* shards replayed so far
    history     \* [Keys -> the rows transformFeed has emitted for the key]

vars == <<table, bound, log, replay, replays, history>>

Polls == [stamp : Stamps, updates : [Keys -> Updates \cup {Absent}]]
Replaying == replay.next # 0
NoReplay == [first |-> 0, next |-> 0, last |-> 0]

Init ==
    /\ table = [k \in {} |-> k]
    /\ bound \in Versions \cup {NULL}
    /\ log = << >>
    /\ replay = NoReplay
    /\ replays = 0
    /\ history = [k \in Keys |-> << >>]

-----------------------------------------------------------------------------
(* transformFeed: a stop without data or without an arrival is skipped.    *)
Emits(u) ==
    /\ u.relationship # "no_data"
    /\ u.arrival # NULL

Matched(k) ==
    /\ bound # NULL
    /\ ScheduledAt[bound][k] # NULL

Provenance(k) ==
    IF k \in ModifiedKeys THEN "static_pre_modification" ELSE "static_exact"

(* Mutant: an unmatched row names the bound version.                       *)
EmittedAlwaysBound(k, u, stamp) ==
    [observed |-> u.arrival, relationship |-> u.relationship,
     vehicle |-> u.vehicle, seen |-> stamp,
     scheduled |-> IF Matched(k) THEN ScheduledAt[bound][k] ELSE NULL,
     hour |-> IF Matched(k) THEN HourOf[ScheduledAt[bound][k]] ELSE NULL,
     dayType |-> IF Matched(k) THEN DayTypeOf[k] ELSE NULL,
     source |-> IF Matched(k) THEN Provenance(k) ELSE "unmatched",
     version |-> bound]

(* The row emitted for a stop update.                                      *)
Emitted(k, u, stamp) ==
    [observed     |-> u.arrival,
     relationship |-> u.relationship,
     vehicle      |-> u.vehicle,
     seen         |-> stamp,
     scheduled    |-> IF Matched(k) THEN ScheduledAt[bound][k] ELSE NULL,
     hour         |-> IF Matched(k) THEN HourOf[ScheduledAt[bound][k]] ELSE NULL,
     dayType      |-> IF Matched(k) THEN DayTypeOf[k] ELSE NULL,
     source       |-> IF Matched(k) THEN Provenance(k) ELSE "unmatched",
     version      |-> IF Matched(k) THEN bound ELSE NULL]

-----------------------------------------------------------------------------
(* upsertObservations.                                                     *)
(* Mutants: the new value whether or not it is null; the new extreme.      *)
CoalesceNot(a, b) == a
LeastIsNew(a, b) == b

Coalesce(a, b) == IF a # NULL THEN a ELSE b
Least(a, b) == IF a <= b THEN a ELSE b
Greatest(a, b) == IF a >= b THEN a ELSE b

Inserted(new) ==
    [observed     |-> new.observed,
     first        |-> new.observed,
     min          |-> new.observed,
     max          |-> new.observed,
     changes      |-> 0,
     polls        |-> 1,
     firstSeen    |-> new.seen,
     lastSeen     |-> new.seen,
     relationship |-> new.relationship,
     vehicle      |-> new.vehicle,
     scheduled    |-> new.scheduled,
     hour         |-> new.hour,
     dayType      |-> new.dayType,
     source       |-> new.source,
     version      |-> new.version]

(* Mutant: every merge counts as a change.                                 *)
ChangedAlways(row, new) == 1
Changed(row, new) == IF row.observed # new.observed THEN 1 ELSE 0

(* ON CONFLICT DO UPDATE                                                   *)
Merged(row, new) ==
    [observed     |-> new.observed,
     first        |-> row.first,
     min          |-> Least(row.min, new.observed),
     max          |-> Greatest(row.max, new.observed),
     changes      |-> row.changes + Changed(row, new),
     polls        |-> row.polls + 1,
     firstSeen    |-> row.firstSeen,
     lastSeen     |-> Greatest(row.lastSeen, new.seen),
     relationship |-> new.relationship,
     vehicle      |-> Coalesce(new.vehicle, row.vehicle),
     scheduled    |-> Coalesce(new.scheduled, row.scheduled),
     hour         |-> Coalesce(new.hour, row.hour),
     dayType      |-> Coalesce(new.dayType, row.dayType),
     source       |-> IF new.scheduled # NULL THEN new.source ELSE row.source,
     version      |-> Coalesce(new.version, row.version)]

Remembered(poll) ==
    history' = [k \in Keys |->
        IF Emits(poll.updates[k])
        THEN Append(history[k], Emitted(k, poll.updates[k], poll.stamp))
        ELSE history[k]]

(* Mutant: ON CONFLICT DO NOTHING.                                         *)
UpsertOnce(poll) ==
    /\ table' = [k \in DOMAIN table \cup {j \in Keys : Emits(poll.updates[j])} |->
           IF k \in DOMAIN table THEN table[k]
           ELSE Inserted(Emitted(k, poll.updates[k], poll.stamp))]
    /\ Remembered(poll)

Upsert(poll) ==
    /\ table' = [k \in DOMAIN table \cup {j \in Keys : Emits(poll.updates[j])} |->
           LET new == Emitted(k, poll.updates[k], poll.stamp)
           IN IF ~Emits(poll.updates[k]) THEN table[k]
              ELSE IF k \in DOMAIN table THEN Merged(table[k], new)
              ELSE Inserted(new)]
    /\ Remembered(poll)

-----------------------------------------------------------------------------
(* pollTripUpdates: the payload is archived, then stored.                  *)
Poll(poll) ==
    /\ Len(log) < MaxPolls
    /\ log' = Append(log, poll)
    /\ Upsert(poll)
    /\ UNCHANGED <<bound, replay, replays>>

(* Archived, but not stored: the database was down, or the worker stopped  *)
(* between archive.write and upsertObservations.                           *)
PollNotStored(poll) ==
    /\ StoreMayFail
    /\ Len(log) < MaxPolls
    /\ log' = Append(log, poll)
    /\ UNCHANGED <<table, bound, replay, replays, history>>

(* A service-day rollover or a restart binds another version.              *)
Rebind(v) ==
    /\ v # bound
    /\ bound' = v
    /\ UNCHANGED <<table, log, replay, replays, history>>

StartReplay(from, to) ==
    /\ ~Replaying
    /\ replays < MaxReplays
    /\ from <= to
    /\ replay' = [first |-> from, next |-> from, last |-> to]
    /\ replays' = replays + 1
    /\ UNCHANGED <<table, bound, log, history>>

ReplayPoll ==
    /\ Replaying
    /\ Upsert(log[replay.next])
    /\ replay' = IF replay.next < replay.last
                 THEN [replay EXCEPT !.next = @ + 1] ELSE NoReplay
    /\ UNCHANGED <<bound, log, replays>>

Next ==
    \/ \E poll \in Polls : Poll(poll) \/ PollNotStored(poll)
    \/ \E v \in Versions \cup {NULL} : Rebind(v)
    \/ \E from, to \in DOMAIN log : StartReplay(from, to)
    \/ ReplayPoll

Spec == Init /\ [][Next]_vars
-----------------------------------------------------------------------------
(* Properties.                                                             *)

Hours == 0..23 \cup {NULL}

EmittedRow ==
    [observed : Int, relationship : Relationships,
     vehicle : Vehicles \cup {NULL}, seen : Int,
     scheduled : Int \cup {NULL}, hour : Hours, dayType : DayTypes \cup {NULL},
     source : Sources, version : Versions \cup {NULL}]

Row ==
    [observed : Int, first : Int, min : Int, max : Int,
     changes : Nat, polls : Nat, firstSeen : Int, lastSeen : Int,
     relationship : Relationships, vehicle : Vehicles \cup {NULL},
     scheduled : Int \cup {NULL}, hour : Hours, dayType : DayTypes \cup {NULL},
     source : Sources, version : Versions \cup {NULL}]

(* The variables have the types of the columns.                            *)
TypeOK ==
    /\ DOMAIN table \subseteq Keys
    /\ table \in [DOMAIN table -> Row]
    /\ bound \in Versions \cup {NULL}
    /\ log \in Seq(Polls)
    /\ replay \in [first : 0..Len(log), next : 0..Len(log), last : 0..Len(log)]
    /\ Replaying => 0 < replay.first /\ replay.first <= replay.next
                                    /\ replay.next <= replay.last
    /\ replays \in 0..MaxReplays
    /\ history \in [Keys -> Seq(EmittedRow)]

(* A row is the summary of every prediction ever stored for its stop, in   *)
(* whatever order polls, failures and replays stored them: the last one is *)
(* the observed arrival, the extremes are the extremes of all, and the     *)
(* counters count.                                                         *)
Changes(h) == {i \in 2..Len(h) : h[i].observed # h[i - 1].observed}

Summarises(row, h) ==
    /\ row.polls = Len(h) /\ Len(h) > 0
    /\ row.first = h[1].observed
    /\ row.observed = h[Len(h)].observed
    /\ \A i \in 1..Len(h) : row.min <= h[i].observed /\ h[i].observed <= row.max
    /\ \E i \in 1..Len(h) : row.min = h[i].observed
    /\ \E i \in 1..Len(h) : row.max = h[i].observed
    /\ \A i \in 1..Len(h) : h[i].seen <= row.lastSeen
    /\ row.changes = Cardinality(Changes(h))

RowsSummariseReports ==
    \A k \in Keys :
        IF k \in DOMAIN table THEN Summarises(table[k], history[k])
                              ELSE history[k] = << >>

(* The schedule columns of a row, each coalesced by itself, always come    *)
(* from one version: a delay is never computed against one schedule and    *)
(* attributed to another or filed under the hour of another, and only a    *)
(* matched row has any of them.                                            *)
OneVersion(k, row) ==
    IF row.version = NULL
    THEN /\ row.scheduled = NULL /\ row.hour = NULL /\ row.dayType = NULL
         /\ row.source = "unmatched"
    ELSE /\ row.scheduled = ScheduledAt[row.version][k]
         /\ row.scheduled # NULL
         /\ row.hour = HourOf[row.scheduled] /\ row.dayType = DayTypeOf[k]
         /\ row.source = Provenance(k)

ScheduleFromOneVersion ==
    \A k \in DOMAIN table : OneVersion(k, table[k])

(* "The update clause is written so that information is only ever ADDED":  *)
(* whatever is stored next, a row stays, the range never narrows, a match  *)
(* and a vehicle are never lost, and what bookkeeping moves moves up.      *)
Keeps(old, new) ==
    /\ new.first = old.first /\ new.firstSeen = old.firstSeen
    /\ new.min <= old.min /\ new.max >= old.max
    /\ new.polls >= old.polls /\ new.changes >= old.changes
    /\ new.lastSeen >= old.lastSeen
    /\ old.scheduled # NULL => new.scheduled # NULL
    /\ old.hour # NULL => new.hour # NULL
    /\ old.dayType # NULL => new.dayType # NULL
    /\ old.version # NULL => new.version # NULL /\ new.source = old.source
    /\ old.vehicle # NULL => new.vehicle # NULL

InformationIsOnlyAdded ==
    [][\A k \in DOMAIN table : k \in DOMAIN table' /\ Keeps(table[k], table'[k])]_vars

(* Storing again what was stored last, under the same version, changes     *)
(* nothing but poll_count.                                                 *)
SameButPolls(old, new) == new = [old EXCEPT !.polls = new.polls]

RepeatIsIdempotent ==
    [][\A k \in Keys :
          LET h == history'[k]
              n == Len(h)
          IN n > 1 /\ n > Len(history[k]) /\ h[n] = h[n - 1] =>
                 SameButPolls(table[k], table'[k])]_vars

(* A replay that ends with the newest archived poll repairs every row it   *)
(* touches: whatever earlier replays, failed polls and other bindings did  *)
(* to it, it holds the newest archived prediction again.                   *)
LastReported(k, from) ==
    {i \in from..Len(log) : Emits(log[i].updates[k]) /\
         \A j \in (i + 1)..Len(log) : ~Emits(log[j].updates[k])}

ReplayConverges ==
    [][Replaying /\ ~Replaying' /\ replay.last = Len(log) =>
          \A k \in Keys : \A i \in LastReported(k, replay.first) :
              table'[k].observed = log[i].updates[k].arrival]_vars
=============================================================================
