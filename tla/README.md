# Verification of the Madison Metro collector

TLA+ models of the bus-reliability collector, the TLC configurations that check
them on small instances, and TLAPS proofs about them. Paths are relative to the
repository's root.

- [The system](#the-system)
- [Modules](#modules)
- [Runs](#runs)
- [Disagreements between the code and its documents](#disagreements-between-the-code-and-its-documents)
- [Proofs](#proofs)
- [Only model-checked](#only-model-checked)
- [Not modelled](#not-modelled)
- [Plan](#plan)

## The system

A Node process (`src/worker.ts`) polls three GTFS-RT feeds. Every payload is
written to a compressed hourly file on disk (the *archive*); the trip-updates
feed is also decoded, matched with the static schedule and merged into a
partitioned Postgres table. systemd restarts the process; timers run the
nightly rollup (03:15), the eviction of old partitions (06:15), the creation of
new ones (Monday 02:30), backups (02:00, and on Sundays 05:30), off-site copies (04:30) and the
site export (05:15). One event loop, several processes, one database: what is hard is what happens between two awaits, two
processes or two starts of the worker.

| Component | State | Operations | Interacts with | Hard behaviour | What makes it correct |
|---|---|---|---|---|---|
| Archive writer (`src/archive/archive.ts`, `r2.ts`) | open shard per feed, files on disk, objects in R2 | `write`, `#shardFor`, `#closeShard`, `close` | called by each poll loop; R2 | crashes, restarts inside an hour, I/O errors half way, hour rollover across awaits | stored polls stay stored; finished shards decompress; a clean stop leaves nothing behind |
| Poll loops and shutdown (`src/worker.ts`, `src/gtfsrt/fetch.ts`) | three loops, `Shutdown`, retry state | `runLoop`, `fetchFeed`, `Shutdown.sleep/signal`, `main` | all others; systemd | SIGTERM at any await, backoff, SIGKILL | a stop is bounded by a poll; no failure ends a loop; the feed is not polled too often |
| Observation store (`src/gtfsrt/transform.ts`, `src/db/upsert.ts`, `sql/002`) | `stop_time_observations` | transform a poll, merge its rows | schedule cache; rollups read it | failed stores, repeated and replayed polls, a version change between polls | rows summarise everything stored; schedule columns agree |
| Schedule cache and loader (`src/db/schedule.ts`, `src/static/load.ts`, `sql/001`) | bound version, calendar, cached trips; the static tables | `initialise`, `indexFor`, `clearTrips`, `onDayRollover`, `loadStatic` | loader is another process | a load between two queries, a query failing half way, caching across versions | never joined against a partial load; the right version for the day |
| Retention (`src/db/partitions.ts`, `scripts/partitions.ts`, `scripts/rollup.ts`, `sql/003`) | weekly partitions, DEFAULT partition, rollup tables | create partitions, roll up a day or month, drop expired weeks | worker stores rows meanwhile | failed or missed nights, late rows, an eviction between check and DROP | eviction loses nothing the statistics need |
| Service dates (`src/util/time.ts`) | none | `scheduledInstantMs`, `resolveServiceDate` | transform | daylight saving, after-midnight trips, late buses, two entities for one stop | the date of the run, the real delay, the preferred report |
| Decoder (`src/gtfsrt/decode.ts`) | none | `decodeTripUpdatesFeed` | transform | entities without a trip, stops without a number | drops them and nothing else |
| Coverage and statistics (`sql/004`, `sql/005`, `scripts/rollup.ts`) | `day_coverage`, `stop_route_hour_stats` | `build_day_coverage_all`, the alarm, the serving tier | rollup and export rebuild it, eviction requires the alarm's silence, operators write reasons | two rebuilds and an operator on one row, an eviction under a rebuild | a diagnosis stays; an evicted day stays on record; a gap is caught the next morning |
| Off-site copy (`scripts/upload-archive.ts`) | listing, hashes, local files | select, upload, confirm, verify, prune | archive files, which the worker finalises meanwhile; rclone | cut or corrupted uploads, a shard replaced after its scan, a killed run | a local file goes only when its copy is whole; damage is reported and repaired |
| Backup (`scripts/backup-database.ts`) | local and remote dumps | dump, upload, confirm, retain, clean up, verify | rclone, Postgres | an unconfirmed dump while old ones expire, half a deletion, retention decided anew every night | a dump of every generation stays; exit 0 means a backup |
| Live status (`src/worker.ts`, `workers/live-status`) | last push time | throttled push | KV | none that matters to data | write rate |
| Heartbeats (`worker-heartbeat.sh`, `healthcheck-wrap.sh`) | none | ping | healthchecks.io | silent death | a dead worker is noticed |
| Export and site (`scripts/export-site.ts`, `deploy-site.sh`, `site/public/app.js`) | the directory of JSON files, the published site | rebuild, choose the headline, write, publish | statistics, coverage | a failure half way, days that change while it reads | whole sites only; no gap as a headline or in the figures |
| Reports, one-off tools | none | read and format | rollups | none | formatting |
| Configuration, logger, client | none | parse, log, pool | all | none | parsing |

`PROJECT.json` lists the hazards of the code line by line, each with the
properties that would catch it, or with the reason none does yet.

## Modules

Each module's first comment says what it abstracts; `PROJECT.json` maps every
definition to its lines. Operators commented *Mutant* are plausible wrong versions of
the definition after them, kept to show that each property can fail.

**DurableLog** is what the archive promises its caller, without files: a record
goes from memory to durable storage, volatile records may be lost, a durable
one never is.

**Archive** is `HourlyNdjsonArchive`. A poll is the record it archives, a file
is the set of records readable from it together with the runs of the worker
that wrote into it and whether its gzip stream was ended. `step[f]` is the await the
call of feed `f` is at; `shards`, `pending`, `writeHour`, `oldHour` are the map
`#shards` and the locals of `write` and `#closeShard`. Each await is an action
with its error path beside it (`FlushShard`/`FlushFails`, ...). `Drain` is the
piped stream writing out at its leisure. `offered`, `polled`, `acked` and `failed` are ghosts of the polls. `Crash`, `Start`, `Signal`, `CloseNext`, `Exit` are
the process. `SameHourRestart` says whether the worker may be started again
inside an hour of which a finalised shard exists: with it the archive behaves
as deployed, without it as the durability argument needs it.

**PollLoops** is time: each loop is at one await (`pc`) with the time until it
is over (`timer`); `Tick` passes only while everyone waits. `Shutdown.#waiters`
is `waiters`. The database, the archive and the healthcheck are external and answer
within `StoreMax`, `RecordMax` and `CloseMax`.

**Observations** is the table and the two functions that maintain it. `Emits`
and `Emitted` are `transformFeed` for one stop, `Inserted` and `Merged` the two
halves of the SQL statement, column by column; the conversions behind two of them, a local hour and the type
of a date, are constants (`HourOf`, `DayTypeOf`). The archived polls are `log`. The repository
describes replays but has no tool for them, so `StartReplay`/`ReplayPoll` put the
polls of a shard through the same functions in order. `history` is a ghost: every row
emitted for a key.

**ScheduleCache** is `ScheduleCache` and `onDayRollover` against `loadStatic`
in another process, one action per query. A trip's cache entry names the
version its times came from and the version its calendar came from, `NULL` if none has been read. `Crash`
and `QueryFails` may come at any query.

**Retention** is days and weeks: the worker storing rows, rollups rebuilding from the raw rows
there are, the eviction job checking and dropping one week at a time, each of
them failing or not running. Rows in no partition are in the DEFAULT partition
(`stray`), which refuses a partition that would have held them (`blocked`).

**ServiceDate** is the arithmetic of `time.ts` in minutes, in a zone whose offset changes once, by
two hours at most and before 06:00. It also holds the reference: `NoonInstant`
is when the clock shows noon, `TimetableInstant` counts from twelve hours
before it. **Transform** takes one feed through the decoder and `transformFeed`:
`Decode` leaves out what it cannot name, `ResolveTrip` anchors the next entity, `EmitStop`
handles its next stop. An entity carries the date its bus really runs on
(`run`), which the code does not see and the properties use; `OnTimeAssumption`
says that a scheduled bus runs on a date of its calendar and is less than
eleven hours off. Without such a limit no date can be told from the times alone.

**ArchiveSync** is a run of `upload-archive.ts` beside the worker. A shard is the set of
records in it: equal sets are equal hashes, equal cardinalities equal sizes, and what arrives in
Drive is a part of the file or the right number of wrong bytes (`Arrivals`). `pc` is where
`main` is, `shards`, `size`, `age`, `before`, `md5`, `confirmed` are its locals; `Finalise` is the
worker's rename, and `latest` and `finals` are ghosts of it. `HashAndSelect` reads every file in
one step, because a run reads a file once and the shards of two hours are finalised independently. `MaxLag` is how
many hours after its own a shard may still be finalised, by a feed that was down; `Abort` is rclone giving up or the process
dying at any point, with anything in place of the shard on its way.

**Backup** is a run of `backup-database.ts`, nightly with pruning or on Sundays with
`--no-prune --verify-restore`. A dump is named by the time its run began and is whole or broken.
A prune lists the folder (`ListDumps`), runs the loop of `selectForRetention` as it is written, an entry of
the listing a step (`Select`, by module **Selection**, with its three sets of keys and one set of names), and
deletes the rest (`Prune`). **RetentionRules** states as sets what that loop should keep: a dump is kept for a
generation when the newer dumps have filled neither its quota nor its period. `arrived` and `dumped` are ghosts:
what uploads ever put into Drive, and what `pg_dump` finished; `succeeded` is a ghost too, the dumps of the runs that
exited with 0. Loops of deletions are one step with any part done.

**Nightly** puts the morning's jobs on one database. `RebuildStep` is
`build_day_coverage_all` statement by statement for each job that calls it: `todo` is its cursor, `row`
what `build_day_coverage` has read, `wrote` its rows that are not committed and therefore locked.
`rollup.ts` is `StartRollup`, `BuildDaily`, the rebuild, `Check`; `bus-drop`
waits for it (`Requires`, `After`) and goes on only if it succeeded; `StartDeploy` to `Publish` are
`export-site.ts` and `deploy-site.sh`. `Diagnose` is the operator's UPDATE.

**ArchiveProofs, WorkerProofs, ObservationsProofs, RetentionProofs, TransformProofs,
ArchiveSyncProofs, BackupProofs, NightlyProofs** hold the theorems (those about PollLoops and ScheduleCache,
both of `worker.ts`, are in WorkerProofs, those about ServiceDate in TransformProofs, those about Selection
in BackupProofs); **MC...** modules give values to constants.

The modules share no variables. They meet at the poll: Archive's `Write` is the
archiving of a poll whose time PollLoops accounts for and whose rows
Observations merges; the version Observations calls `bound` and changes at will
(`Rebind`) is the one ScheduleCache chooses; what Transform stores under one key of its
`byKey` is what Observations merges into a row, and its `Static` is the bound
version's index; the rows Retention stores are
Observations' rows, of which it keeps only the date and whether they count. ArchiveSync's
`Finalise` is Archive's `RenameShard`, with its replacement of a shard after a restart; that it
publishes no empty shard and no record twice is `ShardsAreNew`, proved of Archive. Nightly's
`rolled` and `evicted` are what Retention says of a day's rollup and partition; its rows are
left to Retention, where an eviction that interleaves with a rollup is checked.

## Runs

Each `.cfg` is a run; bounds are its constants.

| Run | Checks | Bounds, and why they are enough |
|---|---|---|
| `archive_fresh` | `DurabilityInv`, `ImplementsLog` | 2 feeds, 3 records, 3 hours, 2 starts, none inside an hour that has a finalised shard, R2 with deletion: two feeds interleave a rollover, an upload and a crash; three hours give a shard closed, one closing and one open |
| `archive_restart` | `ShardsDecompress`, `CleanStopIsComplete`, `FiledByHour`, `OwnRecordsStay`, `ShardsAreNew`, `SignalLeadsToExit` | 2 feeds, 2 records, 2 hours, 3 starts that may fall in one hour: a crash, a second run that moves the `.partial` aside, a third |
| `archive_overwrite` | `StoredForever`, violated | 1 feed, 2 records, 2 starts in an hour |
| `loops` | `StopBoundedByPoll`, `StopsBeforeKill`, `PollsPaced`, `SignalLeadsToEnd`, `LoopsGoOn` | 2 loops, one with an interval shorter than a poll can take and one with a longer one, so that a lost wake-up shows; 1 retry; two stop timeouts, of which one leaves too little time, so that kills happen |
| `observations` | `RowsSummariseReports`, `ScheduleFromOneVersion`, `InformationIsOnlyAdded`, `RepeatIsIdempotent`, `ReplayConverges` | 1 stop, 3 versions (two with the trip in different hours, one without it), 2 stamps, 3 polls, 1 replay: keys are independent in every definition; three polls give first, middle and last |
| `schedule` | `BoundToComplete`, `CacheMatchesVersion`, `ScheduleIsRight` | 2 publications with overlapping windows and different trips, 3 days, 3 loads, failures and crashes |
| `schedule_calendar` | `DatesMatchTimes`, violated | 2 loads: the version bound first and the one whose calendar cannot be read |
| `retention` | `EvictedIsRolledUp`, `NoStrayRows`, `RollupsNeverShrink` | 3 days, one-day weeks, lookahead 1, retention 1: rows are stored, rolled up, evicted and stored late within the run |
| `transform` | `BestReportsKept`, `DelaysAreReal`, `BucketsFollowTimetable` | 55 entities and every feed of two of them, 2 headers: a night trip with a stop on either side of midnight, on the days before and of Chicago's spring change, 20 minutes early, on time and 650 late, live, planned or detoured, with each way a stop can lack what is needed; two entities are enough for a collision of keys, which is decided pairwise |
| `archive_sync` | `ShardsSafe`, `DamageIsReported`, `ShardsGetCopied` | 4 hours, 2 records, pruning after 2 hours, runs of at most 1, shards finalised an hour late, restarts inside an hour: a shard is replaced between scan and confirmation, another is old enough to be pruned in the same run, a third run repairs what the second broke |
| `backup` | `GenerationsKept`, `NewestDumpSafe`, `SuccessMeansBackup`, `SelectionIsTheRule` | 6 runs from 29 December 2026, two on the first day and then every second day, quotas 2, 1, 2: one ISO week in two months and two years, quotas that fill at different entries of one listing, share dumps and expire, any run failing at any step |
| `nightly` | `EvictedDaysStayOnRecord`, `HeadlineIsCovered`, `RebuildsNeverDeadlock`, `DiagnosisKept`, `GapsLeaveTheFigures`, `EvictionAwaitsDiagnosis` | 3 dates of which two end, 2 stop events, retention 1, 1 failure of the deploy: two days to rebuild in order, one of them evictable while the other is yesterday |

Deadlock is checked except in the archive and loop runs, whose process really
stops when the bound on its starts is used up or it has been told to, in
`transform`, which ends when the function returns, and in `backup` and `nightly`, whose runs and days
are bounded. A mutual wait for row locks is stated by `RebuildsNeverDeadlock` instead.

Types (`TypeOK`, `CacheTypeOK`) are proved in every module that has proofs, alone or in its inductive invariant, and no
run checks them; nor does a run check `RemoteBounded`, which is proved of any quotas.

**Fairness.** `Archive!FairSpec`: each call in progress goes on, and closing
goes on (`WF`). Fetches have timeouts and bounded retries, file operations
return, and nothing in a loop waits for another loop. Nothing obliges
a poll to begin, a signal to come or a crash to happen. `PollLoops!FairSpec`: runnable
code runs, timers fire (`Tick`), and systemd kills when its timeout is over.
In these two no strong fairness is needed: no action is ever disabled by another actor for
good except by the end of the process.

`ArchiveSync!FairSpec`: the timer starts runs and runs end (`WF(Sync)`), and the listing, the
hashing and the upload of a shard do not fail every time they are tried (`SF`): rclone retries, and
a failed run is repeated the next day from the files there are. The worker is under no obligation.
`Nightly!FairSpec`: the timer starts `bus-deploy` and its steps are taken, and so are `bus-rollup`'s
(`WF`); `DeployFails` is bounded by `MaxFails`, since `GapsLeaveTheFigures` needs one export that succeeds
after the diagnosis. `SF(UpsertDay("deploy"))`: PostgreSQL hands a released row
lock to the one that waits for it. `ScheduleCache`, `Observations`, `Retention`, `Transform` and `Backup` are
checked for safety only.

## Disagreements between the code and its documents

Two runs end in a violation, each of a statement the repository makes.

1. `archive_overwrite`: after a clean stop and a restart inside the same hour,
   the rename in `#closeShard` (`archive.ts:231`) replaces the finalised shard; its
   polls are lost. The exclusive open guards the `.partial` name only.
2. `schedule_calendar`: the rollover notes its day, and `initialise` its
   version, before their queries; if a query then fails, the rollover is not tried
   again that day, and service dates of the version bound before meet stop times of the new one, for trips
   whose service_id both publications use. A worker that has read no calendar yet stores such trips
   unmatched (`transform.ts:263-284`), which the property allows.

Met while modelling, and visible in the modules, but not stated by a run:

- `stat` is the one await of `#closeShard` outside a try (`archive.ts:240`): if it fails while `close()` goes
  through the shards, the rest stay `.partial` and the process ends (`StatFails` in Archive). `CleanStopIsComplete`
  excepts I/O errors, and no other property is about it.
- The sleep before a retry cannot be cut by `Shutdown` (`fetch.ts:89`): with
  the deployed 4 retries, 20 s attempts and backoff up to 8 s, one poll in
  flight at SIGTERM can take longer than `TimeoutStopSec=60`.
- A stop update without an arrival is dropped before its SKIPPED is stored
  (`transform.ts:149`): the row stays SCHEDULED and is counted.
- `load-static --force` deletes the version a running worker is bound to
  (`load.ts:151`; `Forced` in ScheduleCache, with which `BoundToComplete` fails).
- A backfill past the retention rebuilds rollups from evicted rows
  (`rollup.ts:43`; `BackfillDays` in Retention, with which `RollupsNeverShrink` fails).
- A day without a countable row has no rollup row however often it is rolled
  up, so the guard refuses its week for ever (`partitions.ts:95`).
- `observed_arrival` is the last poll *stored*, not the newest (`upsert.ts:130`, whose comment at 10-13
  says newest): replaying an older shard puts an older prediction back.
  `ReplayConverges` shows what does hold: a replay that reaches the newest poll repairs the row.
- The eviction guard asks for daily rollups (`partitions.ts:95`), `sql/003_rollups.sql:24-25` for
  monthly ones, and no timer runs `rollup.ts --monthly`.
- A stray row makes creating its week's partition fail (`partitions.ts:51`; `blocked` in Retention), and with it every
  `ensurePartitions` whose window includes that week, while `partitions.ts:10` calls strays a warning sign.
- `upload-archive.ts:290-291` says that it only ever adds. `copyto` replaces a good remote shard by the
  shard that a restart inside the hour left in its place, and a listing without hashes sends everything
  again over good copies. Shards moved aside as `.partial.<ts>` are never uploaded.
- A shard the confirmation does not find in the listing, or without a hash, leaves the exit code at 0
  (`upload-archive.ts:311`, `:318`): `DamageIsReported` excepts the latter.
- `backup-database.ts:44-45` says that a deletion requires a matching MD5: the retention looks at
  names only, runs when the new dump is unconfirmed, and a broken newest dump stands for its periods: a second run
  on a day whose upload is broken deletes the day's first, confirmed dump, and exits with 1.
  `:46` and `:264` say that a local dump goes once Drive has it: older ones go on the strength of the newest one's copy,
  and the files of failed dumps count among the two kept. `NewestDumpSafe`,
  `GenerationsKept` and `SuccessMeansBackup` are what holds.
- `verifyRestore` compares `rollup_daily` and the static tables without the watermark
  it uses for observations: a rollup or a load meanwhile is a mismatch (`sourceStable` in Backup).
- `rollup.ts:64` says that the most recent date is checked; `dates.at(-1)` is a backfill's oldest.
- A day without any observation gets no `day_coverage` row (`005_coverage.sql:156`), so that a total outage raises no
  alarm, although `rollup.ts:71` says a gap is caught the next morning; `EvictionAwaitsDiagnosis` excepts it.
- Coverage of old days is computed again against the newest static version (`005_coverage.sql:69`), whose
  calendar may not reach back to them; `005_coverage.sql:19-22` speaks of the schedule of that date.
- `export-site.ts:432-434` says that the headline skips known gaps and that a day becomes eligible once flagged; the
  query looks at `coverage_pct` alone. So a diagnosed day over the limit may be the headline (`HeadlineIsCovered` speaks of
  coverage), and the export's snapshot and totals still count diagnosed days, which leave the serving tier only
  (`GapsLeaveTheFigures`).
- `bus-drop.timer` says 15 days of retention, `bus-drop.service` 400, and its drop-in runs `--retain=10`.
- `app.js:765` paints a stop's page when its data arrive, whatever page the visitor has gone to since.

## Proofs

`tlapm` checks every leaf; nothing is assumed beyond the named assumptions of
the modules and the hypotheses below. SMT and Zenon prove the leaves, PTL the
temporal steps.

- **ArchiveProofs.** `TypeCorrect`: `Spec => [](TypeOK /\ CallShape)`.
  `CallShape` is what makes types inductive: where `shards`, `pending`,
  `writeHour` and `oldHour` stand at each await. `ShardsAlwaysDecompress` needs no
  hypothesis: restarts inside an hour are allowed. The rest is under `~SameHourRestart`:
  `DurabilityInv` adds that a
  record is in one place in memory (`RecordsApart`), that no final name is
  taken for a shard still to be finalised (`NothingToReplace`), and that an
  unlinked file has its copy (`CopiesAgree`). From it `StoredRecordsStay` and
  `ArchiveImplementsLog`: every step is a step of `DurableLog` or a stutter. Run `archive_overwrite`
  shows that the hypothesis is needed. `OwnInv` is what holds without it, of the files of the run in progress:
  its final shards are of earlier hours than anything it still writes, so that only earlier runs' shards
  can be replaced. Hence `RunKeepsItsRecords`, and with `AckedInv` (where a record whose write resolved
  can be) `CleanStopLosesNothing`.
  `RecordsAreFiledByHour` follows a record from the clock of its fetch to its file: the hour of the call, of the open
  shard and of the shard being closed is that of what they hold (`CallFiled`), so what is drained or flushed later,
  or given another name, stays under its hour.
  `FinalShardsAreNew` adds where records are not yet (`Unpublished`: neither in memory nor in a `.partial` is there
  one that a finalised shard of the feed has) and that an open shard is never left empty (`Filled`: the call that
  opens one compresses its record before it ends). Its hard case is a rename during a write: the record that waits
  for it is of a later hour (`RenamedApart`, from `CallFiled`), so it is not in the shard that gets its final name.
- **WorkerProofs**, of PollLoops. `LoopsInvariant` relates, for each loop, the time it may
  still take to the time since SIGTERM: their sum never exceeds `PollBound`. `StopIsBounded`
  follows, and `EnoughTimeToStop`: no kill where
  `PollBound + CloseMax < stopTimeout`. The deployed constants do not satisfy that.
  `NoPollComesEarly` (`PollsPaced`) rests on `Paced`: what a loop is still going to sleep and the
  time since its poll started always make up the interval, unless it is stopping.
- **WorkerProofs**, of ScheduleCache. `CacheTypes` holds with `--force` too. The rest is under `~Forced`, as
  `load.ts:151` lets nothing but `--force` replace a complete version (`LoaderKeepsVersions`).
  `CacheInv` is about the time between two queries: complete versions have all
  their tables and unique ids (`VersionsAreSound`), so whatever the loader does, the version bound is
  one and the same (`BoundIsOne`); what the first query of `#loadTrips` found is still what there is when the second
  one answers (`ServicesAreFresh`); an initialise that is on its way has chosen for its day (`Choosing`), and
  between polls the choice stands (`SettledIsRight`). `BoundVersionIsComplete`,
  `CacheIsOfOneVersion` and `ScheduleIsOfTheDay` follow for any publications, days and trips.
- **ObservationsProofs.** `ObservationsInvariant`: types, and a row summarises
  its key's history. `RowsAreSummaries`, `OneVersionPerRow`, `NothingIsForgotten`
  hold for any keys, versions, updates and any number of polls and replays. `RepeatChangesNothing`
  needs that a row still shows what was stored last (`RowsShowTheLast`); `ReplayRepairsRows` that,
  while no poll is archived behind its back, a replay's rows show the newest poll replayed so far
  (`Converging`).
- **RetentionProofs.** `EvictionIsLossless` and `RebuildsAreSafe` from one
  invariant, under the assumption `OnTime` of that module: rows come at most
  a day late, rollups rebuild days only within the retention. `NoRowIsStray` needs the weeks a running
  worker has ready (`Covered`): every week from the one before its service day up to the lookahead has a
  partition or is past retention, so no row is stray and no partition is refused, for any length of week and any
  lookahead and retention of at least one (`Lookahead`).
- **TransformProofs.** Under `ZoneAssumption`, both guesses of
  `serviceDayStartMs` lie on the same side of a change of the clocks
  (`GuessesAgree`), so one refinement is enough: `ServiceDayIsNoonBased`. Two
  service days start at least 22 hours apart, hence `ResolveFindsRun`: within
  eleven hours there is one nearest date, and it is among the three candidates.
  Under `OnTimeAssumption`, for any timetable, calendar
  and feed, and changes in either direction, `DateInvariant` says that an
  anchored trip has the date of its run and what a scheduled entry was computed from;
  `StoredDelaysAreReal` and `BucketsAreTimetables` follow. `BestInvariant` adds
  the positions of the loops and the preference stored with an entry, and gives `BestReportIsKept`.
- **ArchiveSyncProofs.** `ShardsSafe` needs what a run knows and since when (`Snapshot`): the hash of a
  shard older than the run (`Settled`) is that of the shard last finalised, because the worker no
  longer touches its hour; only settled shards are unlinked, since `MaxLag + MaxRun <= PruneAge`
  (`SyncAssumption`; `--prune-days` is in days, a run and a lag in hours). `Damage` says that a damaged object always still has its file, which the next
  scan finds: hence `DamageIsSeen`.
- **BackupProofs.** `Newest`: a run's dump is newer than everything there is. `RetainedAmongFewer` is the
  heart of `GenerationsAreKept`: a dump retained among many is retained among any fewer that
  include it, so nightly decisions over what is left agree with one over everything. With it, and because a confirmed dump
  arrived whole and nothing is uploaded under its name again (`Succeeded`), `SuccessIsABackup` says how long the dump of a
  run that exited with 0 stays. `KeptIsBounded` injects
  what a generation keeps into its periods, and the newest dump, kept by all three, gives `RemoteIsBounded`.
  `LoopFollowsTheRule`: of the dumps looked at so far a generation has either all the keys or its quota of
  them (`KeysSeen`), so it takes the next dump exactly when the rule keeps it (`TakesWhatIsKept`). The induction over
  the listing is one over steps, which is why the loop is modelled as steps. `SelectingInv` gives it to the prune, which so
  deletes by the rule (`VictimsByTheRule`). `WeekKeysAreWeeks`: equal keys are the same week from Monday to Sunday, across years.
- **NightlyProofs.** `RebuildInv`: a rebuild has, between `todo`, `row` and `wrote`, every observed day there
  is, in order, and counts it right while it holds the table; `LockInv`: an uncommitted row is one job's,
  and knows a reason its day has; `RecordInv`: a committed count is what was observed, and after bus-rollup's
  rebuild every observed day is on record; `DropInv`: while bus-drop runs, yesterday is
  explained; `SiteInv`: headlines are of covered days. Each of the six properties but
  `GapsLeaveTheFigures`, which is liveness, follows for any number of days and stop events.

## Only model-checked

Liveness (`SignalLeadsToExit`, `SignalLeadsToEnd`, `LoopsGoOn`, `ShardsGetCopied`,
`GapsLeaveTheFigures`): temporal reasoning under fairness and ENABLED is out of this prover's reach.
`StoredForever` and `DatesMatchTimes` are violated. Every other property of a run is a theorem.

## Not modelled

Protobuf and CSV parsing, the statistics' arithmetic, the contents of the exported files, the pages `app.js` draws,
reports, configuration and plumbing: pure functions or I/O without a state in which steps could go
wrong. Live status and the heartbeats are single unawaited or shell-driven pings on which nothing depends.
Compression, SQL, R2, rclone and systemd are external and modelled by what
they do for their caller. Clocks that go backwards and lost fsyncs are left out. Nightly has one
static version with service every day and partitions of one day; an operator's `rollup.ts --date` and
`--backfill` are left out of it (Retention has them). Two runs of a backup or of a sync never
overlap: systemd runs a service once at a time, and the two backup services start hours apart.

## Plan

In this order; the first nine are done.

1. Archive, with DurableLog as its abstract specification: the data nobody can get back.
2. PollLoops. 3. Observations. 4. ScheduleCache. 5. Retention.
6. ServiceDate and Transform: local time and daylight saving, the nearest
   service date against a reference definition, and the collapse of duplicate keys.
7. ArchiveSync: selection, upload, confirmation and pruning of `upload-archive.ts` beside the writer.
8. Backup: retention by generation, confirmation, cleanup and exit codes.
9. Nightly: coverage, its alarm, the units that require one another, and the publication of the site.
10. Live status and heartbeats, if they prove worth a module; the navigation of `app.js`.

To come: the rest of what ArchiveSync assumes of the worker, as an abstract disk that Archive implements for one
feed and whose steps are ArchiveSync's `Worker`; the rows of `transform.ts` for a stop that turns from
scheduled to skipped.
