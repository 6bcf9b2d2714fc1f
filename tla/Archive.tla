------------------------------ MODULE Archive ------------------------------
(***************************************************************************)
(* HourlyNdjsonArchive (src/archive/archive.ts): one compressed file per   *)
(* feed and UTC hour, written as <hour>.partial, renamed to its final name *)
(* when its stream has been ended, then optionally uploaded to R2.  The    *)
(* three poll loops of worker.ts call write() concurrently, one call at a  *)
(* time per feed; close() runs after all loops have ended; the process may *)
(* be killed between any two steps and started again by systemd.           *)
(*                                                                         *)
(* A poll is abstracted to the record it archives.  The steps of write()   *)
(* and #closeShard() are the pieces of code between two awaits.            *)
(***************************************************************************)
EXTENDS Integers

CONSTANTS
    Feeds,              \* the feeds, one poll loop each
    Records,            \* the polled payloads; the size bounds a run
    MaxHour,            \* bound: UTC hours are 0..MaxHour
    MaxRuns,            \* bound: number of times the worker is started
    HasUploader,        \* ARCHIVE_SINK=r2
    DeleteLocal,        \* deleteLocalAfterUpload
    SameHourRestart     \* whether the worker may be started again inside an
                        \* hour of which a finalised shard already exists

ASSUME BoundsAssumption ==
    /\ MaxHour \in Nat
    /\ MaxRuns \in Nat
ASSUME SwitchAssumption ==
    /\ HasUploader \in BOOLEAN
    /\ DeleteLocal \in BOOLEAN
    /\ SameHourRestart \in BOOLEAN

Hours == 0..MaxHour
NoHour == -1

(* A file is the records readable from it, the runs of the worker whose    *)
(* streams it holds, and whether its last stream was ended (an unended     *)
(* gzip member is truncated).  An absent file has no writer.               *)
File == [recs : SUBSET Records, runs : SUBSET (0..MaxRuns), ended : BOOLEAN]
Absent == [recs |-> {}, runs |-> {}, ended |-> FALSE]
Exists(file) == file.runs # {}

Extended(file, recs) == [file EXCEPT !.recs = @ \cup recs]
Ended(file) == [file EXCEPT !.ended = TRUE]
Put(files, f, h, file) == [files EXCEPT ![f][h] = file]

Steps == {"idle", "fetch", "flush", "rename", "stat", "upload", "unlink",
          "open", "compress"}

VARIABLES
    proc,       \* "down", "up", "stopping" (signalled), "closing" (in close())
    run,        \* how many times the worker has been started
    hour,       \* the current UTC hour
    step,       \* [feed -> next step of the poll or of #closeShard]
    shards,     \* [feed -> hour of the open shard]: the map #shards
    buffer,     \* [feed -> records the compressor holds and the disk does not]
    pending,    \* [feed -> the record write() was called with, as a set]
    writeHour,  \* [feed -> hour key of that record]
    oldHour,    \* [feed -> hour key of the shard being closed]
    partial,    \* [feed -> [hour -> the .partial file]]
    salvaged,   \* the files moved aside to .partial.<timestamp>
    final,      \* [feed -> [hour -> the finalised shard]]
    r2,         \* [feed -> [hour -> the uploaded object]]
    offered,    \* records fetched so far, by any run
    polled,     \* [feed -> [hour -> those of them it fetched in that hour]]
    acked,      \* records whose write() resolved in this run
    failed      \* whether an I/O error or a kill happened in this run

procVars == <<proc, run>>
callVars == <<step, pending, writeHour, oldHour>>
diskVars == <<partial, salvaged, final>>
ghostVars == <<offered, polled, acked, failed>>
vars == <<procVars, hour, callVars, shards, buffer, diskVars, r2, ghostVars>>

Idle == \A f \in Feeds : step[f] = "idle"

Init ==
    /\ proc = "down"
    /\ run = 0
    /\ hour = 0
    /\ step = [f \in Feeds |-> "idle"]
    /\ shards = [f \in Feeds |-> NoHour]
    /\ buffer = [f \in Feeds |-> {}]
    /\ pending = [f \in Feeds |-> {}]
    /\ writeHour = [f \in Feeds |-> NoHour]
    /\ oldHour = [f \in Feeds |-> NoHour]
    /\ partial = [f \in Feeds |-> [h \in Hours |-> Absent]]
    /\ salvaged = {}
    /\ final = [f \in Feeds |-> [h \in Hours |-> Absent]]
    /\ r2 = [f \in Feeds |-> [h \in Hours |-> Absent]]
    /\ offered = {}
    /\ polled = [f \in Feeds |-> [h \in Hours |-> {}]]
    /\ acked = {}
    /\ failed = FALSE

-----------------------------------------------------------------------------
(* The call in progress of feed f goes on with step s, or ends.            *)
Goto(f, s) ==
    /\ step' = [step EXCEPT ![f] = s]
    /\ UNCHANGED <<pending, writeHour>>

EndCall(f) ==
    /\ step' = [step EXCEPT ![f] = "idle"]
    /\ pending' = [pending EXCEPT ![f] = {}]
    /\ writeHour' = [writeHour EXCEPT ![f] = NoHour]

(* #closeShard returns: to #shardFor, which opens the next shard, or to    *)
(* close(), which goes on with the next open shard.                        *)
ClosedShard(f) ==
    /\ oldHour' = [oldHour EXCEPT ![f] = NoHour]
    /\ IF pending[f] = {} THEN EndCall(f) ELSE Goto(f, "open")

(* Mutant: #closeShard leaves the shard in the map.                        *)
EnterCloseShardKeeping(f) ==
    /\ shards[f] # NoHour
    /\ oldHour' = [oldHour EXCEPT ![f] = shards[f]]
    /\ step' = [step EXCEPT ![f] = "flush"]
    /\ UNCHANGED shards

(* Taking a shard out of #shards and entering #closeShard with it.         *)
EnterCloseShard(f) ==
    /\ shards[f] # NoHour
    /\ oldHour' = [oldHour EXCEPT ![f] = shards[f]]
    /\ shards' = [shards EXCEPT ![f] = NoHour]
    /\ step' = [step EXCEPT ![f] = "flush"]

BeginPoll(f) ==
    /\ proc = "up"
    /\ step[f] = "idle"
    /\ Goto(f, "fetch")
    /\ UNCHANGED <<procVars, hour, oldHour, shards, buffer, diskVars, r2, ghostVars>>

FetchFails(f) ==
    /\ step[f] = "fetch"
    /\ EndCall(f)
    /\ UNCHANGED <<procVars, hour, oldHour, shards, buffer, diskVars, r2, ghostVars>>

(* write(): the hour key is taken from the clock once, and #shardFor       *)
(* reuses the open shard, opens a first one, or rolls the hour over.       *)
Write(f, r) ==
    /\ step[f] = "fetch"
    /\ r \notin offered
    /\ offered' = offered \cup {r}
    /\ polled' = [polled EXCEPT ![f][hour] = @ \cup {r}]
    /\ pending' = [pending EXCEPT ![f] = {r}]
    /\ writeHour' = [writeHour EXCEPT ![f] = hour]
    /\ \/ /\ shards[f] = hour
          /\ step' = [step EXCEPT ![f] = "compress"]
          /\ UNCHANGED <<shards, oldHour>>
       \/ /\ shards[f] = NoHour
          /\ step' = [step EXCEPT ![f] = "open"]
          /\ UNCHANGED <<shards, oldHour>>
       \/ /\ shards[f] # hour
          /\ EnterCloseShard(f)
    /\ UNCHANGED <<procVars, hour, buffer, diskVars, r2, acked, failed>>

(* Mutants: an existing .partial is truncated ("w"); it is appended to     *)
(* ("a").                                                                  *)
OpenShardTruncating(f) ==
    /\ step[f] = "open"
    /\ partial' = Put(partial, f, writeHour[f],
                      [recs |-> {}, runs |-> {run}, ended |-> FALSE])
    /\ shards' = [shards EXCEPT ![f] = writeHour[f]]
    /\ Goto(f, "compress")
    /\ UNCHANGED <<procVars, hour, oldHour, buffer, salvaged, final, r2, ghostVars>>

OpenShardAppending(f) ==
    /\ step[f] = "open"
    /\ partial' = [partial EXCEPT ![f][writeHour[f]].runs = @ \cup {run}]
    /\ shards' = [shards EXCEPT ![f] = writeHour[f]]
    /\ Goto(f, "compress")
    /\ UNCHANGED <<procVars, hour, oldHour, buffer, salvaged, final, r2, ghostVars>>

(* Mutant: the hour is that of the clock when the old shard is closed.     *)
OpenShardNow(f) ==
    /\ step[f] = "open"
    /\ salvaged' = salvaged \cup
           (IF Exists(partial[f][hour]) THEN {partial[f][hour]} ELSE {})
    /\ partial' = Put(partial, f, hour, [recs |-> {}, runs |-> {run}, ended |-> FALSE])
    /\ shards' = [shards EXCEPT ![f] = hour]
    /\ Goto(f, "compress")
    /\ UNCHANGED <<procVars, hour, oldHour, buffer, final, r2, ghostVars>>

(* The rest of #shardFor: a .partial of the same hour is moved aside, and  *)
(* a new one is created exclusively ("wx").                                *)
OpenShard(f) ==
    LET h == writeHour[f] IN
    /\ step[f] = "open"
    /\ salvaged' = salvaged \cup
           (IF Exists(partial[f][h]) THEN {partial[f][h]} ELSE {})
    /\ partial' = Put(partial, f, h, [recs |-> {}, runs |-> {run}, ended |-> FALSE])
    /\ shards' = [shards EXCEPT ![f] = h]
    /\ Goto(f, "compress")
    /\ UNCHANGED <<procVars, hour, oldHour, buffer, final, r2, ghostVars>>

(* mkdirSync or renameSync throws: write() rejects, the poll fails.        *)
OpenFails(f) ==
    /\ step[f] = "open"
    /\ EndCall(f)
    /\ failed' = TRUE
    /\ UNCHANGED <<procVars, hour, oldHour, shards, buffer, diskVars, r2,
                   offered, polled, acked>>

(* The compressor has taken the line: write() resolves.  Nothing has been  *)
(* forced to disk.                                                         *)
Compress(f) ==
    /\ step[f] = "compress"
    /\ buffer' = [buffer EXCEPT ![f] = @ \cup pending[f]]
    /\ acked' = acked \cup pending[f]
    /\ EndCall(f)
    /\ UNCHANGED <<procVars, hour, oldHour, shards, diskVars, r2, offered, polled, failed>>

(* The piped file stream writes out what the compressor has produced.      *)
Drain(f) ==
    /\ buffer[f] # {}
    /\ shards[f] # NoHour
    /\ partial' = Put(partial, f, shards[f],
                      Extended(partial[f][shards[f]], buffer[f]))
    /\ buffer' = [buffer EXCEPT ![f] = {}]
    /\ UNCHANGED <<procVars, hour, callVars, shards, salvaged, final, r2, ghostVars>>

-----------------------------------------------------------------------------
(* #closeShard, one action per await, and beside each the error path.      *)

FlushShard(f) ==
    LET h == oldHour[f] IN
    /\ step[f] = "flush"
    /\ partial' = Put(partial, f, h, Ended(Extended(partial[f][h], buffer[f])))
    /\ buffer' = [buffer EXCEPT ![f] = {}]
    /\ Goto(f, "rename")
    /\ UNCHANGED <<procVars, hour, oldHour, shards, salvaged, final, r2, ghostVars>>

FlushFails(f) ==
    /\ step[f] = "flush"
    /\ buffer' = [buffer EXCEPT ![f] = {}]
    /\ ClosedShard(f)
    /\ failed' = TRUE
    /\ UNCHANGED <<procVars, hour, shards, diskVars, r2, offered, polled, acked>>

(* rename(2) replaces whatever already has the final name.                 *)
RenameShard(f) ==
    LET h == oldHour[f] IN
    /\ step[f] = "rename"
    /\ final' = Put(final, f, h, partial[f][h])
    /\ partial' = Put(partial, f, h, Absent)
    /\ Goto(f, "stat")
    /\ UNCHANGED <<procVars, hour, oldHour, shards, buffer, salvaged, r2, ghostVars>>

RenameFails(f) ==
    /\ step[f] = "rename"
    /\ ClosedShard(f)
    /\ failed' = TRUE
    /\ UNCHANGED <<procVars, hour, shards, buffer, diskVars, r2, offered, polled, acked>>

StatShard(f) ==
    /\ step[f] = "stat"
    /\ IF HasUploader
       THEN Goto(f, "upload") /\ UNCHANGED oldHour
       ELSE ClosedShard(f)
    /\ UNCHANGED <<procVars, hour, shards, buffer, diskVars, r2, ghostVars>>

UploadShard(f) ==
    LET h == oldHour[f] IN
    /\ step[f] = "upload"
    /\ r2' = Put(r2, f, h, final[f][h])
    /\ IF DeleteLocal
       THEN Goto(f, "unlink") /\ UNCHANGED oldHour
       ELSE ClosedShard(f)
    /\ UNCHANGED <<procVars, hour, shards, buffer, diskVars, ghostVars>>

(* Mutant: a failed upload goes on to delete the local copy.               *)
UploadFailsUnlinking(f) ==
    /\ step[f] = "upload"
    /\ Goto(f, "unlink")
    /\ UNCHANGED <<procVars, hour, oldHour, shards, buffer, diskVars, r2, ghostVars>>

(* The upload throws, with or without the object having been stored: the   *)
(* shard is kept locally and never uploaded again.                         *)
UploadFails(f) ==
    /\ step[f] = "upload"
    /\ r2' \in {r2, Put(r2, f, oldHour[f], final[f][oldHour[f]])}
    /\ ClosedShard(f)
    /\ UNCHANGED <<procVars, hour, shards, buffer, diskVars, ghostVars>>

UnlinkShard(f) ==
    /\ step[f] = "unlink"
    /\ final' = Put(final, f, oldHour[f], Absent)
    /\ ClosedShard(f)
    /\ UNCHANGED <<procVars, hour, shards, buffer, partial, salvaged, r2, ghostVars>>

UnlinkFails(f) ==
    /\ step[f] = "unlink"
    /\ ClosedShard(f)
    /\ UNCHANGED <<procVars, hour, shards, buffer, diskVars, r2, ghostVars>>

-----------------------------------------------------------------------------
(* The process.                                                            *)

(* Every in-memory variable of the worker is gone.                         *)
LoseMemory ==
    /\ step' = [f \in Feeds |-> "idle"]
    /\ shards' = [f \in Feeds |-> NoHour]
    /\ buffer' = [f \in Feeds |-> {}]
    /\ pending' = [f \in Feeds |-> {}]
    /\ writeHour' = [f \in Feeds |-> NoHour]
    /\ oldHour' = [f \in Feeds |-> NoHour]

(* SIGKILL, an uncaught stream error, power loss.                          *)
Crash ==
    /\ proc # "down"
    /\ proc' = "down"
    /\ LoseMemory
    /\ failed' = TRUE
    /\ UNCHANGED <<run, hour, diskVars, r2, offered, polled, acked>>

(* stat() throws, outside any try: the poll fails, and in close() the      *)
(* whole process exits with the remaining shards unclosed.                 *)
StatFails(f) ==
    /\ step[f] = "stat"
    /\ failed' = TRUE
    /\ \/ /\ proc # "closing"
          /\ EndCall(f)
          /\ oldHour' = [oldHour EXCEPT ![f] = NoHour]
          /\ UNCHANGED <<proc, shards, buffer>>
       \/ /\ proc = "closing"
          /\ proc' = "down"
          /\ LoseMemory
    /\ UNCHANGED <<run, hour, diskVars, r2, offered, polled, acked>>

Start ==
    /\ proc = "down"
    /\ run < MaxRuns
    /\ \/ SameHourRestart
       \/ \A f \in Feeds : ~Exists(final[f][hour]) /\ ~Exists(r2[f][hour])
    /\ proc' = "up"
    /\ run' = run + 1
    /\ acked' = {}
    /\ failed' = FALSE
    /\ UNCHANGED <<hour, callVars, shards, buffer, diskVars, r2, offered, polled>>

Signal ==
    /\ proc = "up"
    /\ proc' = "stopping"
    /\ UNCHANGED <<run, hour, callVars, shards, buffer, diskVars, r2, ghostVars>>

(* Promise.all(loops) has resolved.                                        *)
BeginClose ==
    /\ proc = "stopping"
    /\ Idle
    /\ proc' = "closing"
    /\ UNCHANGED <<run, hour, callVars, shards, buffer, diskVars, r2, ghostVars>>

(* close() closes the open shards one after the other.                     *)
CloseNext(f) ==
    /\ proc = "closing"
    /\ Idle
    /\ EnterCloseShard(f)
    /\ UNCHANGED <<procVars, hour, pending, writeHour, buffer, diskVars, r2, ghostVars>>

(* Mutant: main() does not wait for archive.close().                       *)
ExitUnclosed ==
    /\ proc = "closing"
    /\ proc' = "down"
    /\ LoseMemory
    /\ UNCHANGED <<run, hour, diskVars, r2, ghostVars>>

Exit ==
    /\ proc = "closing"
    /\ Idle
    /\ \A f \in Feeds : shards[f] = NoHour
    /\ proc' = "down"
    /\ UNCHANGED <<run, hour, callVars, shards, buffer, diskVars, r2, ghostVars>>

HourPasses ==
    /\ hour < MaxHour
    /\ hour' = hour + 1
    /\ UNCHANGED <<procVars, callVars, shards, buffer, diskVars, r2, ghostVars>>

-----------------------------------------------------------------------------
CloseStep(f) ==
    \/ FlushShard(f) \/ FlushFails(f)
    \/ RenameShard(f) \/ RenameFails(f)
    \/ StatShard(f) \/ StatFails(f)
    \/ UploadShard(f) \/ UploadFails(f)
    \/ UnlinkShard(f) \/ UnlinkFails(f)

CallStep(f) ==
    \/ FetchFails(f)
    \/ \E r \in Records : Write(f, r)
    \/ OpenShard(f) \/ OpenFails(f)
    \/ Compress(f)
    \/ CloseStep(f)

CloseArchive ==
    \/ BeginClose
    \/ \E f \in Feeds : CloseNext(f)
    \/ Exit

Next ==
    \/ \E f \in Feeds : BeginPoll(f) \/ CallStep(f) \/ Drain(f)
    \/ Signal \/ CloseArchive
    \/ Crash \/ Start
    \/ HourPasses

Spec == Init /\ [][Next]_vars

(* Every await ends: a fetch is bounded by its timeout and retry count,    *)
(* file operations return, and the event loop runs what is runnable.       *)
FairSpec ==
    /\ Spec
    /\ \A f \in Feeds : WF_vars(CallStep(f))
    /\ WF_vars(CloseArchive)
-----------------------------------------------------------------------------
(* Properties.                                                             *)

Files ==
    salvaged
        \cup {partial[f][h] : f \in Feeds, h \in Hours}
        \cup {final[f][h] : f \in Feeds, h \in Hours}
        \cup {r2[f][h] : f \in Feeds, h \in Hours}

Volatile == UNION {buffer[f] : f \in Feeds}
Durable == UNION {file.recs : file \in Files}

(* The variables have the types of the code's fields.                      *)
TypeOK ==
    /\ proc \in {"down", "up", "stopping", "closing"}
    /\ run \in 0..MaxRuns
    /\ hour \in Hours
    /\ step \in [Feeds -> Steps]
    /\ shards \in [Feeds -> Hours \cup {NoHour}]
    /\ buffer \in [Feeds -> SUBSET Records]
    /\ pending \in [Feeds -> SUBSET Records]
    /\ writeHour \in [Feeds -> Hours \cup {NoHour}]
    /\ oldHour \in [Feeds -> Hours \cup {NoHour}]
    /\ partial \in [Feeds -> [Hours -> File]]
    /\ salvaged \in SUBSET File
    /\ final \in [Feeds -> [Hours -> File]]
    /\ r2 \in [Feeds -> [Hours -> File]]
    /\ offered \in SUBSET Records
    /\ polled \in [Feeds -> [Hours -> SUBSET Records]]
    /\ acked \in SUBSET Records
    /\ failed \in BOOLEAN

(* Every file holds the stream of one run only (two concatenated streams,  *)
(* the first truncated, do not decompress), and a file under its final     *)
(* name, locally or in R2, holds a stream that was ended and flushed:      *)
(* however often the worker is killed or restarted inside an hour, the     *)
(* readers of the archive never meet a truncated shard.                    *)
ShardsDecompress ==
    /\ \A file \in Files : Exists(file) => \E w \in 0..MaxRuns : file.runs = {w}
    /\ \A f \in Feeds, h \in Hours :
           \A file \in {final[f][h], r2[f][h]} : Exists(file) => file.ended

(* A shard holds nothing but polls of its feed that were fetched in its    *)
(* hour: the clock may go on while write() waits for the old shard to be   *)
(* closed, what the compressor holds comes out later still, and the key    *)
(* under which a record is looked for in R2 or Drive is its hour.          *)
FiledByHour ==
    \A f \in Feeds, h \in Hours :
        partial[f][h].recs \cup final[f][h].recs \cup r2[f][h].recs \subseteq polled[f][h]

(* The records of the finalised shards, here or in R2.                     *)
FinalRecords ==
    UNION {final[f][h].recs \cup r2[f][h].recs : f \in Feeds, h \in Hours}

(* A shard that gets its final name is new: it has records, and none that  *)
(* is in a finalised shard already.  Restarts, retried closes and files    *)
(* moved aside publish nothing twice and no empty shard: module            *)
(* ArchiveSync takes the worker at its word there.                         *)
ShardsAreNew ==
    [][\A f \in Feeds, h \in Hours :
          final'[f][h] \notin {final[f][h], Absent} =>
              final'[f][h].recs # {} /\ final'[f][h].recs \cap FinalRecords = {}]_vars

(* A run that was stopped by a signal and met no I/O error leaves none of  *)
(* its polls in memory or in a .partial file: every record whose write()   *)
(* resolved, in whatever hour, is in a finalised shard or in R2.           *)
CleanStopIsComplete ==
    proc = "down" /\ run > 0 /\ ~failed => acked \subseteq FinalRecords

(* The records stored by the run in progress.                              *)
OwnRecords == UNION {file.recs : file \in {g \in Files : run \in g.runs}}

(* A run never destroys what it has itself put on disk: hour rollovers,    *)
(* renames, failed or repeated uploads and the deletion of the local copy  *)
(* leave each of its stored records in some file or in R2.                 *)
OwnRecordsStay == [][run' = run => OwnRecords \subseteq OwnRecords']_vars

(* "The record of record": a record that has reached a file or R2 stays in *)
(* some file or in R2, whatever run wrote it.                              *)
StoredForever == [][Durable \subseteq Durable']_vars

(* The archive implements the log it promises its caller.                  *)
Log == INSTANCE DurableLog WITH volatile <- Volatile, durable <- Durable
ImplementsLog == Log!Spec

(* A signalled worker ends: every poll in flight finishes, every open      *)
(* shard goes through #closeShard, and close() returns.                    *)
SignalLeadsToExit == proc = "stopping" ~> proc = "down"

-----------------------------------------------------------------------------
(* The invariant that carries the durability argument.                     *)

(* A file without a writer holds nothing.                                  *)
AbsentIsEmpty ==
    \A f \in Feeds, h \in Hours :
        \A file \in {partial[f][h], final[f][h], r2[f][h]} :
            ~Exists(file) => file = Absent

(* Where the variables of a call stand at each step of it.                 *)
Shape(f) ==
    /\ proc = "down" => step[f] = "idle" /\ shards[f] = NoHour
    /\ proc = "closing" =>
           step[f] \notin {"fetch", "open", "compress"} /\ pending[f] = {}
    /\ pending[f] = {} <=> writeHour[f] = NoHour
    /\ step[f] \in {"open", "compress"} => pending[f] # {}
    /\ step[f] \in {"idle", "fetch"} => pending[f] = {}
    /\ step[f] = "compress" => shards[f] = writeHour[f]
    /\ step[f] \notin {"idle", "fetch", "compress"} => shards[f] = NoHour
    /\ oldHour[f] # NoHour <=>
           step[f] \in {"flush", "rename", "stat", "upload", "unlink"}
    /\ oldHour[f] # NoHour => proc = "closing" \/ oldHour[f] < writeHour[f]
    /\ buffer[f] # {} => shards[f] # NoHour \/ step[f] = "flush"
    /\ writeHour[f] <= hour
    /\ shards[f] <= hour
    /\ oldHour[f] <= hour

CallShape == \A f \in Feeds : Shape(f)

(* A record is in one place in memory at most, and only an offered one is  *)
(* anywhere.                                                               *)
RecordsApart ==
    /\ Durable \cup Volatile \subseteq offered
    /\ \A f \in Feeds :
        /\ pending[f] \subseteq offered
        /\ \A r, s \in pending[f] : r = s
        /\ pending[f] \cap (Durable \cup Volatile) = {}
        /\ \A g \in Feeds : f # g => /\ pending[f] \cap pending[g] = {}
                                     /\ buffer[f] \cap buffer[g] = {}

(* The file of an open shard is there until it is renamed.                 *)
OpenShardsExist ==
    \A f \in Feeds :
        /\ shards[f] # NoHour => Exists(partial[f][shards[f]])
        /\ step[f] \in {"flush", "rename"} => Exists(partial[f][oldHour[f]])

(* Nothing has the final name of a shard that is still to be finalised.    *)
Finalised(f, h) == Exists(final[f][h]) \/ Exists(r2[f][h])

NothingToReplace ==
    \A f \in Feeds, h \in Hours : Finalised(f, h) =>
        /\ h <= hour
        /\ proc \in {"up", "stopping"} => h < hour
        /\ writeHour[f] # NoHour => h < writeHour[f]
        /\ shards[f] # NoHour => h < shards[f]
        /\ step[f] \in {"flush", "rename"} => h < oldHour[f]

(* What an upload replaces is a copy of the shard, and what an unlink      *)
(* removes has been uploaded.                                              *)
CopiesAgree ==
    \A f \in Feeds :
        /\ step[f] \in {"stat", "upload"} => ~Exists(r2[f][oldHour[f]])
        /\ step[f] = "unlink" => r2[f][oldHour[f]] = final[f][oldHour[f]]

DurabilityInv ==
    /\ AbsentIsEmpty
    /\ OpenShardsExist
    /\ RecordsApart
    /\ NothingToReplace
    /\ CopiesAgree
=============================================================================
