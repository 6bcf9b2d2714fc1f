---------------------------- MODULE ArchiveSync ----------------------------
(***************************************************************************)
(* scripts/upload-archive.ts: the daily run that copies finalised shards   *)
(* to Google Drive with rclone, confirms the copies by MD5, and prunes     *)
(* confirmed shards from the local disk once they are old.  The worker     *)
(* finalises shards meanwhile.                                             *)
(*                                                                         *)
(* One feed: a shard is named by its hour and is the set of records in it, *)
(* so that equal sets are equal hashes and equal cardinalities are equal   *)
(* sizes.  Files still .partial are skipped by the scan and do not appear. *)
(* Hashing all files is one step: a file is read once, and the shards of   *)
(* two hours are finalised independently of one another.                   *)
(***************************************************************************)
EXTENDS Integers, FiniteSets

CONSTANTS
    Records,
    PruneAge,           \* --prune-days, in hours
    MaxRun,             \* the hours a run may take
    MaxLag,             \* the hours a shard may stay open after its own
    SameHourRestart,    \* as in module Archive
    MaxHour             \* bound: UTC hours are 0..MaxHour

ASSUME SyncAssumption ==
    /\ PruneAge \in Nat /\ MaxRun \in Nat /\ MaxLag \in Nat \ {0}
    /\ MaxLag + MaxRun <= PruneAge
    /\ SameHourRestart \in BOOLEAN
    /\ MaxHour \in Nat

Keys == 0..MaxHour

(* An object in Drive is the records that arrived, or the right number of  *)
(* wrong bytes.                                                            *)
Object == [recs : SUBSET Records, intact : BOOLEAN]
NoObject == [recs |-> {}, intact |-> FALSE]
CopyOf(recs) == [recs |-> recs, intact |-> TRUE]

VARIABLES
    hour,
    local,      \* [hour -> records of its finalised shard], {} without a file
    mtime,      \* [hour -> when that file was written]
    remote,     \* [hour -> object at its Drive key]
    pc,         \* where the run is, "idle" between runs
    started,    \* the hour the run was started in
    shards,     \* the shards its scan found
    size,       \* their sizes and times at the scan
    age,
    before,     \* the first listing of Drive
    unhashed,   \* the keys the last listing gave no MD5 of
    md5,        \* [hour -> content hashed]: localMd5
    todo,       \* shards still to be uploaded, later to be unlinked
    confirmed,
    exitCode,   \* of this run or the last one
    latest,     \* [hour -> records of the shard last finalised for it]
    finals      \* every shard ever finalised

diskVars == <<hour, local, mtime, latest, finals>>
scanVars == <<started, shards, size, age>>
runVars == <<pc, scanVars, before, unhashed, md5, todo, confirmed, exitCode>>
vars == <<diskVars, remote, runVars>>

Init ==
    /\ hour = 0
    /\ local = [k \in Keys |-> {}]
    /\ mtime = [k \in Keys |-> 0]
    /\ remote = [k \in Keys |-> NoObject]
    /\ latest = [k \in Keys |-> {}]
    /\ finals = {}
    /\ pc = "idle"
    /\ started = 0
    /\ shards = {}
    /\ size = [k \in Keys |-> 0]
    /\ age = [k \in Keys |-> 0]
    /\ before = [k \in Keys |-> NoObject]
    /\ unhashed = {}
    /\ md5 = [k \in Keys |-> {}]
    /\ todo = {}
    /\ confirmed = {}
    /\ exitCode = 0

-----------------------------------------------------------------------------
(* The worker closes the shard of an hour when it stops, or with the first *)
(* poll after it, for which a feed that is down may keep it waiting.       *)
(* After a restart inside the hour a second shard is renamed over the      *)
(* first.                                                                  *)
Finalise(k, recs) ==
    /\ hour - MaxLag <= k /\ k <= hour
    /\ local[k] = {} \/ SameHourRestart
    /\ recs # {} /\ recs \cap UNION finals = {}
    /\ local' = [local EXCEPT ![k] = recs]
    /\ mtime' = [mtime EXCEPT ![k] = hour]
    /\ latest' = [latest EXCEPT ![k] = recs]
    /\ finals' = finals \cup {recs}
    /\ UNCHANGED <<hour, remote, runVars>>

HourPasses ==
    /\ hour < MaxHour
    /\ pc = "idle" \/ hour < started + MaxRun
    /\ hour' = hour + 1
    /\ UNCHANGED <<local, mtime, latest, finals, remote, runVars>>

-----------------------------------------------------------------------------
(* The timer starts a run: collectShards reads the directories.            *)
Scan ==
    /\ pc = "idle"
    /\ pc' = "list"
    /\ started' = hour
    /\ shards' = {k \in Keys : local[k] # {}}
    /\ size' = [k \in Keys |-> Cardinality(local[k])]
    /\ age' = mtime
    /\ exitCode' = 0
    /\ UNCHANGED <<diskVars, remote, before, unhashed, md5, todo, confirmed>>

(* listRemote: Drive may offer no hash of some objects.                    *)
Unhashable == SUBSET {k \in Keys : remote[k] # NoObject}

ListBefore(noHash) ==
    /\ pc = "list"
    /\ pc' = "select"
    /\ before' = remote
    /\ unhashed' = noHash
    /\ UNCHANGED <<diskVars, remote, scanVars, md5, todo, confirmed, exitCode>>

SizeDiffers(k, object) == Cardinality(object.recs) # size[k]

(* Mutant: a remote file of the right size needs no upload.                *)
MissingBySize(hashes) ==
    {k \in shards : before[k] = NoObject \/ SizeDiffers(k, before[k])}

Missing(hashes) ==
    {k \in shards : \/ before[k] = NoObject
                    \/ SizeDiffers(k, before[k])
                    \/ k \in unhashed
                    \/ before[k] # CopyOf(hashes[k])}

HashAndSelect ==
    /\ pc = "select"
    /\ pc' = "upload"
    /\ md5' = [k \in Keys |-> IF k \in shards THEN local[k] ELSE {}]
    /\ todo' = Missing(md5')
    /\ before' = [k \in Keys |-> NoObject]      \* not read again
    /\ UNCHANGED <<diskVars, remote, scanVars, unhashed, confirmed, exitCode>>

(* rclone copyto, shard by shard in the order of their keys.  What is in   *)
(* the file by now arrives, or part of it, or garbage.                     *)
NextOf(k, keys) == k \in keys /\ \A j \in keys : k <= j

Arrivals(recs) ==
    {CopyOf(part) : part \in SUBSET recs} \cup {[recs |-> recs, intact |-> FALSE]}

Upload(k, object) ==
    /\ pc = "upload"
    /\ NextOf(k, todo)
    /\ remote' = [remote EXCEPT ![k] = object]
    /\ todo' = todo \ {k}
    /\ UNCHANGED <<diskVars, pc, scanVars, before, unhashed, md5, confirmed, exitCode>>

(* The listing after the uploads against the hashes taken before them.     *)
(* Mutant: a remote file of the right size is a copy.                      *)
ConfirmedBySize(k, noHash) ==
    remote[k] # NoObject /\ ~SizeDiffers(k, remote[k])

Confirmed(k, noHash) ==
    /\ remote[k] # NoObject
    /\ ~SizeDiffers(k, remote[k])
    /\ k \notin noHash
    /\ remote[k] = CopyOf(md5[k])

(* Mutant: only sizes count.                                               *)
MismatchedBySize(k, noHash) ==
    remote[k] # NoObject /\ SizeDiffers(k, remote[k])

Mismatched(k, noHash) ==
    /\ remote[k] # NoObject
    /\ \/ SizeDiffers(k, remote[k])
       \/ k \notin noHash /\ remote[k] # CopyOf(md5[k])

Confirm(noHash) ==
    /\ pc = "upload"
    /\ todo = {}
    /\ pc' = "confirmed"
    /\ unhashed' = noHash
    /\ confirmed' = {k \in shards : Confirmed(k, noHash)}
    /\ exitCode' = IF \E k \in shards : Mismatched(k, noHash) THEN 1 ELSE 0
    /\ UNCHANGED <<diskVars, remote, scanVars, before, md5, todo>>

(* verifySample, --verify: the last confirmed shard is downloaded again.   *)
VerifySample(k) ==
    /\ pc = "confirmed"
    /\ k \in confirmed /\ \A j \in confirmed : j <= k
    /\ exitCode' = IF remote[k] = CopyOf(local[k]) THEN exitCode ELSE 1
    /\ UNCHANGED <<diskVars, remote, pc, scanVars, before, unhashed, md5, todo, confirmed>>

(* Only confirmed shards that were old at the scan are unlinked.           *)
Prunable == {k \in confirmed : age[k] < hour - PruneAge}

BeginPrune ==
    /\ pc = "confirmed"
    /\ pc' = "prune"
    /\ todo' = Prunable
    /\ UNCHANGED <<diskVars, remote, scanVars, before, unhashed, md5, confirmed, exitCode>>

Unlink(k) ==
    /\ pc = "prune"
    /\ NextOf(k, todo)
    /\ local' = [local EXCEPT ![k] = {}]
    /\ todo' = todo \ {k}
    /\ UNCHANGED <<hour, mtime, latest, finals, remote, pc, scanVars, before,
                   unhashed, md5, confirmed, exitCode>>

(* The process is gone and its variables with it.                          *)
Gone ==
    /\ pc' = "idle"
    /\ started' = 0
    /\ shards' = {} /\ confirmed' = {} /\ todo' = {}
    /\ size' = [k \in Keys |-> 0] /\ age' = [k \in Keys |-> 0]
    /\ before' = [k \in Keys |-> NoObject] /\ md5' = [k \in Keys |-> {}]

(* The end of main(), with or without --prune.                             *)
EndRun ==
    /\ pc = "confirmed" \/ (pc = "prune" /\ todo = {})
    /\ Gone
    /\ UNCHANGED <<diskVars, remote, unhashed, exitCode>>

(* rclone fails, a file vanishes between readdir and stat, or the run is   *)
(* killed; in the middle of an upload anything may have arrived.           *)
Abort ==
    /\ pc # "idle"
    /\ Gone
    /\ exitCode' = 1
    /\ \/ UNCHANGED remote
       \/ \E k \in todo : \E object \in Arrivals(local[k]) :
              /\ pc = "upload" /\ NextOf(k, todo)
              /\ remote' = [remote EXCEPT ![k] = object]
    /\ UNCHANGED <<diskVars, unhashed>>

Worker == \E k \in Keys, recs \in SUBSET Records : Finalise(k, recs)

Sync ==
    \/ Scan
    \/ \E noHash \in Unhashable : ListBefore(noHash) \/ Confirm(noHash)
    \/ HashAndSelect
    \/ \E k \in Keys :
          \/ \E object \in Arrivals(local[k]) : Upload(k, object)
          \/ VerifySample(k) \/ Unlink(k)
    \/ BeginPrune \/ EndRun \/ Abort

Next == Worker \/ HourPasses \/ Sync

Spec == Init /\ [][Next]_vars

(* Runs start and end for ever (timer), and no step of them fails every    *)
(* time: rclone retries, and the next run starts again from the files.     *)
FairSpec ==
    /\ Spec
    /\ WF_vars(Sync)
    /\ SF_vars(\E noHash \in Unhashable : ListBefore(noHash))
    /\ SF_vars(HashAndSelect)
    /\ \A k \in Keys : SF_vars(Upload(k, CopyOf(local[k])))
-----------------------------------------------------------------------------
(* Properties.                                                             *)

(* The variables have the types of the script's.                           *)
TypeOK ==
    /\ hour \in Keys
    /\ local \in [Keys -> SUBSET Records]
    /\ mtime \in [Keys -> Keys]
    /\ remote \in [Keys -> Object]
    /\ pc \in {"idle", "list", "select", "upload", "confirmed", "prune"}
    /\ started \in Keys
    /\ shards \subseteq Keys /\ confirmed \subseteq Keys
    /\ todo \subseteq Keys /\ unhashed \subseteq Keys
    /\ age \in [Keys -> Keys]
    /\ before \in [Keys -> Object]
    /\ md5 \in [Keys -> SUBSET Records]
    /\ exitCode \in {0, 1}
    /\ latest \in [Keys -> SUBSET Records]
    /\ finals \subseteq SUBSET Records

(* "A shard is deletable locally only when rclone confirms a remote file   *)
(* ... whose MD5 matches the local file" (PRUNE SAFETY): the shard last    *)
(* finalised for an hour is on the disk or whole in Drive, although the    *)
(* confirmation is older than the unlink, the worker replaces shards and   *)
(* uploads are cut short.                                                  *)
ShardsSafe ==
    \A k \in Keys :
        latest[k] # {} => local[k] = latest[k] \/ remote[k] = CopyOf(latest[k])

(* "The archive reporting a problem it never fixes" must not happen, nor   *)
(* the reverse: when the last run exited with 0, Drive holds nothing but   *)
(* whole shards, unless it kept their hashes to itself.                    *)
DamageIsReported ==
    pc = "idle" /\ exitCode = 0 =>
        \A k \in Keys \ unhashed :
            remote[k] = NoObject \/ \E recs \in finals : remote[k] = CopyOf(recs)

(* The repair loop closes (comment on the upload plan): every finalised    *)
(* shard is whole in Drive some time, after any cut or corrupted upload.   *)
ShardsGetCopied ==
    \A k \in Keys : local[k] # {} ~> remote[k] = CopyOf(latest[k])
=============================================================================
