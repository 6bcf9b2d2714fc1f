------------------------- MODULE ArchiveSyncProofs -------------------------
(* Proofs about ArchiveSync. *)
EXTENDS ArchiveSync, TLAPS

(* What a run knows and when it became true.  A shard that was old when    *)
(* the run began cannot be replaced during the run.                        *)
Files ==
    \A k \in Keys : local[k] # {} =>
        /\ local[k] = latest[k] /\ latest[k] \in finals
        /\ k <= mtime[k]

InTime == pc # "idle" => started <= hour /\ hour <= started + MaxRun

Settled(k) == k < started - MaxLag

Snapshot ==
    /\ pc = "idle" => shards = {} /\ confirmed = {} /\ todo = {}
    /\ \A k \in shards : k <= age[k]
    /\ pc \in {"list", "select", "upload", "confirmed"} => \A k \in shards : local[k] # {}
    /\ pc \in {"upload", "confirmed", "prune"} =>
          \A k \in shards : md5[k] \in finals /\ (Settled(k) => md5[k] = latest[k])
    /\ pc = "upload" => todo \subseteq shards
    /\ pc \in {"confirmed", "prune"} =>
          \A k \in confirmed : k \in shards /\ remote[k] = CopyOf(md5[k])
    /\ pc = "prune" => \A k \in todo : k \in confirmed /\ Settled(k)

Good(k) == remote[k] = NoObject \/ \E recs \in finals : remote[k] = CopyOf(recs)

(* A damaged object is never without its file, and a run that has begun    *)
(* has found the file and, once it has confirmed, the damage.              *)
Damage ==
    /\ \A k \in Keys : ~Good(k) => local[k] # {}
    /\ pc \in {"list", "select", "upload"} => \A k \in Keys : ~Good(k) => k \in shards
    /\ pc \in {"idle", "confirmed", "prune"} /\ exitCode = 0 =>
          \A k \in Keys : ~Good(k) => k \in unhashed

SyncInv == TypeOK /\ Files /\ InTime /\ Snapshot /\ ShardsSafe /\ Damage

(* Whatever arrives is an object. *)
LEMMA ArrivalsAreObjects ==
    ASSUME NEW recs \in SUBSET Records, NEW object \in Arrivals(recs)
    PROVE  object \in Object
<1>1. CASE \E part \in SUBSET recs : object = CopyOf(part)
    BY <1>1 DEF Object, CopyOf
<1>2. CASE object = [recs |-> recs, intact |-> FALSE]
    BY <1>2 DEF Object
<1> QED BY <1>1, <1>2 DEF Arrivals

(* The values of a run's variables when there is none have their types. *)
LEMMA NobodyRuns == 0 \in Keys /\ NoObject \in Object
BY SyncAssumption DEF Keys, Object, NoObject

LEMMA InitSync == Init => SyncInv
BY SyncAssumption DEF Init, SyncInv, TypeOK, Files, InTime, Snapshot, ShardsSafe, Damage,
    Good, Keys, Object, NoObject

(* Types: each step assigns its variables values of their sets. *)
LEMMA TypesStay == TypeOK /\ [Next]_vars => TypeOK'
<1> SUFFICES ASSUME TypeOK, [Next]_vars PROVE TypeOK'
    OBVIOUS
<1> USE SyncAssumption DEF TypeOK
<1>1. ASSUME NEW k \in Keys, NEW recs \in SUBSET Records, Finalise(k, recs) PROVE TypeOK'
    BY <1>1 DEF Finalise, runVars, scanVars
<1>2. CASE HourPasses
    <2>1. hour + 1 \in Keys
        BY <1>2 DEF HourPasses, Keys
    <2> QED BY <1>2, <2>1 DEF HourPasses, runVars, scanVars
<1>3. CASE Scan
    BY <1>3 DEF Scan, diskVars
<1>4. ASSUME NEW noHash \in Unhashable, ListBefore(noHash) PROVE TypeOK'
    BY <1>4 DEF ListBefore, Unhashable, diskVars, scanVars
<1>5. ASSUME NEW noHash \in Unhashable, Confirm(noHash) PROVE TypeOK'
    BY <1>5 DEF Confirm, Unhashable, diskVars, scanVars
<1>6. CASE HashAndSelect
    BY <1>6 DEF HashAndSelect, Missing, diskVars, scanVars, Object, NoObject
<1>7. ASSUME NEW k \in Keys, NEW object \in Arrivals(local[k]), Upload(k, object)
      PROVE  TypeOK'
    <2>1. object \in Object
        BY <1>7, ArrivalsAreObjects
    <2> QED BY <1>7, <2>1 DEF Upload, diskVars, scanVars
<1>8. ASSUME NEW k \in Keys, VerifySample(k) PROVE TypeOK'
    BY <1>8 DEF VerifySample, diskVars, scanVars
<1>9. ASSUME NEW k \in Keys, Unlink(k) PROVE TypeOK'
    BY <1>9 DEF Unlink, scanVars
<1>10. CASE BeginPrune
    BY <1>10 DEF BeginPrune, Prunable, diskVars, scanVars
<1>11. CASE EndRun
    BY <1>11, NobodyRuns DEF EndRun, Gone, diskVars
<1>12. CASE Abort
    <2>1. remote' \in [Keys -> Object]
        BY <1>12, ArrivalsAreObjects DEF Abort
    <2> QED BY <1>12, <2>1, NobodyRuns DEF Abort, Gone, diskVars
<1>13. CASE UNCHANGED vars
    BY <1>13 DEF vars, diskVars, runVars, scanVars
<1> QED
    BY <1>1, <1>2, <1>3, <1>4, <1>5, <1>6, <1>7, <1>8, <1>9, <1>10, <1>11, <1>12, <1>13
    DEF Next, Worker, Sync

(* A file finalised during a run is not that of a settled hour. *)
LEMMA FinaliseKeepsSync ==
    ASSUME SyncInv, NEW k \in Keys, NEW recs \in SUBSET Records, Finalise(k, recs)
    PROVE  (Files /\ InTime /\ Snapshot /\ ShardsSafe /\ Damage)'
<1> USE SyncAssumption DEF SyncInv, TypeOK
<1>1. Files'
    <2>1. k <= hour
        BY DEF Finalise, Keys
    <2> QED BY <2>1 DEF Files, Finalise
<1>2. InTime'
    BY DEF InTime, Finalise, runVars, scanVars
<1>3. Snapshot'
    <2>1. pc # "idle" => ~Settled(k)
        BY DEF InTime, Settled, Finalise, Keys
    <2>2. \A j \in Keys : (Settled(j) <=> Settled(j)') /\ (pc # "idle" /\ Settled(j) => latest'[j] = latest[j])
        BY <2>1 DEF Settled, Finalise, runVars, scanVars
    <2>3. \A j \in Keys : local[j] # {} => local'[j] # {}
        BY DEF Finalise
    <2>4. finals \subseteq finals'
        BY DEF Finalise
    <2> QED BY <2>2, <2>3, <2>4 DEF Snapshot, Finalise, runVars, scanVars
<1>4. ShardsSafe'
    BY DEF ShardsSafe, Finalise
<1>5. Damage'
    BY DEF Damage, Good, Finalise, runVars, scanVars
<1> QED BY <1>1, <1>2, <1>3, <1>4, <1>5

(* The steps of a run that change nothing on the disk or in Drive. *)
LEMMA ReadingKeepsSync ==
    ASSUME SyncInv,
           HourPasses \/ Scan \/ (\E noHash \in Unhashable : ListBefore(noHash)) \/ HashAndSelect
    PROVE  (Files /\ InTime /\ Snapshot /\ ShardsSafe /\ Damage)'
<1> USE SyncAssumption DEF SyncInv, TypeOK
<1>1. CASE HourPasses
    <2>1. (Files /\ InTime)'
        <3>1. hour \in Int /\ started \in Int
            BY DEF Keys
        <3> QED BY <1>1, <3>1 DEF HourPasses, Files, InTime, runVars, scanVars
    <2>2. (Snapshot /\ ShardsSafe /\ Damage)'
        BY <1>1 DEF HourPasses, Snapshot, Settled, ShardsSafe, Damage, Good, runVars, scanVars
    <2> QED BY <2>1, <2>2
<1>2. CASE Scan
    <2>1. (Files /\ InTime /\ ShardsSafe)'
        <3>1. hour \in Int
            BY DEF Keys
        <3> QED BY <1>2, <3>1 DEF Scan, Files, InTime, ShardsSafe, diskVars
    <2>2. Snapshot'
        BY <1>2 DEF Scan, Snapshot, Files, Settled, diskVars
    <2>3. Damage'
        BY <1>2 DEF Scan, Damage, Good, diskVars
    <2> QED BY <2>1, <2>2, <2>3
<1>3. ASSUME NEW noHash \in Unhashable, ListBefore(noHash)
      PROVE  (Files /\ InTime /\ Snapshot /\ ShardsSafe /\ Damage)'
    <2>1. (Files /\ InTime /\ ShardsSafe /\ Damage)'
        BY <1>3 DEF ListBefore, Files, InTime, ShardsSafe, Damage, Good, diskVars, scanVars
    <2>2. Snapshot'
        BY <1>3 DEF ListBefore, Snapshot, Settled, diskVars, scanVars
    <2> QED BY <2>1, <2>2
<1>4. CASE HashAndSelect
    <2>1. (Files /\ InTime /\ ShardsSafe /\ Damage)'
        BY <1>4 DEF HashAndSelect, Files, InTime, ShardsSafe, Damage, Good, diskVars, scanVars
    <2>2. todo' \subseteq shards
        BY <1>4 DEF HashAndSelect, Missing
    <2>3. \A k \in shards : md5'[k] = latest[k] /\ md5'[k] \in finals
        BY <1>4 DEF HashAndSelect, Snapshot, Files
    <2>4. Snapshot'
        BY <1>4, <2>2, <2>3 DEF HashAndSelect, Snapshot, Settled, diskVars, scanVars
    <2> QED BY <2>1, <2>4
<1> QED BY <1>1, <1>2, <1>3, <1>4

(* Whatever arrives, the file it was read from is there. *)
LEMMA UploadKeepsSync ==
    ASSUME SyncInv, NEW k \in Keys, NEW object \in Arrivals(local[k]), Upload(k, object)
    PROVE  (Files /\ InTime /\ Snapshot /\ ShardsSafe /\ Damage)'
<1> USE SyncAssumption DEF SyncInv, TypeOK
<1>1. k \in shards /\ local[k] # {} /\ local[k] = latest[k]
    BY DEF Upload, NextOf, Snapshot, Files
<1>2. (Files /\ InTime)'
    BY DEF Upload, Files, InTime, diskVars, scanVars
<1>3. Snapshot'
    BY DEF Upload, Snapshot, Settled, diskVars, scanVars
<1>4. ShardsSafe'
    BY <1>1 DEF Upload, ShardsSafe, diskVars
<1>5. Damage'
    BY <1>1 DEF Upload, Damage, Good, diskVars, scanVars
<1> QED BY <1>2, <1>3, <1>4, <1>5

(* A shard that is confirmed is whole; one that is not and has a hash is   *)
(* reported.                                                               *)
LEMMA ConfirmKeepsSync ==
    ASSUME SyncInv, NEW noHash \in Unhashable, Confirm(noHash)
    PROVE  (Files /\ InTime /\ Snapshot /\ ShardsSafe /\ Damage)'
<1> USE SyncAssumption DEF SyncInv, TypeOK
<1>1. (Files /\ InTime /\ ShardsSafe)'
    BY DEF Confirm, Files, InTime, ShardsSafe, diskVars, scanVars
<1>2. \A k \in confirmed' : k \in shards /\ remote[k] = CopyOf(md5[k])
    BY DEF Confirm, Confirmed
<1>3. Snapshot'
    BY <1>2 DEF Confirm, Snapshot, Settled, diskVars, scanVars
<1>4. ASSUME exitCode' = 0, NEW k \in Keys, ~Good(k) PROVE k \in noHash
    <2>1. k \in shards /\ md5[k] \in finals
        BY <1>4 DEF Damage, Confirm, Snapshot
    <2>2. ~Mismatched(k, noHash)
        BY <1>4, <2>1 DEF Confirm
    <2> QED BY <1>4, <2>1, <2>2 DEF Good, Mismatched
<1>5. Damage'
    BY <1>4 DEF Confirm, Damage, Good, diskVars, scanVars
<1> QED BY <1>1, <1>3, <1>5

(* A shard selected for pruning was old at the scan: its hour is settled.  *)
LEMMA PruneKeepsSync ==
    ASSUME SyncInv, BeginPrune \/ (\E k \in Keys : Unlink(k) \/ VerifySample(k))
    PROVE  (Files /\ InTime /\ Snapshot /\ ShardsSafe /\ Damage)'
<1> USE SyncAssumption DEF SyncInv, TypeOK
<1>1. CASE BeginPrune
    <2>1. \A k \in Prunable : k \in confirmed /\ Settled(k)
        BY <1>1 DEF Prunable, BeginPrune, Snapshot, Settled, InTime, Keys
    <2>2. (Files /\ InTime /\ ShardsSafe /\ Damage)'
        BY <1>1 DEF BeginPrune, Files, InTime, ShardsSafe, Damage, Good, diskVars, scanVars
    <2>3. Snapshot'
        BY <1>1, <2>1 DEF BeginPrune, Snapshot, Settled, diskVars, scanVars
    <2> QED BY <2>2, <2>3
<1>2. ASSUME NEW k \in Keys, Unlink(k)
      PROVE  (Files /\ InTime /\ Snapshot /\ ShardsSafe /\ Damage)'
    <2>1. remote[k] = CopyOf(latest[k]) /\ CopyOf(latest[k]).recs = latest[k] /\ Good(k)
        BY <1>2 DEF Unlink, NextOf, Snapshot, Good, CopyOf
    <2>2. (Files /\ InTime /\ ShardsSafe)'
        BY <1>2, <2>1 DEF Unlink, Files, InTime, ShardsSafe, scanVars
    <2>3. Snapshot'
        BY <1>2 DEF Unlink, Snapshot, Settled, scanVars
    <2>4. Damage'
        BY <1>2, <2>1 DEF Unlink, Damage, Good, scanVars
    <2> QED BY <2>2, <2>3, <2>4
<1>3. ASSUME NEW k \in Keys, VerifySample(k)
      PROVE  (Files /\ InTime /\ Snapshot /\ ShardsSafe /\ Damage)'
    <2>1. (Files /\ InTime /\ ShardsSafe /\ Damage)'
        BY <1>3 DEF VerifySample, Files, InTime, ShardsSafe, Damage, Good, diskVars, scanVars
    <2>2. Snapshot'
        BY <1>3 DEF VerifySample, Snapshot, Settled, diskVars, scanVars
    <2> QED BY <2>1, <2>2
<1> QED BY <1>1, <1>2, <1>3

LEMMA EndingKeepsSync ==
    ASSUME SyncInv, EndRun \/ Abort
    PROVE  (Files /\ InTime /\ Snapshot /\ ShardsSafe /\ Damage)'
<1> USE SyncAssumption DEF SyncInv, TypeOK
<1>1. CASE EndRun
    BY <1>1 DEF EndRun, Gone, Files, InTime, Snapshot, ShardsSafe, Damage, Good, diskVars
<1>2. CASE Abort
    <2>1. (Files /\ InTime /\ Snapshot)'
        BY <1>2 DEF Abort, Gone, Files, InTime, Snapshot, diskVars
    <2>2. \A k \in Keys : remote'[k] = remote[k] \/ (local[k] # {} /\ local[k] = latest[k])
        BY <1>2 DEF Abort, NextOf, Snapshot, Files
    <2>3. (ShardsSafe /\ Damage)'
        BY <1>2, <2>2 DEF Abort, Gone, ShardsSafe, Damage, Good, diskVars
    <2> QED BY <2>1, <2>3
<1> QED BY <1>1, <1>2

(* The inductive invariant of the daily run.                               *)
THEOREM SyncInvariant == Spec => []SyncInv
<1>1. SyncInv /\ [Next]_vars => SyncInv'
    <2> SUFFICES ASSUME SyncInv, [Next]_vars PROVE SyncInv'
        OBVIOUS
    <2>1. TypeOK'
        BY TypesStay DEF SyncInv
    <2>2. (Files /\ InTime /\ Snapshot /\ ShardsSafe /\ Damage)'
        <3>1. CASE Worker
            BY <3>1, FinaliseKeepsSync DEF Worker
        <3>2. CASE HourPasses
            BY <3>2, ReadingKeepsSync
        <3>3. CASE Sync
            BY <3>3, ReadingKeepsSync, UploadKeepsSync, ConfirmKeepsSync, PruneKeepsSync,
               EndingKeepsSync DEF Sync
        <3>4. CASE UNCHANGED vars
            BY <3>4 DEF SyncInv, Files, InTime, Snapshot, Settled, ShardsSafe, Damage, Good,
               vars, diskVars, runVars, scanVars
        <3> QED BY <3>1, <3>2, <3>3, <3>4 DEF Next
    <2> QED BY <2>1, <2>2 DEF SyncInv
<1> QED BY <1>1, InitSync, PTL DEF Spec

(* The types of the script's variables.                                    *)
THEOREM TypeCorrect == Spec => []TypeOK
<1>1. SyncInv => TypeOK
    BY DEF SyncInv
<1> QED BY <1>1, SyncInvariant, PTL

(* Pruning never loses a shard: for any retention longer than a run, any   *)
(* replacement of shards by the worker and any failure of a transfer.      *)
THEOREM PruningIsSafe == Spec => []ShardsSafe
<1>1. SyncInv => ShardsSafe
    BY DEF SyncInv
<1> QED BY <1>1, SyncInvariant, PTL

(* A run that exits with 0 leaves no damaged object it could have seen.    *)
THEOREM DamageIsSeen == Spec => []DamageIsReported
<1>1. SyncInv => DamageIsReported
    BY DEF SyncInv, Damage, Good, DamageIsReported
<1> QED BY <1>1, SyncInvariant, PTL
=============================================================================
