------------------------------- MODULE Backup -------------------------------
(***************************************************************************)
(* scripts/backup-database.ts, whose selectForRetention is module          *)
(* Selection: a run dumps the database, uploads the dump, confirms it by   *)
(* MD5, deletes remote dumps no generation needs, and then all but the two *)
(* newest local ones.  bus-backup prunes every night; bus-backup-verify    *)
(* restores its dump on Sundays and does not prune.  Their runs do not     *)
(* overlap.                                                                *)
(*                                                                         *)
(* A dump is named by the time its run began.  Nothing else touches the    *)
(* folder or the working directory, so that a loop of deletions that may   *)
(* fail half way is one step with any part of it done.                     *)
(***************************************************************************)
EXTENDS Selection

VARIABLES
    now,
    pc,         \* where the run is, "idle" between runs
    name,       \* its dump
    prunes,     \* the nightly run; the other has --no-prune --verify-restore
    confirmed,
    exitCode,   \* of this run or the last one
    local,      \* [time -> dump in the working directory]
    remote,     \* [time -> dump in Drive]
    arrived,    \* [time -> how it arrived there]
    dumped,     \* the dumps pg_dump finished
    succeeded   \* the dumps of the runs that exited with 0

fileVars == <<local, remote, arrived, dumped>>
clockVars == <<now, name>>
vars == <<clockVars, prunes, pc, confirmed, exitCode, fileVars, loopVars, succeeded>>

(* A dump that is there is whole, or cut short or corrupt.                 *)
Dump == {"none", "whole", "broken"}
Present(dumps) == {t \in Times : dumps[t] # "none"}

Init ==
    /\ now = 0
    /\ pc = "idle"
    /\ name = 0
    /\ prunes = FALSE
    /\ confirmed = FALSE
    /\ exitCode = 1
    /\ local = [t \in Times |-> "none"]
    /\ remote = [t \in Times |-> "none"]
    /\ arrived = [t \in Times |-> "none"]
    /\ dumped = {}
    /\ succeeded = {}
    /\ NotSelecting

-----------------------------------------------------------------------------
TimePasses ==
    /\ pc = "idle"
    /\ now < MaxTime
    /\ now' = now + 1
    /\ UNCHANGED <<name, prunes, pc, confirmed, exitCode, fileVars, loopVars, succeeded>>

(* Either timer.  The next run has a later minute in its name.             *)
Start(prune) ==
    /\ pc = "idle"
    /\ now < MaxTime
    /\ pc' = "dump"
    /\ name' = now
    /\ now' = now + 1
    /\ prunes' = prune
    /\ confirmed' = FALSE
    /\ exitCode' = 0
    /\ UNCHANGED <<fileVars, loopVars, succeeded>>

(* The run goes on, or ends with an exit code; a child process that fails  *)
(* makes main() throw.                                                     *)
Goto(place) ==
    /\ pc' = place
    /\ UNCHANGED <<prunes, confirmed, exitCode>>

Exit(code) ==
    /\ pc' = "idle"
    /\ prunes' = FALSE /\ confirmed' = FALSE
    /\ exitCode' = code

Fails == Exit(1)

PgDump ==
    /\ pc = "dump"
    /\ Goto("upload")
    /\ local' = [local EXCEPT ![name] = "whole"]
    /\ dumped' = dumped \cup {name}
    /\ UNCHANGED <<clockVars, remote, arrived, loopVars, succeeded>>

PgDumpFails ==
    /\ pc = "dump"
    /\ Fails
    /\ \E left \in {"none", "broken"} : local' = [local EXCEPT ![name] = left]
    /\ UNCHANGED <<clockVars, remote, arrived, dumped, loopVars, succeeded>>

(* rclone copyto, which may also fail with something in place.             *)
Upload(dump) ==
    /\ pc = "upload"
    /\ Goto("confirm") \/ Fails
    /\ remote' = [remote EXCEPT ![name] = dump]
    /\ arrived' = [arrived EXCEPT ![name] = dump]
    /\ UNCHANGED <<clockVars, local, dumped, loopVars, succeeded>>

(* The listing is searched for the dump and its MD5, which may be missing. *)
(* Mutant: that the dump is there is enough.                               *)
ConfirmByName(hashed) ==
    /\ pc = "confirm" /\ pc' = "prune"
    /\ confirmed' = (remote[name] # "none")
    /\ UNCHANGED <<clockVars, prunes, exitCode, fileVars, loopVars, succeeded>>

Confirm(hashed) ==
    /\ pc = "confirm"
    /\ pc' = "prune"
    /\ confirmed' = (hashed /\ remote[name] = local[name])
    /\ UNCHANGED <<clockVars, prunes, exitCode, fileVars, loopVars, succeeded>>

(* Retention, whether or not the new dump was confirmed: the folder is     *)
(* listed again, selected from, and cleared; rclone may fail at the        *)
(* listing and at any victim.  Mutant: a dump is judged by its day alone.  *)
ListDumps ==
    /\ pc = "prune" /\ prunes
    /\ \/ Goto("select") /\ BeginSelection(Present(remote))
       \/ Fails /\ UNCHANGED loopVars
    /\ UNCHANGED <<clockVars, fileVars, succeeded>>

Select ==
    /\ \E t \in todo : Look(t)
    /\ UNCHANGED <<clockVars, pc, prunes, confirmed, exitCode, fileVars, succeeded>>

VictimsDaily == (listed \ Kept("daily", listed)) \ {name}
Victims == (listed \ retained) \ {name}

Deleted(dumps, victims) ==
    [t \in Times |-> IF t \in victims THEN "none" ELSE dumps[t]]

Prune(victims) ==
    /\ pc = "select"
    /\ EndSelection
    /\ remote' = Deleted(remote, victims)
    /\ (victims = Victims /\ Goto("clean")) \/ Fails
    /\ UNCHANGED <<clockVars, local, arrived, dumped, succeeded>>

SkipPrune ==
    /\ pc = "prune" /\ ~prunes
    /\ Goto("clean")
    /\ UNCHANGED <<clockVars, fileVars, loopVars, succeeded>>

(* Local cleanup.  Mutant: the new dump is removed once it is uploaded.    *)
OldLocals == {t \in Present(local) : Cardinality({n \in Present(local) : n > t}) >= 2}

CleanUpOwn(olds) ==
    /\ pc = "clean"
    /\ local' = Deleted(local, {name}) /\ Goto("verify")
    /\ UNCHANGED <<clockVars, remote, arrived, dumped, loopVars, succeeded>>

CleanUp(olds) ==
    /\ pc = "clean" /\ confirmed
    /\ local' = Deleted(local, olds)
    /\ (olds = OldLocals /\ Goto("verify")) \/ Fails
    /\ UNCHANGED <<clockVars, remote, arrived, dumped, loopVars, succeeded>>

KeepLocals ==
    /\ pc = "clean" /\ ~confirmed
    /\ Goto("verify")
    /\ UNCHANGED <<clockVars, fileVars, loopVars, succeeded>>

(* verifyRestore compares the restored dump with the database, whose       *)
(* rollups or static tables another job may have changed since.            *)
VerifyRestore(sourceStable) ==
    /\ pc = "verify" /\ ~prunes
    /\ \/ /\ exitCode' = IF local[name] = "whole" /\ sourceStable THEN 0 ELSE 1
          /\ pc' = "end"
          /\ UNCHANGED <<prunes, confirmed>>
       \/ Fails
    /\ UNCHANGED <<clockVars, fileVars, loopVars, succeeded>>

EndRun ==
    /\ pc = "end" \/ (pc = "verify" /\ prunes)
    /\ Exit(IF confirmed THEN exitCode ELSE 1)
    /\ succeeded' = succeeded \cup {t \in {name} : exitCode' = 0}
    /\ UNCHANGED <<clockVars, fileVars, loopVars>>

Next ==
    \/ TimePasses
    \/ \E prune \in BOOLEAN : Start(prune)
    \/ PgDump \/ PgDumpFails
    \/ \E dump \in Dump : Upload(dump)
    \/ \E hashed \in BOOLEAN : Confirm(hashed)
    \/ ListDumps \/ Select
    \/ \E victims \in SUBSET Victims : Prune(victims)
    \/ SkipPrune
    \/ \E olds \in SUBSET OldLocals : CleanUp(olds)
    \/ KeepLocals
    \/ \E sourceStable \in BOOLEAN : VerifyRestore(sourceStable)
    \/ EndRun

Spec == Init /\ [][Next]_vars
-----------------------------------------------------------------------------
(* Properties.                                                             *)

(* The variables have the types of the script's.                           *)
TypeOK ==
    /\ now \in Times /\ name \in Times
    /\ pc \in {"idle", "dump", "upload", "confirm", "prune", "select", "clean",
              "verify", "end"}
    /\ prunes \in BOOLEAN /\ confirmed \in BOOLEAN
    /\ exitCode \in {0, 1}
    /\ local \in [Times -> Dump]
    /\ remote \in [Times -> Dump]
    /\ arrived \in [Times -> Dump]
    /\ dumped \subseteq Times
    /\ succeeded \subseteq Times
    /\ listed \subseteq Times /\ todo \subseteq Times /\ retained \subseteq Times

(* Deleting night after night loses nothing that one decision over every   *)
(* dump ever uploaded would have kept, whichever nights, deletions and     *)
(* uploads failed: generations are not thinned by their own past.          *)
GenerationsKept ==
    \A t \in Retain(Present(arrived)) : remote[t] = arrived[t]

(* The newest dump that pg_dump finished is whole on the disk or in Drive, *)
(* through failed dumps, failed uploads and the cleanup of later runs.     *)
NewestDumpSafe ==
    \A t \in dumped :
        (\A n \in dumped : n <= t) => local[t] = "whole" \/ remote[t] = "whole"

(* A run that exits with 0, and so pings the healthcheck, has left its own *)
(* dump whole in Drive, and there it stays, whatever fails later, until    *)
(* every generation prefers newer dumps.  A newer dump counts by its name: *)
(* one that arrived broken on the same day does take its place.            *)
SuccessMeansBackup ==
    /\ pc = "idle" /\ exitCode = 0 => remote[name] = "whole"
    /\ \A t \in succeeded : remote[t] = "whole" \/ t \notin Retain(Present(arrived))

(* Drive does not fill up: whatever failed before, a finished prune leaves *)
(* no more dumps than the quotas add up to; the newest counts three times. *)
RemoteBounded ==
    pc = "clean" /\ prunes =>
        Cardinality(Present(remote)) <= Keep["daily"] + Keep["weekly"] + Keep["monthly"] - 2
=============================================================================
