--------------------------- MODULE ArchiveProofs ---------------------------
(***************************************************************************)
(* Theorems about Archive, for every set of feeds and records and every    *)
(* bound.                                                                  *)
(***************************************************************************)
EXTENDS Archive, TLAPS

(* The constant facts every step needs. *)
LEMMA HourFacts ==
    /\ Hours \subseteq Nat
    /\ NoHour \notin Hours
    /\ 0 \in Hours
    /\ Absent \in File
BY BoundsAssumption DEF Hours, NoHour, File, Absent

LEMMA HourOrder ==
    /\ \A h \in Hours : h \in Nat /\ NoHour < h /\ h # NoHour
    /\ NoHour \in Int
BY BoundsAssumption DEF Hours, NoHour

(* Storing a file at an hour keeps the typing.                             *)
LEMMA PutType ==
    ASSUME NEW files \in [Feeds -> [Hours -> File]], NEW f \in Feeds,
           NEW h \in Hours, NEW file \in File
    PROVE  Put(files, f, h, file) \in [Feeds -> [Hours -> File]]
<1>1. [files[f] EXCEPT ![h] = file] \in [Hours -> File]
    BY HourFacts
<1>2. QED
    BY <1>1 DEF Put

LEMMA ExtendedType ==
    ASSUME NEW file \in File, NEW recs \in SUBSET Records
    PROVE  Extended(file, recs) \in File /\ Ended(Extended(file, recs)) \in File
BY DEF Extended, Ended, File

LEMMA FileTyped ==
    ASSUME TypeOK, NEW f \in Feeds, NEW h \in Hours
    PROVE  /\ partial[f][h] \in File
           /\ final[f][h] \in File
           /\ r2[f][h] \in File
           /\ buffer[f] \in SUBSET Records
<1>1. /\ partial[f] \in [Hours -> File]
      /\ final[f] \in [Hours -> File]
      /\ r2[f] \in [Hours -> File]
    BY DEF TypeOK
<1>2. QED
    BY <1>1 DEF TypeOK

(* #closeShard returning keeps the variables of the call well typed.       *)
LEMMA ClosedShardType ==
    ASSUME TypeOK, NEW f \in Feeds, ClosedShard(f)
    PROVE  /\ step' \in [Feeds -> Steps]
           /\ pending' \in [Feeds -> SUBSET Records]
           /\ writeHour' \in [Feeds -> Hours \cup {NoHour}]
           /\ oldHour' \in [Feeds -> Hours \cup {NoHour}]
<1>0. /\ step \in [Feeds -> Steps]
      /\ pending \in [Feeds -> SUBSET Records]
      /\ writeHour \in [Feeds -> Hours \cup {NoHour}]
      /\ oldHour \in [Feeds -> Hours \cup {NoHour}]
    BY DEF TypeOK
<1>1. CASE pending[f] = {}
    BY <1>0, <1>1 DEF ClosedShard, EndCall, Steps
<1>2. CASE pending[f] # {}
    BY <1>0, <1>2 DEF ClosedShard, Goto, Steps
<1>3. QED
    BY <1>1, <1>2

(* The step lemma of the type invariant, one step per action.              *)
LEMMA TypeStep == TypeOK /\ CallShape /\ [Next]_vars => TypeOK'
<1> SUFFICES ASSUME TypeOK, CallShape, [Next]_vars PROVE TypeOK'
    OBVIOUS
<1> USE HourFacts DEF TypeOK, Steps
<1>1. ASSUME NEW f \in Feeds, BeginPoll(f) PROVE TypeOK'
    BY <1>1 DEF BeginPoll, Goto, procVars, diskVars, ghostVars
<1>2. ASSUME NEW f \in Feeds, FetchFails(f) PROVE TypeOK'
    <2>1. /\ step' \in [Feeds -> Steps]
          /\ pending' \in [Feeds -> SUBSET Records]
          /\ writeHour' \in [Feeds -> Hours \cup {NoHour}]
        BY <1>2 DEF FetchFails, EndCall
    <2> QED BY <1>2, <2>1 DEF FetchFails, procVars, diskVars, ghostVars
<1>3. ASSUME NEW f \in Feeds, NEW r \in Records, Write(f, r) PROVE TypeOK'
    <2>1. step' \in [Feeds -> Steps]
        BY <1>3 DEF Write, EnterCloseShard
    <2>4. /\ pending' \in [Feeds -> SUBSET Records]
          /\ writeHour' \in [Feeds -> Hours \cup {NoHour}]
        BY <1>3 DEF Write
    <2>2. /\ oldHour' \in [Feeds -> Hours \cup {NoHour}]
          /\ shards' \in [Feeds -> Hours \cup {NoHour}]
        BY <1>3 DEF Write, EnterCloseShard
    <2>3. /\ offered' \in SUBSET Records
          /\ polled' \in [Feeds -> [Hours -> SUBSET Records]]
        BY <1>3 DEF Write
    <2> QED BY <1>3, <2>1, <2>2, <2>3, <2>4 DEF Write, procVars, diskVars
<1>4. ASSUME NEW f \in Feeds, OpenShard(f) PROVE TypeOK'
    <2> DEFINE h == writeHour[f]
               new == [recs |-> {}, runs |-> {run}, ended |-> FALSE]
    <2>h. h \in Hours
        BY <1>4 DEF OpenShard, CallShape, Shape
    <2>1. partial' \in [Feeds -> [Hours -> File]]
        <3>1. new \in File
            BY DEF File
        <3>2. partial' = Put(partial, f, h, new)
            BY <1>4 DEF OpenShard
        <3>3. QED
            BY <3>1, <3>2, <2>h, PutType
    <2>2. salvaged' \in SUBSET File
        BY <1>4, <2>h, FileTyped DEF OpenShard
    <2>4. /\ step' \in [Feeds -> Steps]
          /\ shards' \in [Feeds -> Hours \cup {NoHour}]
        BY <1>4, <2>h DEF OpenShard, Goto
    <2>3. QED
        BY <1>4, <2>1, <2>2, <2>4 DEF OpenShard, Goto, procVars, ghostVars
<1>5. ASSUME NEW f \in Feeds, OpenFails(f) PROVE TypeOK'
    BY <1>5 DEF OpenFails, EndCall, procVars, diskVars
<1>6. ASSUME NEW f \in Feeds, Compress(f) PROVE TypeOK'
    BY <1>6 DEF Compress, EndCall, procVars, diskVars
<1>7. ASSUME NEW f \in Feeds, Drain(f) PROVE TypeOK'
    <2>h. shards[f] \in Hours
        BY <1>7 DEF Drain, CallShape, Shape
    <2>1. partial' \in [Feeds -> [Hours -> File]]
        <3>1. Extended(partial[f][shards[f]], buffer[f]) \in File
            <4>1. /\ partial[f][shards[f]] \in File
                  /\ buffer[f] \in SUBSET Records
                BY <2>h, FileTyped
            <4>2. QED
                BY <4>1, ExtendedType
        <3>2. QED
            BY <1>7, <2>h, <3>1, PutType DEF Drain
    <2>2. QED
        BY <1>7, <2>1 DEF Drain, procVars, callVars, ghostVars
<1>8. ASSUME NEW f \in Feeds, FlushShard(f) PROVE TypeOK'
    <2>h. oldHour[f] \in Hours
        BY <1>8 DEF FlushShard, CallShape, Shape
    <2>1. partial' \in [Feeds -> [Hours -> File]]
        <3>1. Ended(Extended(partial[f][oldHour[f]], buffer[f])) \in File
            <4>1. /\ partial[f][oldHour[f]] \in File
                  /\ buffer[f] \in SUBSET Records
                BY <2>h, FileTyped
            <4>2. QED
                BY <4>1, ExtendedType
        <3>2. QED
            BY <1>8, <2>h, <3>1, PutType DEF FlushShard
    <2>2. QED
        BY <1>8, <2>1 DEF FlushShard, Goto, procVars, ghostVars
<1>9. ASSUME NEW f \in Feeds, FlushFails(f) PROVE TypeOK'
    BY <1>9, ClosedShardType DEF FlushFails, procVars, diskVars
<1>10. ASSUME NEW f \in Feeds, RenameShard(f) PROVE TypeOK'
    <2>h. oldHour[f] \in Hours
        BY <1>10 DEF RenameShard, CallShape, Shape
    <2>1. /\ partial' \in [Feeds -> [Hours -> File]]
          /\ final' \in [Feeds -> [Hours -> File]]
        BY <1>10, <2>h, FileTyped, PutType DEF RenameShard
    <2>2. QED
        BY <1>10, <2>1 DEF RenameShard, Goto, procVars, ghostVars
<1>11. ASSUME NEW f \in Feeds, RenameFails(f) PROVE TypeOK'
    BY <1>11, ClosedShardType DEF RenameFails, procVars, diskVars
<1>12. ASSUME NEW f \in Feeds, StatShard(f) PROVE TypeOK'
    <2>1. CASE HasUploader
        BY <1>12, <2>1 DEF StatShard, Goto, procVars, diskVars, ghostVars
    <2>2. CASE ~HasUploader
        BY <1>12, <2>2, ClosedShardType DEF StatShard, procVars, diskVars, ghostVars
    <2>3. QED
        BY <2>1, <2>2
<1>13. ASSUME NEW f \in Feeds, UploadShard(f) PROVE TypeOK'
    <2>h. oldHour[f] \in Hours
        BY <1>13 DEF UploadShard, CallShape, Shape
    <2>0. r2' \in [Feeds -> [Hours -> File]]
        BY <1>13, <2>h, FileTyped, PutType DEF UploadShard
    <2>1. CASE DeleteLocal
        BY <1>13, <2>0, <2>1 DEF UploadShard, Goto, procVars, diskVars, ghostVars
    <2>2. CASE ~DeleteLocal
        BY <1>13, <2>0, <2>2, ClosedShardType DEF UploadShard, procVars, diskVars, ghostVars
    <2>3. QED
        BY <2>1, <2>2
<1>14. ASSUME NEW f \in Feeds, UploadFails(f) PROVE TypeOK'
    <2>h. oldHour[f] \in Hours
        BY <1>14 DEF UploadFails, CallShape, Shape
    <2>1. r2' \in [Feeds -> [Hours -> File]]
        <3>1. Put(r2, f, oldHour[f], final[f][oldHour[f]]) \in [Feeds -> [Hours -> File]]
            BY <2>h, FileTyped, PutType
        <3>2. QED
            BY <1>14, <3>1 DEF UploadFails
    <2>2. QED
        BY <1>14, <2>1, ClosedShardType DEF UploadFails, procVars, diskVars, ghostVars
<1>15. ASSUME NEW f \in Feeds, UnlinkShard(f) PROVE TypeOK'
    <2>h. oldHour[f] \in Hours
        BY <1>15 DEF UnlinkShard, CallShape, Shape
    <2>1. final' \in [Feeds -> [Hours -> File]]
        BY <1>15, <2>h, FileTyped, PutType DEF UnlinkShard
    <2>2. QED
        BY <1>15, <2>1, ClosedShardType DEF UnlinkShard, procVars, ghostVars
<1>16. ASSUME NEW f \in Feeds, UnlinkFails(f) PROVE TypeOK'
    BY <1>16, ClosedShardType DEF UnlinkFails, procVars, diskVars, ghostVars
<1>17. ASSUME NEW f \in Feeds, StatFails(f) PROVE TypeOK'
    <2>1. CASE proc # "closing"
        BY <1>17, <2>1 DEF StatFails, EndCall, diskVars
    <2>2. CASE proc = "closing"
        BY <1>17, <2>2 DEF StatFails, LoseMemory, diskVars
    <2>3. QED
        BY <2>1, <2>2
<1>18. CASE Crash
    BY <1>18 DEF Crash, LoseMemory, diskVars
<1>19. CASE Start
    <2>1. run' \in 0..MaxRuns
        BY <1>19, BoundsAssumption DEF Start
    <2>2. QED
        BY <1>19, <2>1 DEF Start, callVars, diskVars
<1>20. CASE Signal
    BY <1>20 DEF Signal, callVars, diskVars, ghostVars
<1>21. CASE BeginClose
    BY <1>21 DEF BeginClose, callVars, diskVars, ghostVars
<1>22. ASSUME NEW f \in Feeds, CloseNext(f) PROVE TypeOK'
    BY <1>22 DEF CloseNext, EnterCloseShard, procVars, diskVars, ghostVars
<1>23. CASE Exit
    BY <1>23 DEF Exit, callVars, diskVars, ghostVars
<1>24. CASE HourPasses
    BY <1>24, BoundsAssumption DEF HourPasses, Hours, procVars, callVars, diskVars, ghostVars
<1>25. CASE UNCHANGED vars
    BY <1>25 DEF vars, procVars, callVars, diskVars, ghostVars
<1>26. QED
    BY <1>1, <1>2, <1>3, <1>4, <1>5, <1>6, <1>7, <1>8, <1>9, <1>10, <1>11,
       <1>12, <1>13, <1>14, <1>15, <1>16, <1>17, <1>18, <1>19, <1>20, <1>21,
       <1>22, <1>23, <1>24, <1>25
    DEF Next, CallStep, CloseStep, CloseArchive

LEMMA TypeInit == Init => TypeOK
<1>1. [h \in Hours |-> Absent] \in [Hours -> File]
    BY HourFacts
<1>2. Init => /\ partial \in [Feeds -> [Hours -> File]]
              /\ final \in [Feeds -> [Hours -> File]]
              /\ r2 \in [Feeds -> [Hours -> File]]
    BY <1>1 DEF Init
<1>3. Init => /\ proc \in {"down", "up", "stopping", "closing"}
              /\ hour \in Hours
              /\ step \in [Feeds -> Steps]
    BY HourFacts DEF Init, Steps
<1>4. Init => /\ run \in 0..MaxRuns
              /\ shards \in [Feeds -> Hours \cup {NoHour}]
              /\ writeHour \in [Feeds -> Hours \cup {NoHour}]
              /\ oldHour \in [Feeds -> Hours \cup {NoHour}]
    BY BoundsAssumption DEF Init
<1>5. Init => /\ buffer \in [Feeds -> SUBSET Records]
              /\ pending \in [Feeds -> SUBSET Records]
              /\ salvaged \in SUBSET File
    BY DEF Init
<1>8. Init => polled \in [Feeds -> [Hours -> SUBSET Records]]
    <2>1. [h \in Hours |-> {}] \in [Hours -> SUBSET Records]
        OBVIOUS
    <2> QED BY <2>1 DEF Init
<1>6. Init => /\ offered \in SUBSET Records
              /\ acked \in SUBSET Records
              /\ failed \in BOOLEAN
    BY DEF Init
<1>7. QED
    BY <1>2, <1>3, <1>4, <1>5, <1>6, <1>8 DEF TypeOK

(* The types of the variables of the calls.                                *)
CallTypes ==
    /\ proc \in {"down", "up", "stopping", "closing"}
    /\ hour \in Hours
    /\ step \in [Feeds -> Steps]
    /\ shards \in [Feeds -> Hours \cup {NoHour}]
    /\ buffer \in [Feeds -> SUBSET Records]
    /\ pending \in [Feeds -> SUBSET Records]
    /\ writeHour \in [Feeds -> Hours \cup {NoHour}]
    /\ oldHour \in [Feeds -> Hours \cup {NoHour}]

(* The variables of every call keep their shape.                           *)
LEMMA CallShapeStep == TypeOK /\ CallShape /\ [Next]_vars => CallShape'
<1> SUFFICES ASSUME TypeOK, CallShape, [Next]_vars, NEW f \in Feeds
             PROVE  Shape(f)'
    BY DEF CallShape
<1>t. CallTypes
    BY DEF TypeOK, CallTypes
<1> USE <1>t, HourOrder DEF CallShape, Shape, CallTypes, Steps, procVars, callVars
<1>1. ASSUME NEW g \in Feeds, BeginPoll(g) PROVE Shape(f)'
    BY <1>1 DEF BeginPoll, Goto
<1>2. ASSUME NEW g \in Feeds, FetchFails(g) PROVE Shape(f)'
    BY <1>2 DEF FetchFails, EndCall
<1>3. ASSUME NEW g \in Feeds, NEW r \in Records, Write(g, r) PROVE Shape(f)'
    <2>1. CASE f # g
        BY <1>3, <2>1 DEF Write, EnterCloseShard
    <2>2. CASE f = g /\ shards[g] = hour
        BY <1>3, <2>2 DEF Write, EnterCloseShard
    <2>3. CASE f = g /\ shards[g] = NoHour
        <3>1. /\ step'[f] = "open" /\ shards'[f] = NoHour /\ oldHour'[f] = NoHour
              /\ pending'[f] = {r} /\ writeHour'[f] = hour
              /\ buffer'[f] = {} /\ UNCHANGED <<proc, hour>>
            BY <1>3, <2>3 DEF Write, EnterCloseShard
        <3>2. proc \notin {"down", "closing"} /\ hour \in Hours
            BY <1>3, <2>3 DEF Write
        <3>3. NoHour <= hour /\ hour # NoHour /\ hour <= hour
            BY <3>2, HourOrder
        <3>4. QED
            BY ONLY <3>1, <3>2, <3>3 DEF Shape
    <2>4. CASE f = g /\ shards[g] \notin {NoHour, hour}
        <3>1. /\ step'[f] = "flush" /\ shards'[f] = NoHour /\ oldHour'[f] = shards[f]
              /\ pending'[f] = {r} /\ writeHour'[f] = hour
              /\ UNCHANGED <<proc, hour, buffer>>
            BY <1>3, <2>4 DEF Write, EnterCloseShard
        <3>2. /\ proc \notin {"down", "closing"} /\ hour \in Hours
              /\ shards[f] \in Hours /\ shards[f] <= hour
            BY <1>3, <2>4 DEF Write
        <3>3. /\ NoHour <= hour /\ hour # NoHour /\ hour <= hour
              /\ shards[f] < hour /\ shards[f] # NoHour
            <4>1. shards[f] # hour /\ shards[f] # NoHour
                BY <2>4
            <4>2. /\ hour \in Nat /\ NoHour < hour /\ hour # NoHour
                  /\ shards[f] \in Nat
                  /\ NoHour \in Int
                BY <3>2, HourOrder
            <4>3. QED
                BY ONLY <3>2, <4>1, <4>2
        <3>4. QED
            BY ONLY <3>1, <3>2, <3>3 DEF Shape
    <2>5. QED
        BY <2>1, <2>2, <2>3, <2>4
<1>4. ASSUME NEW g \in Feeds, OpenShard(g) PROVE Shape(f)'
    BY <1>4 DEF OpenShard, Goto
<1>5. ASSUME NEW g \in Feeds, OpenFails(g) PROVE Shape(f)'
    BY <1>5 DEF OpenFails, EndCall
<1>6. ASSUME NEW g \in Feeds, Compress(g) PROVE Shape(f)'
    BY <1>6 DEF Compress, EndCall
<1>7. ASSUME NEW g \in Feeds, Drain(g) PROVE Shape(f)'
    BY <1>7 DEF Drain, callVars
<1>8. ASSUME NEW g \in Feeds, FlushShard(g) PROVE Shape(f)'
    BY <1>8 DEF FlushShard, Goto
<1>9. ASSUME NEW g \in Feeds, FlushFails(g) PROVE Shape(f)'
    BY <1>9 DEF FlushFails, ClosedShard, EndCall, Goto
<1>10. ASSUME NEW g \in Feeds, RenameShard(g) PROVE Shape(f)'
    BY <1>10 DEF RenameShard, Goto
<1>11. ASSUME NEW g \in Feeds, RenameFails(g) PROVE Shape(f)'
    BY <1>11 DEF RenameFails, ClosedShard, EndCall, Goto
<1>12. ASSUME NEW g \in Feeds, StatShard(g) PROVE Shape(f)'
    <2>1. CASE HasUploader
        BY <1>12, <2>1 DEF StatShard, Goto
    <2>2. CASE ~HasUploader
        <3>1. CASE pending[g] = {}
            BY <1>12, <2>2, <3>1 DEF StatShard, ClosedShard, EndCall
        <3>2. CASE pending[g] # {}
            BY <1>12, <2>2, <3>2 DEF StatShard, ClosedShard, Goto
        <3>3. QED
            BY <3>1, <3>2
    <2>3. QED
        BY <2>1, <2>2
<1>13. ASSUME NEW g \in Feeds, UploadShard(g) PROVE Shape(f)'
    <2>1. CASE DeleteLocal
        BY <1>13, <2>1 DEF UploadShard, Goto
    <2>2. CASE ~DeleteLocal
        <3>1. CASE pending[g] = {}
            BY <1>13, <2>2, <3>1 DEF UploadShard, ClosedShard, EndCall
        <3>2. CASE pending[g] # {}
            BY <1>13, <2>2, <3>2 DEF UploadShard, ClosedShard, Goto
        <3>3. QED
            BY <3>1, <3>2
    <2>3. QED
        BY <2>1, <2>2
<1>14. ASSUME NEW g \in Feeds, UploadFails(g) PROVE Shape(f)'
    BY <1>14 DEF UploadFails, ClosedShard, EndCall, Goto
<1>15. ASSUME NEW g \in Feeds, UnlinkShard(g) PROVE Shape(f)'
    BY <1>15 DEF UnlinkShard, ClosedShard, EndCall, Goto
<1>16. ASSUME NEW g \in Feeds, UnlinkFails(g) PROVE Shape(f)'
    BY <1>16 DEF UnlinkFails, ClosedShard, EndCall, Goto
<1>17. ASSUME NEW g \in Feeds, StatFails(g) PROVE Shape(f)'
    <2>1. CASE proc # "closing"
        <3>1. CASE f = g
            <4>1. /\ step'[f] = "idle" /\ pending'[f] = {}
                  /\ writeHour'[f] = NoHour /\ oldHour'[f] = NoHour
                BY <1>17, <2>1, <3>1 DEF StatFails, EndCall
            <4>2. /\ UNCHANGED <<proc, shards, buffer, hour>>
                  /\ step[f] = "stat"
                BY <1>17, <2>1, <3>1 DEF StatFails
            <4>3. QED
                BY <2>1, <4>1, <4>2
        <3>2. CASE f # g
            BY <1>17, <2>1, <3>2 DEF StatFails, EndCall
        <3>3. QED
            BY <3>1, <3>2
    <2>2. CASE proc = "closing"
        BY <1>17, <2>2 DEF StatFails, LoseMemory
    <2>3. QED
        BY <2>1, <2>2
<1>18. ASSUME NEW g \in Feeds, CloseNext(g) PROVE Shape(f)'
    BY <1>18 DEF CloseNext, EnterCloseShard, Idle
<1>19. CASE Crash
    BY <1>19 DEF Crash, LoseMemory
<1>20. CASE Start
    BY <1>20 DEF Start
<1>21. CASE Signal
    BY <1>21 DEF Signal
<1>22. CASE BeginClose
    BY <1>22 DEF BeginClose, Idle
<1>23. CASE Exit
    BY <1>23 DEF Exit, Idle
<1>24. CASE HourPasses
    BY <1>24 DEF HourPasses
<1>25. CASE UNCHANGED vars
    BY <1>25 DEF vars
<1>26. QED
    BY <1>1, <1>2, <1>3, <1>4, <1>5, <1>6, <1>7, <1>8, <1>9, <1>10, <1>11, <1>12, <1>13, <1>14, <1>15, <1>16, <1>17, <1>18, <1>19, <1>20, <1>21, <1>22, <1>23, <1>24, <1>25
    DEF Next, CallStep, CloseStep, CloseArchive

LEMMA CallShapeInit == Init => CallShape
<1> SUFFICES ASSUME Init, NEW f \in Feeds PROVE Shape(f)
    BY DEF CallShape
<1>1. /\ proc = "down" /\ hour = 0
      /\ step[f] = "idle"
      /\ buffer[f] = {} /\ pending[f] = {}
      /\ shards[f] = NoHour /\ writeHour[f] = NoHour /\ oldHour[f] = NoHour
    BY DEF Init
<1>2. QED
    BY <1>1, HourOrder, HourFacts DEF Shape

(* Every reachable state has the types of TypeOK, and every call of        *)
(* write() and #closeShard stands where the code can stand.                *)
THEOREM TypeCorrect == Spec => [](TypeOK /\ CallShape)
<1>1. Init => TypeOK /\ CallShape
    BY TypeInit, CallShapeInit
<1>2. TypeOK /\ CallShape /\ [Next]_vars => (TypeOK /\ CallShape)'
    BY TypeStep, CallShapeStep
<1>3. QED
    BY <1>1, <1>2, PTL DEF Spec

-----------------------------------------------------------------------------
(* Readability of the shards.                                              *)

OneStream(file) == Exists(file) => \E w \in 0..MaxRuns : file.runs = {w}

(* What ShardsDecompress needs to be inductive: a stream about to be given *)
(* its final name has been ended.                                          *)
StreamInv ==
    /\ \A file \in salvaged : OneStream(file)
    /\ \A f \in Feeds, h \in Hours :
          /\ OneStream(partial[f][h])
          /\ OneStream(final[f][h]) /\ (Exists(final[f][h]) => final[f][h].ended)
          /\ OneStream(r2[f][h]) /\ (Exists(r2[f][h]) => r2[f][h].ended)
    /\ \A f \in Feeds : step[f] = "rename" => partial[f][oldHour[f]].ended

LEMMA PutAt ==
    ASSUME NEW files \in [Feeds -> [Hours -> File]], NEW g \in Feeds,
           NEW k \in Hours, NEW file
    PROVE  \A f \in Feeds, h \in Hours :
               Put(files, g, k, file)[f][h] =
                   IF f = g /\ h = k THEN file ELSE files[f][h]
<1> DEFINE column == [files[g] EXCEPT ![k] = file]
<1>1. Put(files, g, k, file) = [files EXCEPT ![g] = column]
    BY DEF Put
<1>2. \A h \in Hours : column[h] = IF h = k THEN file ELSE files[g][h]
    OBVIOUS
<1>3. \A f \in Feeds : Put(files, g, k, file)[f] = IF f = g THEN column ELSE files[f]
    BY <1>1
<1>4. QED
    BY <1>2, <1>3

(* A step that is none of the seven that write to disk or to R2.           *)
QuietDisk ==
    /\ UNCHANGED <<diskVars, r2>>
    /\ \A f \in Feeds : step'[f] = "rename" =>
           step[f] = "rename" /\ oldHour'[f] = oldHour[f]

DiskStep(f) ==
    \/ OpenShard(f) \/ Drain(f)
    \/ FlushShard(f) \/ RenameShard(f)
    \/ UploadShard(f) \/ UploadFails(f) \/ UnlinkShard(f)

LEMMA DiskSteps ==
    TypeOK /\ CallShape /\ [Next]_vars =>
        QuietDisk \/ \E f \in Feeds : DiskStep(f)
<1> SUFFICES ASSUME TypeOK, CallShape, [Next]_vars, ~ \E f \in Feeds : DiskStep(f)
             PROVE  QuietDisk
    OBVIOUS
<1> USE DEF QuietDisk, TypeOK, procVars, callVars, diskVars
<1>1. ASSUME NEW f \in Feeds, BeginPoll(f) PROVE QuietDisk
    BY <1>1 DEF BeginPoll, Goto
<1>2. ASSUME NEW f \in Feeds, FetchFails(f) PROVE QuietDisk
    BY <1>2 DEF FetchFails, EndCall
<1>3. ASSUME NEW f \in Feeds, NEW r \in Records, Write(f, r) PROVE QuietDisk
    BY <1>3 DEF Write, EnterCloseShard
<1>4. ASSUME NEW f \in Feeds, OpenFails(f) PROVE QuietDisk
    BY <1>4 DEF OpenFails, EndCall
<1>5. ASSUME NEW f \in Feeds, Compress(f) PROVE QuietDisk
    BY <1>5 DEF Compress, EndCall
<1>6. ASSUME NEW f \in Feeds, FlushFails(f) PROVE QuietDisk
    BY <1>6 DEF FlushFails, ClosedShard, EndCall, Goto
<1>7. ASSUME NEW f \in Feeds, RenameFails(f) PROVE QuietDisk
    BY <1>7 DEF RenameFails, ClosedShard, EndCall, Goto
<1>8. ASSUME NEW f \in Feeds, StatShard(f) PROVE QuietDisk
    BY <1>8 DEF StatShard, ClosedShard, EndCall, Goto
<1>9. ASSUME NEW f \in Feeds, UnlinkFails(f) PROVE QuietDisk
    BY <1>9 DEF UnlinkFails, ClosedShard, EndCall, Goto
<1>10. ASSUME NEW f \in Feeds, StatFails(f) PROVE QuietDisk
    BY <1>10 DEF StatFails, EndCall, LoseMemory
<1>11. ASSUME NEW f \in Feeds, CloseNext(f) PROVE QuietDisk
    BY <1>11 DEF CloseNext, EnterCloseShard
<1>12. CASE Crash
    BY <1>12 DEF Crash, LoseMemory
<1>13. CASE Start \/ Signal \/ BeginClose \/ Exit \/ HourPasses
    BY <1>13 DEF Start, Signal, BeginClose, Exit, HourPasses
<1>14. CASE UNCHANGED vars
    BY <1>14 DEF vars
<1>15. QED
    BY <1>1, <1>2, <1>3, <1>4, <1>5, <1>6, <1>7, <1>8, <1>9, <1>10, <1>11,
       <1>12, <1>13, <1>14
    DEF Next, CallStep, CloseStep, CloseArchive, DiskStep

(* What each disk step does to the files, hour by hour.                    *)
NewShard == [recs |-> {}, runs |-> {run}, ended |-> FALSE]

LEMMA OpenEffect ==
    ASSUME TypeOK, CallShape, NEW f \in Feeds, OpenShard(f)
    PROVE  /\ writeHour[f] \in Hours
           /\ \A g \in Feeds, h \in Hours : partial'[g][h] =
                 IF g = f /\ h = writeHour[f] THEN NewShard ELSE partial[g][h]
           /\ \A file \in salvaged' : file \in salvaged \/ file = partial[f][writeHour[f]]
           /\ \A file \in salvaged : file \in salvaged'
           /\ Exists(partial[f][writeHour[f]]) => partial[f][writeHour[f]] \in salvaged'
           /\ UNCHANGED <<final, r2>>
<1>1. writeHour[f] \in Hours
    BY DEF OpenShard, CallShape, Shape, TypeOK
<1>2. partial \in [Feeds -> [Hours -> File]]
    BY DEF TypeOK
<1>3. partial' = Put(partial, f, writeHour[f], NewShard)
    BY DEF OpenShard, NewShard
<1>4. salvaged' = salvaged \cup (IF Exists(partial[f][writeHour[f]])
                                THEN {partial[f][writeHour[f]]} ELSE {})
    BY DEF OpenShard
<1>5. /\ \A file \in salvaged' : file \in salvaged \/ file = partial[f][writeHour[f]]
      /\ \A file \in salvaged : file \in salvaged'
      /\ Exists(partial[f][writeHour[f]]) => partial[f][writeHour[f]] \in salvaged'
    BY <1>4
<1>6. UNCHANGED <<final, r2>>
    BY DEF OpenShard
<1>7. QED
    BY <1>1, <1>2, <1>3, <1>5, <1>6, PutAt

LEMMA DrainEffect ==
    ASSUME TypeOK, CallShape, NEW f \in Feeds, Drain(f)
    PROVE  /\ shards[f] \in Hours
           /\ \A g \in Feeds, h \in Hours : partial'[g][h] =
                 IF g = f /\ h = shards[f]
                 THEN Extended(partial[f][shards[f]], buffer[f])
                 ELSE partial[g][h]
           /\ UNCHANGED <<salvaged, final, r2>>
<1>1. shards[f] \in Hours
    BY DEF Drain, TypeOK
<1>2. partial \in [Feeds -> [Hours -> File]]
    BY DEF TypeOK
<1>3. partial' = Put(partial, f, shards[f],
                     Extended(partial[f][shards[f]], buffer[f]))
    BY DEF Drain
<1>4. QED
    BY <1>1, <1>2, <1>3, PutAt DEF Drain

LEMMA OldHourType ==
    ASSUME TypeOK, CallShape, NEW f \in Feeds,
           step[f] \in {"flush", "rename", "stat", "upload", "unlink"}
    PROVE  oldHour[f] \in Hours
BY DEF CallShape, Shape, TypeOK

LEMMA FlushEffect ==
    ASSUME TypeOK, CallShape, NEW f \in Feeds, FlushShard(f)
    PROVE  /\ oldHour[f] \in Hours
           /\ \A g \in Feeds, h \in Hours : partial'[g][h] =
                 IF g = f /\ h = oldHour[f]
                 THEN Ended(Extended(partial[f][oldHour[f]], buffer[f]))
                 ELSE partial[g][h]
           /\ UNCHANGED <<salvaged, final, r2>>
<1>1. oldHour[f] \in Hours
    BY OldHourType DEF FlushShard
<1>2. partial \in [Feeds -> [Hours -> File]]
    BY DEF TypeOK
<1>3. partial' = Put(partial, f, oldHour[f],
                     Ended(Extended(partial[f][oldHour[f]], buffer[f])))
    BY DEF FlushShard
<1>4. QED
    BY <1>1, <1>2, <1>3, PutAt DEF FlushShard

LEMMA RenameEffect ==
    ASSUME TypeOK, CallShape, NEW f \in Feeds, RenameShard(f)
    PROVE  /\ oldHour[f] \in Hours
           /\ \A g \in Feeds, h \in Hours :
                 /\ final'[g][h] =
                       IF g = f /\ h = oldHour[f] THEN partial[f][h] ELSE final[g][h]
                 /\ partial'[g][h] =
                       IF g = f /\ h = oldHour[f] THEN Absent ELSE partial[g][h]
           /\ UNCHANGED <<salvaged, r2>>
<1>1. oldHour[f] \in Hours
    BY OldHourType DEF RenameShard
<1>2. partial \in [Feeds -> [Hours -> File]] /\ final \in [Feeds -> [Hours -> File]]
    BY DEF TypeOK
<1>3. /\ final' = Put(final, f, oldHour[f], partial[f][oldHour[f]])
      /\ partial' = Put(partial, f, oldHour[f], Absent)
    BY DEF RenameShard
<1>4. QED
    BY <1>1, <1>2, <1>3, PutAt DEF RenameShard

LEMMA UploadEffect ==
    ASSUME TypeOK, CallShape, NEW f \in Feeds, UploadShard(f) \/ UploadFails(f)
    PROVE  /\ oldHour[f] \in Hours
           /\ \A g \in Feeds, h \in Hours :
                 \/ r2'[g][h] = r2[g][h]
                 \/ g = f /\ h = oldHour[f] /\ r2'[g][h] = final[g][h]
           /\ UploadShard(f) => r2'[f][oldHour[f]] = final[f][oldHour[f]]
           /\ UNCHANGED diskVars
<1>1. oldHour[f] \in Hours
    BY OldHourType DEF UploadShard, UploadFails
<1>2. r2 \in [Feeds -> [Hours -> File]]
    BY DEF TypeOK
<1>3. /\ r2' \in {r2, Put(r2, f, oldHour[f], final[f][oldHour[f]])}
      /\ UploadShard(f) => r2' = Put(r2, f, oldHour[f], final[f][oldHour[f]])
      /\ UNCHANGED diskVars
    BY DEF UploadShard, UploadFails
<1>4. QED
    BY <1>1, <1>2, <1>3, PutAt

LEMMA UnlinkEffect ==
    ASSUME TypeOK, CallShape, NEW f \in Feeds, UnlinkShard(f)
    PROVE  /\ oldHour[f] \in Hours
           /\ \A g \in Feeds, h \in Hours : final'[g][h] =
                 IF g = f /\ h = oldHour[f] THEN Absent ELSE final[g][h]
           /\ UNCHANGED <<partial, salvaged, r2>>
<1>1. oldHour[f] \in Hours
    BY OldHourType DEF UnlinkShard
<1>2. final \in [Feeds -> [Hours -> File]]
    BY DEF TypeOK
<1>3. final' = Put(final, f, oldHour[f], Absent)
    BY DEF UnlinkShard
<1>4. QED
    BY <1>1, <1>2, <1>3, PutAt DEF UnlinkShard

(* Only a flush lets a feed stand before the rename.                       *)
LEMMA RenameNext ==
    ASSUME TypeOK, CallShape, NEW f \in Feeds, DiskStep(f)
    PROVE  \A g \in Feeds : step'[g] = "rename" =>
               /\ oldHour'[g] = oldHour[g]
               /\ step[g] = "rename" \/ (g = f /\ FlushShard(f))
               /\ g = f => FlushShard(f)
<1> USE DEF TypeOK
<1>1. CASE OpenShard(f)
    BY <1>1 DEF OpenShard, Goto
<1>2. CASE Drain(f)
    BY <1>2 DEF Drain, callVars, CallShape, Shape
<1>3. CASE FlushShard(f)
    BY <1>3 DEF FlushShard, Goto
<1>4. CASE RenameShard(f)
    BY <1>4 DEF RenameShard, Goto
<1>5. CASE UploadShard(f)
    BY <1>5 DEF UploadShard, ClosedShard, EndCall, Goto
<1>6. CASE UploadFails(f)
    BY <1>6 DEF UploadFails, ClosedShard, EndCall, Goto
<1>7. CASE UnlinkShard(f)
    BY <1>7 DEF UnlinkShard, ClosedShard, EndCall, Goto
<1>8. QED
    BY <1>1, <1>2, <1>3, <1>4, <1>5, <1>6, <1>7 DEF DiskStep

LEMMA StreamStep == TypeOK /\ CallShape /\ StreamInv /\ [Next]_vars => StreamInv'
<1> SUFFICES ASSUME TypeOK, CallShape, StreamInv, [Next]_vars PROVE StreamInv'
    OBVIOUS
<1>1. CASE QuietDisk
    BY <1>1 DEF QuietDisk, StreamInv, diskVars
<1>2. ASSUME NEW f \in Feeds, DiskStep(f)
      PROVE  /\ \A file \in salvaged' : OneStream(file)
             /\ \A g \in Feeds, h \in Hours :
                   /\ OneStream(partial'[g][h])
                   /\ OneStream(final'[g][h])
                   /\ Exists(final'[g][h]) => final'[g][h].ended
                   /\ OneStream(r2'[g][h])
                   /\ Exists(r2'[g][h]) => r2'[g][h].ended
    <2> USE DEF StreamInv
    <2>a. OneStream(Absent) /\ ~Exists(Absent)
        BY DEF OneStream, Exists, Absent
    <2>b. OneStream(NewShard)
        BY DEF OneStream, NewShard, TypeOK
    <2>c. ASSUME NEW file \in File, OneStream(file), NEW recs
          PROVE  OneStream(Extended(file, recs)) /\ OneStream(Ended(Extended(file, recs)))
        BY <2>c DEF OneStream, Exists, Extended, Ended, File
    <2>1. CASE OpenShard(f)
        <3>1. \A file \in salvaged' : OneStream(file)
            BY <2>1, OpenEffect
        <3>2. QED
            BY <2>1, <2>b, <3>1, OpenEffect
    <2>2. CASE Drain(f)
        <3>1. partial[f][shards[f]] \in File
            BY <2>2, DrainEffect, FileTyped
        <3>2. QED
            BY <2>2, <2>c, <3>1, DrainEffect
    <2>3. CASE FlushShard(f)
        <3>1. partial[f][oldHour[f]] \in File
            BY <2>3, FlushEffect, FileTyped
        <3>2. QED
            BY <2>3, <2>c, <3>1, FlushEffect
    <2>4. CASE RenameShard(f)
        <3>1. /\ oldHour[f] \in Hours
              /\ OneStream(partial[f][oldHour[f]]) /\ partial[f][oldHour[f]].ended
            BY <2>4, RenameEffect DEF RenameShard
        <3>2. salvaged' = salvaged /\ r2' = r2
            BY <2>4, RenameEffect
        <3>3. \A g \in Feeds, h \in Hours :
                  /\ OneStream(partial'[g][h])
                  /\ OneStream(final'[g][h])
                  /\ Exists(final'[g][h]) => final'[g][h].ended
            BY <2>4, <2>a, <3>1, RenameEffect
        <3>4. QED
            BY <3>2, <3>3
    <2>5. CASE UploadShard(f) \/ UploadFails(f)
        BY <2>5, UploadEffect DEF diskVars
    <2>6. CASE UnlinkShard(f)
        BY <2>6, <2>a, UnlinkEffect
    <2>7. QED
        BY <1>2, <2>1, <2>2, <2>3, <2>4, <2>5, <2>6 DEF DiskStep
<1>3. ASSUME NEW f \in Feeds, DiskStep(f), NEW g \in Feeds, step'[g] = "rename"
      PROVE  partial'[g][oldHour'[g]].ended
    <2>1. /\ oldHour'[g] = oldHour[g]
          /\ step[g] = "rename" \/ (g = f /\ FlushShard(f))
          /\ g = f => FlushShard(f)
        BY <1>3, RenameNext
    <2>2. oldHour[g] \in Hours
        BY <2>1, OldHourType DEF FlushShard
    <2>3. CASE FlushShard(f)
        <3>1. partial[g][oldHour[g]] \in File
            BY <2>2, FileTyped
        <3>2. CASE g = f
            <4>1. partial'[g][oldHour[g]] = Ended(Extended(partial[g][oldHour[g]], buffer[g]))
                BY <2>2, <2>3, <3>2, FlushEffect
            <4>2. Ended(Extended(partial[g][oldHour[g]], buffer[g])).ended
                BY <3>1 DEF Extended, Ended, File
            <4>3. QED
                BY <2>1, <4>1, <4>2
        <3>3. CASE g # f
            BY <2>1, <2>2, <2>3, <3>3, FlushEffect DEF StreamInv
        <3>4. QED
            BY <3>2, <3>3
    <2>4. CASE ~FlushShard(f)
        <3>1. g # f /\ partial'[g][oldHour[g]] = partial[g][oldHour[g]]
            <4>1. g # f
                BY <2>1, <2>4
            <4>2. CASE OpenShard(f)
                BY <2>2, <4>1, <4>2, OpenEffect
            <4>3. CASE Drain(f)
                BY <2>2, <4>1, <4>3, DrainEffect
            <4>4. CASE RenameShard(f)
                BY <2>2, <4>1, <4>4, RenameEffect
            <4>5. CASE UploadShard(f) \/ UploadFails(f)
                BY <4>1, <4>5, UploadEffect DEF diskVars
            <4>6. CASE UnlinkShard(f)
                BY <4>1, <4>6, UnlinkEffect
            <4>7. QED
                BY <1>3, <2>4, <4>1, <4>2, <4>3, <4>4, <4>5, <4>6 DEF DiskStep
        <3>2. QED
            BY <2>1, <2>4, <3>1 DEF StreamInv
    <2>5. QED
        BY <2>3, <2>4
<1>4. CASE \E f \in Feeds : DiskStep(f)
    BY <1>2, <1>3, <1>4 DEF StreamInv
<1>5. QED
    BY <1>1, <1>4, DiskSteps

(* No reader of the archive meets a truncated or concatenated shard.       *)
THEOREM ShardsAlwaysDecompress == Spec => []ShardsDecompress
<1>1. Init => StreamInv
    BY DEF Init, StreamInv, OneStream, Exists, Absent
<1>2. StreamInv => ShardsDecompress
    BY DEF StreamInv, ShardsDecompress, OneStream, Files
<1>3. QED
    BY <1>1, <1>2, TypeCorrect, StreamStep, PTL DEF Spec

-----------------------------------------------------------------------------
(***************************************************************************)
(* The archive implements DurableLog, and a stored record stays stored, as *)
(* long as the worker is never started again inside an hour of which a     *)
(* finalised shard already exists.                                         *)
(***************************************************************************)
Base == TypeOK /\ CallShape

(* Membership in Durable, spelled out file by file.                        *)
StoredIn(r, moved, open, done, sent) ==
    \/ \E file \in moved : r \in file.recs
    \/ \E f \in Feeds, h \in Hours :
          r \in open[f][h].recs \/ r \in done[f][h].recs \/ r \in sent[f][h].recs

Stored(r) == StoredIn(r, salvaged, partial, final, r2)

LEMMA DurableMember ==
    /\ \A r : r \in Durable <=> Stored(r)
    /\ \A r : r \in Durable' <=> Stored(r)'
<1>1. \A r : r \in Durable <=> Stored(r)
    <2>1. \A file : file \in Files <=>
              \/ file \in salvaged
              \/ \E f \in Feeds, h \in Hours :
                    file = partial[f][h] \/ file = final[f][h] \/ file = r2[f][h]
        BY DEF Files
    <2>2. \A r : r \in Durable <=> \E file \in Files : r \in file.recs
        BY DEF Durable
    <2>3. QED
        BY <2>1, <2>2 DEF Stored, StoredIn
<1>2. \A r : r \in Durable' <=> Stored(r)'
    <2>1. \A file : file \in Files' <=>
              \/ file \in salvaged'
              \/ \E f \in Feeds, h \in Hours :
                    file = partial'[f][h] \/ file = final'[f][h] \/ file = r2'[f][h]
        BY DEF Files
    <2>2. \A r : r \in Durable' <=> \E file \in Files' : r \in file.recs
        BY DEF Durable
    <2>3. QED
        BY <2>1, <2>2 DEF Stored, StoredIn
<1>3. QED
    BY <1>1, <1>2

LEMMA AbsentFacts ==
    /\ ~Exists(Absent)
    /\ Absent.recs = {}
    /\ Exists(NewShard)
    /\ NewShard.recs = {}
BY DEF Exists, Absent, NewShard

LEMMA ExtendedFacts ==
    ASSUME NEW file \in File, NEW recs \in SUBSET Records
    PROVE  /\ Extended(file, recs).recs = file.recs \cup recs
           /\ Ended(Extended(file, recs)).recs = file.recs \cup recs
           /\ Exists(file) => Exists(Extended(file, recs))
           /\ Exists(file) => Exists(Ended(Extended(file, recs)))
BY DEF Extended, Ended, Exists, File

(* What each disk step does to the set of stored records.                  *)
LEMMA OpenDurable ==
    ASSUME Base, AbsentIsEmpty, NEW f \in Feeds, OpenShard(f)
    PROVE  Durable' = Durable
<1> DEFINE k == writeHour[f]
<1>1. k \in Hours
    BY OpenEffect DEF Base
<1>2. ~Exists(partial[f][k]) => partial[f][k].recs = {}
    BY <1>1, AbsentFacts DEF AbsentIsEmpty
<1>3. ASSUME NEW r, Stored(r) PROVE Stored(r)'
    <2>1. CASE \E file \in salvaged : r \in file.recs
        BY <2>1, OpenEffect DEF Base, Stored, StoredIn
    <2>2. CASE \E g \in Feeds, h \in Hours : r \in final[g][h].recs \/ r \in r2[g][h].recs
        BY <2>2, OpenEffect DEF Base, Stored, StoredIn
    <2>3. ASSUME NEW g \in Feeds, NEW h \in Hours, r \in partial[g][h].recs
          PROVE  Stored(r)'
        <3>1. CASE g = f /\ h = k
            <4>1. partial[f][k] \in salvaged'
                BY <1>2, <2>3, <3>1, OpenEffect DEF Base
            <4>2. QED
                BY <2>3, <3>1, <4>1 DEF Stored, StoredIn
        <3>2. CASE ~(g = f /\ h = k)
            <4>1. partial'[g][h] = partial[g][h]
                BY <3>2, OpenEffect DEF Base
            <4>2. QED
                BY <2>3, <4>1 DEF Stored, StoredIn
        <3>3. QED
            BY <3>1, <3>2
    <2>4. QED
        BY <1>3, <2>1, <2>2, <2>3 DEF Stored, StoredIn
<1>4. ASSUME NEW r, Stored(r)' PROVE Stored(r)
    <2>1. CASE \E file \in salvaged' : r \in file.recs
        BY <1>1, <2>1, OpenEffect DEF Base, Stored, StoredIn
    <2>2. CASE \E g \in Feeds, h \in Hours : r \in final'[g][h].recs \/ r \in r2'[g][h].recs
        BY <2>2, OpenEffect DEF Base, Stored, StoredIn
    <2>3. CASE \E g \in Feeds, h \in Hours : r \in partial'[g][h].recs
        BY <2>3, OpenEffect, AbsentFacts DEF Base, Stored, StoredIn
    <2>4. QED
        BY <1>4, <2>1, <2>2, <2>3 DEF Stored, StoredIn
<1>5. QED
    BY <1>3, <1>4, DurableMember

(* Draining and flushing move the buffer of the feed to its open file.     *)
LEMMA WriteOutDurable ==
    ASSUME Base, NEW f \in Feeds, NEW k \in Hours, NEW file,
           file.recs = partial[f][k].recs \cup buffer[f],
           \A g \in Feeds, h \in Hours : partial'[g][h] =
               IF g = f /\ h = k THEN file ELSE partial[g][h],
           UNCHANGED <<salvaged, final, r2>>
    PROVE  Durable' = Durable \cup buffer[f]
<1>1. ASSUME NEW r, Stored(r) PROVE Stored(r)'
    BY <1>1 DEF Stored, StoredIn
<1>2. ASSUME NEW r \in buffer[f] PROVE Stored(r)'
    BY <1>2 DEF Stored, StoredIn
<1>3. ASSUME NEW r, Stored(r)' PROVE Stored(r) \/ r \in buffer[f]
    BY <1>3 DEF Stored, StoredIn
<1>4. QED
    BY <1>1, <1>2, <1>3, DurableMember

LEMMA RenameDurable ==
    ASSUME Base, AbsentIsEmpty, NothingToReplace, NEW f \in Feeds, RenameShard(f)
    PROVE  Durable' = Durable
<1> DEFINE k == oldHour[f]
<1>1. k \in Hours
    BY RenameEffect DEF Base
<1>2. ~Exists(final[f][k])
    <2>1. step[f] = "rename" /\ ~(k < k)
        BY <1>1, HourOrder DEF RenameShard
    <2>2. QED
        BY <1>1, <2>1 DEF NothingToReplace, Finalised
<1>3. final[f][k].recs = {}
    BY <1>1, <1>2, AbsentFacts DEF AbsentIsEmpty
<1>4. ASSUME NEW r, Stored(r) PROVE Stored(r)'
    <2>1. CASE \E file \in salvaged : r \in file.recs
        BY <2>1, RenameEffect DEF Base, Stored, StoredIn
    <2>2. CASE \E g \in Feeds, h \in Hours : r \in r2[g][h].recs
        BY <2>2, RenameEffect DEF Base, Stored, StoredIn
    <2>3. ASSUME NEW g \in Feeds, NEW h \in Hours,
                 r \in partial[g][h].recs \/ r \in final[g][h].recs
          PROVE  r \in partial'[g][h].recs \/ r \in final'[g][h].recs
        BY <1>3, <2>3, RenameEffect DEF Base
    <2>4. QED
        BY <1>4, <2>1, <2>2, <2>3 DEF Stored, StoredIn
<1>5. ASSUME NEW r, Stored(r)' PROVE Stored(r)
    <2>1. CASE \E file \in salvaged' : r \in file.recs
        BY <2>1, RenameEffect DEF Base, Stored, StoredIn
    <2>2. CASE \E g \in Feeds, h \in Hours : r \in r2'[g][h].recs
        BY <2>2, RenameEffect DEF Base, Stored, StoredIn
    <2>3. ASSUME NEW g \in Feeds, NEW h \in Hours,
                 r \in partial'[g][h].recs \/ r \in final'[g][h].recs
          PROVE  r \in partial[g][h].recs \/ r \in final[g][h].recs
        BY <2>3, RenameEffect, AbsentFacts DEF Base
    <2>4. QED
        BY <1>5, <2>1, <2>2, <2>3 DEF Stored, StoredIn
<1>6. QED
    BY <1>4, <1>5, DurableMember

LEMMA UploadDurable ==
    ASSUME Base, AbsentIsEmpty, CopiesAgree,
           NEW f \in Feeds, UploadShard(f) \/ UploadFails(f)
    PROVE  Durable' = Durable
<1>1. oldHour[f] \in Hours /\ ~Exists(r2[f][oldHour[f]])
    BY UploadEffect DEF Base, CopiesAgree, UploadShard, UploadFails
<1>2. r2[f][oldHour[f]].recs = {}
    BY <1>1, AbsentFacts DEF AbsentIsEmpty
<1>3. /\ UNCHANGED <<salvaged, partial, final>>
      /\ \A g \in Feeds, h \in Hours :
            /\ r2[g][h].recs \subseteq r2'[g][h].recs
            /\ r2'[g][h].recs \subseteq r2[g][h].recs \cup final[g][h].recs
    BY <1>2, UploadEffect DEF Base, diskVars
<1>4. \A r : Stored(r) <=> Stored(r)'
    BY <1>3 DEF Stored, StoredIn
<1>5. QED
    BY <1>4, DurableMember

LEMMA UnlinkDurable ==
    ASSUME Base, CopiesAgree, NEW f \in Feeds, UnlinkShard(f)
    PROVE  Durable' = Durable
<1>1. oldHour[f] \in Hours /\ r2[f][oldHour[f]] = final[f][oldHour[f]]
    BY UnlinkEffect DEF Base, CopiesAgree, UnlinkShard
<1>2. /\ UNCHANGED <<salvaged, partial, r2>>
      /\ \A g \in Feeds, h \in Hours :
            /\ final'[g][h].recs \subseteq final[g][h].recs
            /\ final[g][h].recs \subseteq final'[g][h].recs \cup r2[g][h].recs
    BY <1>1, UnlinkEffect, AbsentFacts DEF Base
<1>3. \A r : Stored(r) <=> Stored(r)'
    BY <1>2 DEF Stored, StoredIn
<1>4. QED
    BY <1>3, DurableMember

-----------------------------------------------------------------------------
(* How a step that writes no file moves the hours of a feed.               *)
QuietHours(g) ==
    /\ shards'[g] \in {shards[g], NoHour}
    /\ step'[g] \in {"flush", "rename"} =>
           \/ step[g] = step'[g] /\ oldHour'[g] = oldHour[g]
           \/ shards[g] # NoHour /\ oldHour'[g] = shards[g]
    /\ step'[g] \in {"stat", "upload"} =>
           step[g] \in {"stat", "upload"} /\ oldHour'[g] = oldHour[g]
    /\ step'[g] = "unlink" => step[g] = "unlink" /\ oldHour'[g] = oldHour[g]
    /\ \/ writeHour'[g] \in {writeHour[g], NoHour}
       \/ writeHour'[g] = hour /\ proc \in {"up", "stopping"}
    /\ hour <= hour'
    /\ proc' \in {"up", "stopping"} =>
           \/ proc \in {"up", "stopping"}
           \/ SameHourRestart
           \/ ~Finalised(g, hour)

LEMMA QuietSteps ==
    ASSUME Base, [Next]_vars, ~ \E f \in Feeds : DiskStep(f), NEW g \in Feeds
    PROVE  QuietHours(g)
<1>h. hour \in Nat /\ hour <= hour /\ hour <= hour + 1
    BY HourOrder DEF Base, TypeOK
<1> USE <1>h DEF QuietHours, Base, TypeOK, procVars, callVars
<1>1. ASSUME NEW f \in Feeds, BeginPoll(f) PROVE QuietHours(g)
    BY <1>1 DEF BeginPoll, Goto
<1>2. ASSUME NEW f \in Feeds, FetchFails(f) PROVE QuietHours(g)
    BY <1>2 DEF FetchFails, EndCall
<1>3. ASSUME NEW f \in Feeds, OpenFails(f) PROVE QuietHours(g)
    BY <1>3 DEF OpenFails, EndCall
<1>4. ASSUME NEW f \in Feeds, Compress(f) PROVE QuietHours(g)
    BY <1>4 DEF Compress, EndCall
<1>5. ASSUME NEW f \in Feeds, FlushFails(f) PROVE QuietHours(g)
    BY <1>5 DEF FlushFails, ClosedShard, EndCall, Goto
<1>6. ASSUME NEW f \in Feeds, RenameFails(f) PROVE QuietHours(g)
    BY <1>6 DEF RenameFails, ClosedShard, EndCall, Goto
<1>7. ASSUME NEW f \in Feeds, StatShard(f) PROVE QuietHours(g)
    BY <1>7 DEF StatShard, ClosedShard, EndCall, Goto
<1>8. ASSUME NEW f \in Feeds, UnlinkFails(f) PROVE QuietHours(g)
    BY <1>8 DEF UnlinkFails, ClosedShard, EndCall, Goto
<1>9. ASSUME NEW f \in Feeds, StatFails(f) PROVE QuietHours(g)
    BY <1>9 DEF StatFails, EndCall, LoseMemory
<1>10. ASSUME NEW f \in Feeds, CloseNext(f) PROVE QuietHours(g)
    BY <1>10 DEF CloseNext, EnterCloseShard
<1>11. ASSUME NEW f \in Feeds, NEW r \in Records, Write(f, r) PROVE QuietHours(g)
    BY <1>11 DEF Write, EnterCloseShard, CallShape, Shape
<1>12. CASE Crash
    BY <1>12 DEF Crash, LoseMemory
<1>13. CASE Start
    BY <1>13 DEF Start, Finalised
<1>14. CASE Signal \/ BeginClose \/ Exit \/ HourPasses
    BY <1>14 DEF Signal, BeginClose, Exit, HourPasses
<1>15. CASE UNCHANGED vars
    BY <1>15 DEF vars
<1>16. QED
    BY <1>1, <1>2, <1>3, <1>4, <1>5, <1>6, <1>7, <1>8, <1>9, <1>10, <1>11, <1>12, <1>13, <1>14, <1>15
    DEF Next, CallStep, CloseStep, CloseArchive, DiskStep

(* How any step moves the records between write() calls and buffers.       *)
Accepts(f) ==
    /\ buffer' = [buffer EXCEPT ![f] = @ \cup pending[f]]
    /\ pending' = [pending EXCEPT ![f] = {}]
    /\ offered' = offered
Offers(f, r) ==
    /\ r \notin offered
    /\ offered' = offered \cup {r}
    /\ pending' = [pending EXCEPT ![f] = {r}]
    /\ buffer' = buffer
Forgets ==
    /\ offered' = offered
    /\ \A g \in Feeds : pending'[g] \in {pending[g], {}}
    /\ \A g \in Feeds : buffer'[g] \in {buffer[g], {}}

LEMMA MemorySteps ==
    ASSUME Base, [Next]_vars
    PROVE  \/ \E f \in Feeds : Compress(f) /\ Accepts(f)
           \/ \E f \in Feeds, r \in Records : Write(f, r) /\ Offers(f, r)
           \/ Forgets
<1> USE DEF Base, TypeOK, procVars, callVars, ghostVars
<1>1. ASSUME NEW f \in Feeds, Compress(f) PROVE Accepts(f)
    BY <1>1 DEF Compress, EndCall, Accepts
<1>2. ASSUME NEW f \in Feeds, NEW r \in Records, Write(f, r) PROVE Offers(f, r)
    BY <1>2 DEF Write, Offers
<1>3. ASSUME NEW f \in Feeds, BeginPoll(f) PROVE Forgets
    BY <1>3 DEF BeginPoll, Goto, Forgets
<1>4. ASSUME NEW f \in Feeds, FetchFails(f) PROVE Forgets
    BY <1>4 DEF FetchFails, EndCall, Forgets
<1>5. ASSUME NEW f \in Feeds, OpenFails(f) PROVE Forgets
    BY <1>5 DEF OpenFails, EndCall, Forgets
<1>6. ASSUME NEW f \in Feeds, FlushFails(f) PROVE Forgets
    BY <1>6 DEF FlushFails, ClosedShard, EndCall, Goto, Forgets
<1>7. ASSUME NEW f \in Feeds, RenameFails(f) PROVE Forgets
    BY <1>7 DEF RenameFails, ClosedShard, EndCall, Goto, Forgets
<1>8. ASSUME NEW f \in Feeds, StatShard(f) PROVE Forgets
    BY <1>8 DEF StatShard, ClosedShard, EndCall, Goto, Forgets
<1>9. ASSUME NEW f \in Feeds, UnlinkFails(f) PROVE Forgets
    BY <1>9 DEF UnlinkFails, ClosedShard, EndCall, Goto, Forgets
<1>10. ASSUME NEW f \in Feeds, StatFails(f) PROVE Forgets
    BY <1>10 DEF StatFails, EndCall, LoseMemory, Forgets
<1>11. ASSUME NEW f \in Feeds, CloseNext(f) PROVE Forgets
    BY <1>11 DEF CloseNext, EnterCloseShard, Forgets
<1>12. ASSUME NEW f \in Feeds, OpenShard(f) PROVE Forgets
    BY <1>12 DEF OpenShard, Goto, Forgets
<1>13. ASSUME NEW f \in Feeds, Drain(f) PROVE Forgets
    BY <1>13 DEF Drain, Goto, Forgets
<1>14. ASSUME NEW f \in Feeds, FlushShard(f) PROVE Forgets
    BY <1>14 DEF FlushShard, Goto, Forgets
<1>15. ASSUME NEW f \in Feeds, RenameShard(f) PROVE Forgets
    BY <1>15 DEF RenameShard, Goto, Forgets
<1>16. ASSUME NEW f \in Feeds, UploadShard(f) PROVE Forgets
    BY <1>16 DEF UploadShard, ClosedShard, EndCall, Goto, Forgets
<1>17. ASSUME NEW f \in Feeds, UploadFails(f) PROVE Forgets
    BY <1>17 DEF UploadFails, ClosedShard, EndCall, Goto, Forgets
<1>18. ASSUME NEW f \in Feeds, UnlinkShard(f) PROVE Forgets
    BY <1>18 DEF UnlinkShard, ClosedShard, EndCall, Goto, Forgets
<1>19. CASE Crash
    BY <1>19 DEF Crash, LoseMemory, Forgets
<1>20. CASE Start \/ Signal \/ BeginClose \/ Exit \/ HourPasses \/ UNCHANGED vars
    BY <1>20 DEF Start, Signal, BeginClose, Exit, HourPasses, vars, Forgets
<1>21. QED
    BY <1>1, <1>2, <1>3, <1>4, <1>5, <1>6, <1>7, <1>8, <1>9, <1>10, <1>11, <1>12, <1>13, <1>14, <1>15, <1>16, <1>17, <1>18, <1>19, <1>20
    DEF Next, CallStep, CloseStep, CloseArchive

-----------------------------------------------------------------------------
(* A disk step of one feed leaves the calls and the files of the others.   *)
LEMMA OtherFeeds ==
    ASSUME Base, NEW f \in Feeds, DiskStep(f), NEW g \in Feeds, f # g
    PROVE  /\ step'[g] = step[g]
           /\ shards'[g] = shards[g]
           /\ oldHour'[g] = oldHour[g]
           /\ writeHour'[g] = writeHour[g]
           /\ \A h \in Hours : /\ partial'[g][h] = partial[g][h]
                               /\ final'[g][h] = final[g][h]
                               /\ r2'[g][h] = r2[g][h]
<1> USE DEF Base
<1>1. CASE OpenShard(f)
    <2>1. \A h \in Hours : /\ partial'[g][h] = partial[g][h]
                           /\ final'[g][h] = final[g][h]
                           /\ r2'[g][h] = r2[g][h]
        BY <1>1, OpenEffect
    <2>2. /\ step'[g] = step[g] /\ shards'[g] = shards[g]
          /\ UNCHANGED <<oldHour, writeHour>>
        BY <1>1 DEF OpenShard, Goto, TypeOK
    <2>3. QED
        BY <2>1, <2>2
<1>2. CASE Drain(f)
    <2>1. \A h \in Hours : /\ partial'[g][h] = partial[g][h]
                           /\ final'[g][h] = final[g][h]
                           /\ r2'[g][h] = r2[g][h]
        BY <1>2, DrainEffect
    <2>2. UNCHANGED <<shards, step, oldHour, writeHour>>
        BY <1>2 DEF Drain, callVars
    <2>3. QED
        BY <2>1, <2>2
<1>3. CASE FlushShard(f)
    <2>1. \A h \in Hours : /\ partial'[g][h] = partial[g][h]
                           /\ final'[g][h] = final[g][h]
                           /\ r2'[g][h] = r2[g][h]
        BY <1>3, FlushEffect
    <2>2. QED
        BY <1>3, <2>1 DEF FlushShard, Goto, TypeOK
<1>4. CASE RenameShard(f)
    <2>1. \A h \in Hours : /\ partial'[g][h] = partial[g][h]
                           /\ final'[g][h] = final[g][h]
                           /\ r2'[g][h] = r2[g][h]
        BY <1>4, RenameEffect
    <2>2. QED
        BY <1>4, <2>1 DEF RenameShard, Goto, TypeOK
<1>5. CASE UploadShard(f) \/ UploadFails(f)
    <2>1. \A h \in Hours : /\ partial'[g][h] = partial[g][h]
                           /\ final'[g][h] = final[g][h]
                           /\ r2'[g][h] = r2[g][h]
        BY <1>5, UploadEffect DEF diskVars
    <2>2. QED
        BY <1>5, <2>1 DEF UploadShard, UploadFails, ClosedShard, EndCall, Goto, TypeOK
<1>6. CASE UnlinkShard(f)
    <2>1. \A h \in Hours : /\ partial'[g][h] = partial[g][h]
                           /\ final'[g][h] = final[g][h]
                           /\ r2'[g][h] = r2[g][h]
        BY <1>6, UnlinkEffect
    <2>2. QED
        BY <1>6, <2>1 DEF UnlinkShard, ClosedShard, EndCall, Goto, TypeOK
<1>7. QED
    BY <1>1, <1>2, <1>3, <1>4, <1>5, <1>6 DEF DiskStep

LEMMA DiskStepsStay ==
    ASSUME NEW f \in Feeds, DiskStep(f)
    PROVE  proc' = proc /\ hour' = hour
BY DEF DiskStep, OpenShard, Drain, FlushShard, RenameShard, UploadShard,
       UploadFails, UnlinkShard, procVars

(* How a disk step moves the hours of its own feed.                        *)
LEMMA OwnHours ==
    ASSUME Base, NEW f \in Feeds, DiskStep(f)
    PROVE  /\ OpenShard(f) => /\ step'[f] = "compress"
                              /\ shards'[f] = writeHour[f]
                              /\ writeHour'[f] = writeHour[f]
           /\ Drain(f) => /\ step'[f] = step[f]
                          /\ step[f] \in {"idle", "fetch", "compress"}
                          /\ shards'[f] = shards[f]
                          /\ writeHour'[f] = writeHour[f]
           /\ FlushShard(f) => /\ step'[f] = "rename"
                               /\ oldHour'[f] = oldHour[f]
                               /\ shards'[f] = NoHour
                               /\ writeHour'[f] = writeHour[f]
           /\ RenameShard(f) => /\ step'[f] = "stat"
                                /\ oldHour'[f] = oldHour[f]
                                /\ shards'[f] = NoHour
                                /\ writeHour'[f] = writeHour[f]
           /\ UploadShard(f) \/ UploadFails(f) \/ UnlinkShard(f) =>
                  /\ step'[f] \in {"unlink", "idle", "open"}
                  /\ step'[f] = "unlink" => UploadShard(f) /\ oldHour'[f] = oldHour[f]
                  /\ shards'[f] = NoHour
                  /\ writeHour'[f] \in {writeHour[f], NoHour}
<1> USE DEF Base, TypeOK, Steps, callVars
<1>1. OpenShard(f) => /\ step'[f] = "compress"
                      /\ shards'[f] = writeHour[f]
                      /\ writeHour'[f] = writeHour[f]
    BY DEF OpenShard, Goto
<1>2. Drain(f) => /\ step'[f] = step[f]
                  /\ step[f] \in {"idle", "fetch", "compress"}
                  /\ shards'[f] = shards[f]
                  /\ writeHour'[f] = writeHour[f]
    BY DEF Drain, CallShape, Shape
<1>3. FlushShard(f) => /\ step'[f] = "rename"
                       /\ oldHour'[f] = oldHour[f]
                       /\ shards'[f] = NoHour
                       /\ writeHour'[f] = writeHour[f]
    BY DEF FlushShard, Goto, CallShape, Shape
<1>4. RenameShard(f) => /\ step'[f] = "stat"
                        /\ oldHour'[f] = oldHour[f]
                        /\ shards'[f] = NoHour
                        /\ writeHour'[f] = writeHour[f]
    BY DEF RenameShard, Goto, CallShape, Shape
<1>5. UploadShard(f) => /\ step'[f] \in {"unlink", "idle", "open"}
                        /\ step'[f] = "unlink" => oldHour'[f] = oldHour[f]
                        /\ shards'[f] = NoHour
                        /\ writeHour'[f] \in {writeHour[f], NoHour}
    BY DEF UploadShard, ClosedShard, EndCall, Goto, CallShape, Shape
<1>6. UploadFails(f) \/ UnlinkShard(f) =>
          /\ step'[f] \in {"idle", "open"}
          /\ shards'[f] = NoHour
          /\ writeHour'[f] \in {writeHour[f], NoHour}
    BY DEF UploadFails, UnlinkShard, ClosedShard, EndCall, Goto, CallShape, Shape
<1>7. QED
    BY <1>1, <1>2, <1>3, <1>4, <1>5, <1>6

(* The conjuncts of DurabilityInv, one step lemma each.                    *)
LEMMA AbsentStep ==
    ASSUME Base, AbsentIsEmpty, OpenShardsExist, [Next]_vars
    PROVE  AbsentIsEmpty'
<1>1. CASE QuietDisk
    BY <1>1 DEF QuietDisk, AbsentIsEmpty, diskVars
<1>2. ASSUME NEW f \in Feeds, DiskStep(f), NEW g \in Feeds, NEW h \in Hours
      PROVE  \A file \in {partial'[g][h], final'[g][h], r2'[g][h]} :
                 ~Exists(file) => file = Absent
    <2> USE DEF Base, AbsentIsEmpty
    <2>1. CASE OpenShard(f)
        BY <2>1, OpenEffect, AbsentFacts
    <2>2. CASE Drain(f)
        <3>1. Exists(partial[f][shards[f]]) /\ shards[f] \in Hours
            BY <2>2, DrainEffect DEF OpenShardsExist, Drain
        <3>2. Exists(Extended(partial[f][shards[f]], buffer[f]))
            BY <3>1, ExtendedFacts, FileTyped
        <3>3. QED
            BY <2>2, <3>2, DrainEffect
    <2>3. CASE FlushShard(f)
        <3>1. Exists(partial[f][oldHour[f]]) /\ oldHour[f] \in Hours
            BY <2>3, FlushEffect DEF OpenShardsExist, FlushShard
        <3>2. Exists(Ended(Extended(partial[f][oldHour[f]], buffer[f])))
            BY <3>1, ExtendedFacts, FileTyped
        <3>3. QED
            BY <2>3, <3>2, FlushEffect
    <2>4. CASE RenameShard(f)
        BY <2>4, RenameEffect
    <2>5. CASE UploadShard(f) \/ UploadFails(f)
        BY <2>5, UploadEffect DEF diskVars
    <2>6. CASE UnlinkShard(f)
        BY <2>6, UnlinkEffect
    <2>7. QED
        BY <1>2, <2>1, <2>2, <2>3, <2>4, <2>5, <2>6 DEF DiskStep
<1>3. QED
    BY <1>1, <1>2, DiskSteps DEF Base, AbsentIsEmpty

LEMMA OpenShardsStep ==
    ASSUME Base, OpenShardsExist, [Next]_vars
    PROVE  OpenShardsExist'
<1>1. CASE QuietDisk /\ ~ \E f \in Feeds : DiskStep(f)
    BY <1>1, QuietSteps DEF QuietHours, QuietDisk, diskVars, OpenShardsExist
<1>2. ASSUME NEW f \in Feeds, DiskStep(f), NEW g \in Feeds
      PROVE  /\ shards'[g] # NoHour => Exists(partial'[g][shards'[g]])
             /\ step'[g] \in {"flush", "rename"} => Exists(partial'[g][oldHour'[g]])
    <2>1. CASE f # g
        <3>1. /\ shards[g] \in Hours \cup {NoHour}
              /\ step[g] \in {"flush", "rename"} => oldHour[g] \in Hours
            BY OldHourType DEF Base, TypeOK
        <3>2. QED
            BY <1>2, <2>1, <3>1, OtherFeeds DEF OpenShardsExist
    <2>2. CASE f = g
        <3> USE <1>2, <2>2, OwnHours DEF Base
        <3>1. CASE OpenShard(f)
            BY <3>1, OpenEffect, AbsentFacts
        <3>2. CASE Drain(f)
            <4>1. Exists(partial[f][shards[f]]) /\ shards[f] \in Hours
                BY <3>2, DrainEffect DEF OpenShardsExist, Drain
            <4>2. Exists(Extended(partial[f][shards[f]], buffer[f]))
                BY <4>1, ExtendedFacts, FileTyped
            <4>3. QED
                BY <3>2, <4>1, <4>2, DrainEffect
        <3>3. CASE FlushShard(f)
            <4>1. Exists(partial[f][oldHour[f]]) /\ oldHour[f] \in Hours
                BY <3>3, FlushEffect DEF OpenShardsExist, FlushShard
            <4>2. Exists(Ended(Extended(partial[f][oldHour[f]], buffer[f])))
                BY <4>1, ExtendedFacts, FileTyped
            <4>3. QED
                BY <3>3, <4>1, <4>2, FlushEffect
        <3>4. CASE RenameShard(f) \/ UploadShard(f) \/ UploadFails(f) \/ UnlinkShard(f)
            BY <3>4
        <3>5. QED
            BY <3>1, <3>2, <3>3, <3>4 DEF DiskStep
    <2>3. QED
        BY <2>1, <2>2
<1>3. QED
    BY <1>1, <1>2, DiskSteps DEF Base, OpenShardsExist

LEMMA CopiesStep ==
    ASSUME Base, OpenShardsExist, NothingToReplace, CopiesAgree, [Next]_vars
    PROVE  CopiesAgree'
<1>1. CASE QuietDisk /\ ~ \E f \in Feeds : DiskStep(f)
    BY <1>1, QuietSteps DEF QuietHours, QuietDisk, diskVars, CopiesAgree
<1>2. ASSUME NEW f \in Feeds, DiskStep(f), NEW g \in Feeds
      PROVE  /\ step'[g] \in {"stat", "upload"} => ~Exists(r2'[g][oldHour'[g]])
             /\ step'[g] = "unlink" => r2'[g][oldHour'[g]] = final'[g][oldHour'[g]]
    <2>1. CASE f # g
        <3>1. step[g] \in {"stat", "upload", "unlink"} => oldHour[g] \in Hours
            BY OldHourType DEF Base
        <3>2. QED
            BY <1>2, <2>1, <3>1, OtherFeeds DEF CopiesAgree
    <2>2. CASE f = g
        <3> USE <1>2, <2>2, OwnHours DEF Base
        <3>1. CASE OpenShard(f) \/ Drain(f) \/ FlushShard(f)
            BY <3>1
        <3>2. CASE RenameShard(f)
            <4>1. oldHour[f] \in Hours /\ r2'[f][oldHour[f]] = r2[f][oldHour[f]]
                BY <3>2, RenameEffect
            <4>2. step[f] = "rename" /\ ~(oldHour[f] < oldHour[f])
                BY <3>2, <4>1, HourOrder DEF RenameShard
            <4>3. ~Exists(r2[f][oldHour[f]])
                BY <4>1, <4>2 DEF NothingToReplace, Finalised
            <4>4. QED
                BY <3>2, <4>1, <4>3
        <3>3. CASE UploadShard(f)
            BY <3>3, UploadEffect DEF diskVars
        <3>4. CASE UploadFails(f)
            <4>1. step'[f] \notin {"stat", "upload", "unlink"}
                BY <3>4 DEF UploadFails, ClosedShard, EndCall, Goto, TypeOK
            <4>2. QED
                BY <4>1
        <3>5. CASE UnlinkShard(f)
            <4>1. step'[f] \notin {"stat", "upload", "unlink"}
                BY <3>5 DEF UnlinkShard, ClosedShard, EndCall, Goto, TypeOK
            <4>2. QED
                BY <4>1
        <3>6. QED
            BY <3>1, <3>2, <3>3, <3>4, <3>5 DEF DiskStep
    <2>3. QED
        BY <2>1, <2>2
<1>3. QED
    BY <1>1, <1>2, DiskSteps DEF Base, CopiesAgree

(* The hour order of one feed, for the hour of a finalised shard.          *)
Replaceable(f, h) ==
    /\ h <= hour
    /\ proc \in {"up", "stopping"} => h < hour
    /\ writeHour[f] # NoHour => h < writeHour[f]
    /\ shards[f] # NoHour => h < shards[f]
    /\ step[f] \in {"flush", "rename"} => h < oldHour[f]

LEMMA NothingStep ==
    ASSUME ~SameHourRestart, Base, AbsentIsEmpty, OpenShardsExist,
           NothingToReplace, [Next]_vars
    PROVE  NothingToReplace'
<1>a. \A g \in Feeds, h \in Hours : Finalised(g, h) => Replaceable(g, h)
    BY DEF NothingToReplace, Replaceable
<1>t. /\ hour \in Nat
      /\ \A g \in Feeds : shards[g] \in Int /\ writeHour[g] \in Int /\ oldHour[g] \in Int
    BY HourOrder DEF Base, TypeOK
<1>1. ASSUME QuietDisk, ~ \E f \in Feeds : DiskStep(f),
             NEW g \in Feeds, NEW h \in Hours, Finalised(g, h)'
      PROVE  Replaceable(g, h)'
    <2>1. Finalised(g, h) /\ Replaceable(g, h)
        BY <1>1, <1>a DEF QuietDisk, diskVars, Finalised
    <2>2. QuietHours(g)
        BY <1>1, QuietSteps
    <2>3. h \in Nat /\ hour' \in Nat /\ hour <= hour'
        <3>1. hour' \in Nat
            BY TypeStep, HourOrder DEF Base, TypeOK
        <3>2. QED
            BY <2>2, <3>1, HourOrder DEF QuietHours
    <2>4. h <= hour'
        BY <1>t, <2>1, <2>3 DEF Replaceable
    <2>5. proc' \in {"up", "stopping"} => h < hour'
        <3>1. ~(h = hour /\ ~Finalised(g, hour))
            BY <2>1
        <3>2. QED
            BY <1>t, <2>1, <2>2, <2>3, <3>1 DEF Replaceable, QuietHours
    <2>6. writeHour'[g] # NoHour => h < writeHour'[g]
        BY <1>t, <2>1, <2>2 DEF Replaceable, QuietHours
    <2>7. shards'[g] # NoHour => h < shards'[g]
        BY <1>t, <2>1, <2>2 DEF Replaceable, QuietHours
    <2>8. step'[g] \in {"flush", "rename"} => h < oldHour'[g]
        BY <1>t, <2>1, <2>2 DEF Replaceable, QuietHours
    <2>9. QED
        BY <2>4, <2>5, <2>6, <2>7, <2>8 DEF Replaceable
<1>2. ASSUME NEW f \in Feeds, DiskStep(f),
             NEW g \in Feeds, NEW h \in Hours, Finalised(g, h)'
      PROVE  Replaceable(g, h)'
    <2>1. proc' = proc /\ hour' = hour
        BY <1>2, DiskStepsStay
    <2>2. CASE f # g
        <3>1. Finalised(g, h)
            BY <1>2, <2>2, OtherFeeds DEF Finalised
        <3>2. QED
            BY <1>2, <1>a, <2>1, <2>2, <3>1, OtherFeeds DEF Replaceable
    <2>3. CASE f = g /\ Finalised(f, h)
        <3>1. Replaceable(f, h)
            BY <1>a, <2>3
        <3>2. CASE OpenShard(f)
            <4>1. writeHour[f] # NoHour
                BY <3>2, OpenEffect, HourOrder DEF Base
            <4>2. QED
                BY <1>2, <2>1, <2>3, <3>1, <3>2, <4>1, OwnHours DEF Replaceable
        <3>3. CASE Drain(f)
            BY <1>2, <2>1, <2>3, <3>1, <3>3, OwnHours DEF Replaceable
        <3>4. CASE FlushShard(f)
            BY <1>2, <2>1, <2>3, <3>1, <3>4, OwnHours DEF Replaceable, FlushShard
        <3>5. CASE RenameShard(f) \/ UploadShard(f) \/ UploadFails(f) \/ UnlinkShard(f)
            BY <1>2, <2>1, <2>3, <3>1, <3>5, OwnHours DEF Replaceable
        <3>6. QED
            BY <1>2, <3>2, <3>3, <3>4, <3>5 DEF DiskStep
    <2>4. CASE f = g /\ ~Finalised(f, h)
        <3>1. RenameShard(f) /\ h = oldHour[f]
            <4>1. CASE OpenShard(f)
                BY <1>2, <2>4, <4>1, OpenEffect DEF Base, Finalised
            <4>2. CASE Drain(f)
                BY <1>2, <2>4, <4>2, DrainEffect DEF Base, Finalised
            <4>3. CASE FlushShard(f)
                BY <1>2, <2>4, <4>3, FlushEffect DEF Base, Finalised
            <4>4. CASE RenameShard(f)
                BY <1>2, <2>4, <4>4, RenameEffect DEF Base, Finalised
            <4>5. CASE UploadShard(f) \/ UploadFails(f)
                BY <1>2, <2>4, <4>5, UploadEffect DEF Base, Finalised, diskVars
            <4>6. CASE UnlinkShard(f)
                BY <1>2, <2>4, <4>6, UnlinkEffect, AbsentFacts DEF Base, Finalised
            <4>7. QED
                BY <1>2, <4>1, <4>2, <4>3, <4>4, <4>5, <4>6 DEF DiskStep
        <3>2. /\ oldHour[f] # NoHour
              /\ oldHour[f] <= hour
              /\ proc = "closing" => writeHour[f] = NoHour
              /\ proc = "closing" \/ oldHour[f] < writeHour[f]
              /\ writeHour[f] <= hour
            BY <3>1, HourOrder DEF Base, CallShape, Shape, RenameShard
        <3>3. QED
            BY <1>2, <1>t, <2>1, <2>4, <3>1, <3>2, OwnHours DEF Replaceable
    <2>5. QED
        BY <2>2, <2>3, <2>4
<1>3. ASSUME NEW g \in Feeds, NEW h \in Hours, Finalised(g, h)'
      PROVE  Replaceable(g, h)'
    BY <1>1, <1>2, <1>3, DiskSteps DEF Base
<1>4. QED
    BY <1>3 DEF NothingToReplace, Replaceable

-----------------------------------------------------------------------------
(* What any step does to the stored records: nothing, or the buffer of one *)
(* feed is written out.                                                    *)
WritesOut(f) ==
    /\ Durable' = Durable \cup buffer[f]
    /\ buffer' = [buffer EXCEPT ![f] = {}]
    /\ Forgets

LEMMA DurableSteps ==
    ASSUME Base, AbsentIsEmpty, NothingToReplace, CopiesAgree, [Next]_vars
    PROVE  Durable' = Durable \/ \E f \in Feeds : WritesOut(f)
<1>1. CASE QuietDisk
    <2>1. \A r : Stored(r) <=> Stored(r)'
        BY <1>1 DEF QuietDisk, diskVars, Stored, StoredIn
    <2>2. QED
        BY <2>1, DurableMember
<1>2. ASSUME NEW f \in Feeds, Drain(f) PROVE WritesOut(f)
    <2>1. Extended(partial[f][shards[f]], buffer[f]).recs
              = partial[f][shards[f]].recs \cup buffer[f]
        BY <1>2, DrainEffect, FileTyped, ExtendedFacts DEF Base
    <2>2. Durable' = Durable \cup buffer[f]
        BY <1>2, <2>1, DrainEffect, WriteOutDurable DEF Base
    <2>3. QED
        BY <1>2, <2>2 DEF WritesOut, Drain, Forgets, callVars, ghostVars, Base, TypeOK
<1>3. ASSUME NEW f \in Feeds, FlushShard(f) PROVE WritesOut(f)
    <2>1. Ended(Extended(partial[f][oldHour[f]], buffer[f])).recs
              = partial[f][oldHour[f]].recs \cup buffer[f]
        BY <1>3, FlushEffect, FileTyped, ExtendedFacts DEF Base
    <2>2. Durable' = Durable \cup buffer[f]
        BY <1>3, <2>1, FlushEffect, WriteOutDurable DEF Base
    <2>3. QED
        BY <1>3, <2>2 DEF WritesOut, FlushShard, Goto, Forgets, ghostVars, Base, TypeOK
<1>4. ASSUME NEW f \in Feeds,
             OpenShard(f) \/ RenameShard(f) \/ UploadShard(f) \/ UploadFails(f) \/ UnlinkShard(f)
      PROVE  Durable' = Durable
    BY <1>4, OpenDurable, RenameDurable, UploadDurable, UnlinkDurable
<1>5. QED
    BY <1>1, <1>2, <1>3, <1>4, DiskSteps DEF Base, DiskStep

(* Only #closeShard and the file streams touch the disk: write() itself    *)
(* stores nothing.                                                         *)
LEMMA CallsStoreNothing ==
    ASSUME Base, NEW f \in Feeds, Compress(f) \/ \E r \in Records : Write(f, r)
    PROVE  Durable' = Durable
<1>1. UNCHANGED <<salvaged, partial, final, r2>>
    BY DEF Compress, Write, diskVars
<1>2. \A r : Stored(r) <=> Stored(r)'
    BY <1>1 DEF Stored, StoredIn
<1>3. QED
    BY <1>2, DurableMember

LEMMA VolatileMember ==
    /\ \A r : r \in Volatile <=> \E f \in Feeds : r \in buffer[f]
    /\ \A r : r \in Volatile' <=> \E f \in Feeds : r \in buffer'[f]
BY DEF Volatile

LEMMA ApartStep ==
    ASSUME Base, AbsentIsEmpty, NothingToReplace, CopiesAgree, RecordsApart,
           [Next]_vars
    PROVE  RecordsApart'
<1> USE DEF Base, TypeOK, RecordsApart
<1>1. ASSUME NEW f \in Feeds, Compress(f), Accepts(f) PROVE RecordsApart'
    <2>1. Durable' = Durable
        BY <1>1, CallsStoreNothing
    <2>2. /\ \A g \in Feeds : pending'[g] = IF g = f THEN {} ELSE pending[g]
          /\ \A g \in Feeds : buffer'[g] =
                 IF g = f THEN buffer[f] \cup pending[f] ELSE buffer[g]
          /\ offered' = offered
        BY <1>1 DEF Accepts
    <2>3. \A r : r \in Volatile' <=> r \in Volatile \/ r \in pending[f]
        <3>1. ASSUME NEW r
              PROVE  (\E g \in Feeds : r \in buffer'[g])
                         <=> (\E g \in Feeds : r \in buffer[g]) \/ r \in pending[f]
            BY ONLY <2>2, f \in Feeds
        <3>2. QED
            BY ONLY <3>1, VolatileMember
    <2>4. Durable' \cup Volatile' \subseteq offered'
        BY <2>1, <2>2, <2>3
    <2>5. ASSUME NEW g \in Feeds
          PROVE  /\ pending'[g] \subseteq offered'
                 /\ \A r, s \in pending'[g] : r = s
                 /\ pending'[g] \cap (Durable' \cup Volatile') = {}
        <3>1. pending'[g] # {} => g # f /\ pending'[g] = pending[g]
            BY ONLY <2>2, f \in Feeds, g \in Feeds
        <3>2. /\ pending[g] \subseteq offered
              /\ \A r, s \in pending[g] : r = s
              /\ pending[g] \cap (Durable \cup Volatile) = {}
              /\ g # f => pending[f] \cap pending[g] = {}
            OBVIOUS
        <3> QED BY ONLY <2>1, <2>2, <2>3, <3>1, <3>2
    <2>6. ASSUME NEW g \in Feeds, NEW k \in Feeds, g # k
          PROVE  /\ pending'[g] \cap pending'[k] = {}
                 /\ buffer'[g] \cap buffer'[k] = {}
        <3>1. pending'[g] \cap pending'[k] = {}
            BY <2>2, <2>6
        <3>2. ASSUME NEW r, r \in buffer'[g], r \in buffer'[k] PROVE FALSE
            <4>1. r \in Volatile => r \notin pending[f]
                OBVIOUS
            <4>2. buffer[g] \cap buffer[k] = {}
                BY <2>6
            <4>3. QED
                BY ONLY <2>2, <2>6, <3>2, <4>1, <4>2, VolatileMember,
                   f \in Feeds, g \in Feeds, k \in Feeds
        <3>3. QED
            BY <3>1, <3>2
    <2>7. QED
        BY <2>4, <2>5, <2>6
<1>2. ASSUME NEW f \in Feeds, NEW r \in Records, Write(f, r), Offers(f, r)
      PROVE  RecordsApart'
    <2>1. Durable' = Durable
        BY <1>2, CallsStoreNothing
    <2>2. /\ \A g \in Feeds : pending'[g] = IF g = f THEN {r} ELSE pending[g]
          /\ buffer' = buffer
          /\ r \notin offered
          /\ offered' = offered \cup {r}
        BY <1>2 DEF Offers
    <2>3. \A s : s \in Volatile' <=> s \in Volatile
        BY <2>2, VolatileMember
    <2>4. Durable' \cup Volatile' \subseteq offered'
        BY <2>1, <2>2, <2>3
    <2>5. ASSUME NEW g \in Feeds
          PROVE  /\ pending'[g] \subseteq offered'
                 /\ \A q, s \in pending'[g] : q = s
                 /\ pending'[g] \cap (Durable' \cup Volatile') = {}
        <3>1. CASE g = f
            BY <2>1, <2>2, <2>3, <3>1
        <3>2. CASE g # f
            BY <2>1, <2>2, <2>3, <3>2
        <3>3. QED
            BY <3>1, <3>2
    <2>6. ASSUME NEW g \in Feeds, NEW k \in Feeds, g # k
          PROVE  /\ pending'[g] \cap pending'[k] = {}
                 /\ buffer'[g] \cap buffer'[k] = {}
        <3>1. r \notin pending[g] /\ r \notin pending[k]
            BY <2>2
        <3>2. pending[g] \cap pending[k] = {} /\ buffer[g] \cap buffer[k] = {}
            BY <2>6
        <3>3. /\ pending'[g] = IF g = f THEN {r} ELSE pending[g]
              /\ pending'[k] = IF k = f THEN {r} ELSE pending[k]
              /\ buffer' = buffer
            BY <2>2
        <3>4. QED
            BY ONLY <2>6, <3>1, <3>2, <3>3
    <2>7. QED
        BY <2>4, <2>5, <2>6
<1>3. CASE Forgets
    <2>1. /\ offered' = offered
          /\ \A g \in Feeds : pending'[g] = pending[g] \/ pending'[g] = {}
          /\ \A g \in Feeds : buffer'[g] = buffer[g] \/ buffer'[g] = {}
        BY <1>3 DEF Forgets
    <2>2. \A r : r \in Volatile' => r \in Volatile
        BY <2>1, VolatileMember
    <2>3. \A r : r \in Durable' => r \in Durable \/ r \in Volatile
        BY DurableSteps, VolatileMember DEF WritesOut
    <2>4. Durable' \cup Volatile' \subseteq offered'
        BY <2>1, <2>2, <2>3
    <2>5. ASSUME NEW g \in Feeds
          PROVE  /\ pending'[g] \subseteq offered'
                 /\ \A r, s \in pending'[g] : r = s
                 /\ pending'[g] \cap (Durable' \cup Volatile') = {}
        BY <2>1, <2>2, <2>3
    <2>6. ASSUME NEW g \in Feeds, NEW k \in Feeds, g # k
          PROVE  /\ pending'[g] \cap pending'[k] = {}
                 /\ buffer'[g] \cap buffer'[k] = {}
        BY <2>1, <2>6
    <2>7. QED
        BY <2>4, <2>5, <2>6
<1>4. QED
    BY <1>1, <1>2, <1>3, MemorySteps

LEMMA DurabilityInit == Init => DurabilityInv
<1> SUFFICES ASSUME Init PROVE DurabilityInv
    OBVIOUS
<1>1. AbsentIsEmpty /\ OpenShardsExist /\ CopiesAgree
    BY DEF Init, AbsentIsEmpty, OpenShardsExist, CopiesAgree
<1>2. NothingToReplace
    BY AbsentFacts DEF Init, NothingToReplace, Finalised
<1>3. RecordsApart
    <2>1. \A r : ~Stored(r)
        BY AbsentFacts DEF Init, Stored, StoredIn
    <2>2. Durable = {} /\ Volatile = {}
        BY <2>1, DurableMember, VolatileMember DEF Init
    <2>3. QED
        BY <2>2 DEF Init, RecordsApart
<1>4. QED
    BY <1>1, <1>2, <1>3 DEF DurabilityInv

LEMMA DurabilityStep ==
    ASSUME ~SameHourRestart
    PROVE  TypeOK /\ CallShape /\ DurabilityInv /\ [Next]_vars => DurabilityInv'
BY AbsentStep, OpenShardsStep, CopiesStep, NothingStep, ApartStep DEF DurabilityInv, Base

(* With no restart inside a finalised hour, the files and the calls stand  *)
(* in the order of their hours, which is why no rename, upload or unlink   *)
(* ever replaces the only copy of a record.                                *)
THEOREM ArchiveInvariant ==
    ASSUME ~SameHourRestart
    PROVE  Spec => []DurabilityInv
BY DurabilityInit, DurabilityStep, TypeCorrect, PTL DEF Spec

(* "The record of record" of archive.ts: what has reached a file or R2     *)
(* stays in some file or in R2, across rollovers, kills and restarts.      *)
THEOREM StoredRecordsStay ==
    ASSUME ~SameHourRestart
    PROVE  Spec => StoredForever
<1>1. TypeOK /\ CallShape /\ DurabilityInv /\ [Next]_vars => [Durable \subseteq Durable']_vars
    BY DurableSteps DEF DurabilityInv, Base, WritesOut
<1>2. QED
    BY <1>1, ArchiveInvariant, TypeCorrect, PTL DEF Spec, StoredForever

(* The archive implements DurableLog: a poll is accepted when its write()  *)
(* resolves, becomes durable when its shard is written out, and is dropped *)
(* only from memory, by a kill or an I/O error.                            *)
THEOREM ArchiveImplementsLog ==
    ASSUME ~SameHourRestart
    PROVE  Spec => ImplementsLog
<1>1. Init => Log!Init
    <2> SUFFICES ASSUME Init PROVE Log!Init
        OBVIOUS
    <2>1. \A r : ~Stored(r)
        BY AbsentFacts DEF Init, Stored, StoredIn
    <2>2. QED
        BY <2>1, DurableMember, VolatileMember DEF Init, Log!Init
<1>2. TypeOK /\ CallShape /\ DurabilityInv /\ [Next]_vars => [Log!Next]_(Log!vars)
    <2> SUFFICES ASSUME Base, DurabilityInv, [Next]_vars
                 PROVE  Log!Next \/ (Volatile' = Volatile /\ Durable' = Durable)
        BY DEF Base, Log!vars
    <2> USE DEF Base, TypeOK, DurabilityInv
    <2>1. ASSUME NEW f \in Feeds, WritesOut(f)
          PROVE  Log!Persist(buffer[f]) /\ buffer[f] \in SUBSET Records
        <3>1. \A g \in Feeds : buffer'[g] = IF g = f THEN {} ELSE buffer[g]
            BY <2>1 DEF WritesOut
        <3>2. \A g \in Feeds : g # f => buffer[f] \cap buffer[g] = {}
            BY DEF RecordsApart
        <3>3. \A r : (\E g \in Feeds : r \in buffer'[g])
                  <=> (\E g \in Feeds : r \in buffer[g]) /\ r \notin buffer[f]
            BY ONLY <3>1, <3>2, f \in Feeds
        <3>4. Volatile' = Volatile \ buffer[f] /\ buffer[f] \subseteq Volatile
            BY <3>3, VolatileMember
        <3>5. QED
            BY <2>1, <3>4 DEF WritesOut, Log!Persist
    <2>2. ASSUME Durable' = Durable, Forgets
          PROVE  Log!Drop(Volatile \ Volatile') /\ Volatile \ Volatile' \in SUBSET Records
        <3>1. Volatile' \subseteq Volatile
            BY <2>2, VolatileMember DEF Forgets
        <3>2. Volatile \subseteq Records
            BY VolatileMember
        <3>3. QED
            BY <2>2, <3>1, <3>2 DEF Log!Drop
    <2>3. ASSUME NEW f \in Feeds, Compress(f), Accepts(f)
          PROVE  \E r \in Records : Log!Accept(r)
        <3>1. pending[f] # {}
            BY <2>3 DEF Compress, CallShape, Shape
        <3>2. PICK r \in pending[f] : TRUE
            BY <3>1
        <3>3. pending[f] = {r} /\ r \in Records
            BY <3>2 DEF RecordsApart
        <3>4. r \notin Volatile \cup Durable
            BY <3>2 DEF RecordsApart
        <3>5. Durable' = Durable
            BY <2>3, CallsStoreNothing
        <3>6. \A g \in Feeds : buffer'[g] =
                 IF g = f THEN buffer[f] \cup {r} ELSE buffer[g]
            BY <2>3, <3>3 DEF Accepts
        <3>7. \A s : (\E g \in Feeds : s \in buffer'[g])
                  <=> (\E g \in Feeds : s \in buffer[g]) \/ s = r
            BY ONLY <3>6, f \in Feeds
        <3>8. Volatile' = Volatile \cup {r}
            BY <3>7, VolatileMember
        <3>9. QED
            BY <3>3, <3>4, <3>5, <3>8 DEF Log!Accept
    <2>4. ASSUME NEW f \in Feeds, NEW r \in Records, Write(f, r), Offers(f, r)
          PROVE  Volatile' = Volatile /\ Durable' = Durable
        BY <2>4, CallsStoreNothing, VolatileMember DEF Offers
    <2>5. QED
        BY <2>1, <2>2, <2>3, <2>4, MemorySteps, DurableSteps DEF Log!Next
<1>3. QED
    BY <1>1, <1>2, ArchiveInvariant, TypeCorrect, PTL DEF Spec, ImplementsLog, Log!Spec

-----------------------------------------------------------------------------
(***************************************************************************)
(* What a run has written itself, without any hypothesis on restarts: the  *)
(* files of the run in progress are in the order of its hours, whatever    *)
(* earlier runs have left beside them.                                     *)
(***************************************************************************)
Own(file) == run \in file.runs
OwnFinal(f, h) == Own(final[f][h]) \/ Own(r2[f][h])
SoFar(file) == \A w \in file.runs : w <= run

RunsSoFar ==
    /\ \A file \in salvaged : SoFar(file)
    /\ \A f \in Feeds, h \in Hours :
          SoFar(partial[f][h]) /\ SoFar(final[f][h]) /\ SoFar(r2[f][h])

OwnFinalsPast == \A f \in Feeds, h \in Hours : OwnFinal(f, h) => Replaceable(f, h)

OwnShardsOpen ==
    \A f \in Feeds :
        /\ shards[f] # NoHour => Own(partial[f][shards[f]])
        /\ step[f] \in {"flush", "rename"} => Own(partial[f][oldHour[f]])

OwnCopiesAgree ==
    \A f \in Feeds :
        /\ step[f] \in {"stat", "upload"} => ~Own(r2[f][oldHour[f]])
        /\ step[f] = "unlink" => r2[f][oldHour[f]] = final[f][oldHour[f]]

OwnInv == RunsSoFar /\ OwnFinalsPast /\ OwnShardsOpen /\ OwnCopiesAgree

LEMMA RunsFacts ==
    ASSUME Base, NEW file \in File, NEW recs \in SUBSET Records
    PROVE  /\ Own(Extended(file, recs)) <=> Own(file)
           /\ Own(Ended(Extended(file, recs))) <=> Own(file)
           /\ SoFar(file) => SoFar(Extended(file, recs)) /\ SoFar(Ended(Extended(file, recs)))
           /\ ~Own(Absent) /\ SoFar(Absent)
           /\ Own(NewShard) /\ SoFar(NewShard)
           /\ Own(file) => Exists(file)
BY DEF Own, SoFar, Extended, Ended, Exists, File, Absent, NewShard, Base, TypeOK

(* Only a start changes the run or lets a stopped worker poll.             *)
LEMMA RunSteps ==
    ASSUME Base, [Next]_vars
    PROVE  \/ Start
           \/ /\ run' = run
              /\ proc' \in {"up", "stopping"} => proc \in {"up", "stopping"}
<1> DEFINE Stays == /\ run' = run
                    /\ proc' \in {"up", "stopping"} => proc \in {"up", "stopping"}
<1> USE DEF procVars
<1>1. ASSUME NEW f \in Feeds, BeginPoll(f) \/ Drain(f) PROVE Stays
    BY <1>1 DEF BeginPoll, Drain
<1>2. ASSUME NEW f \in Feeds, NEW r \in Records, Write(f, r) PROVE Stays
    BY <1>2 DEF Write
<1>3. ASSUME NEW f \in Feeds, CloseStep(f) PROVE Stays
    BY <1>3 DEF CloseStep, FlushShard, FlushFails, RenameShard, RenameFails, StatShard,
        StatFails, UploadShard, UploadFails, UnlinkShard, UnlinkFails
<1>4. CASE CloseArchive
    BY <1>4 DEF CloseArchive, BeginClose, CloseNext, Exit
<1>5. CASE Signal \/ Crash \/ HourPasses \/ UNCHANGED vars
    BY <1>5 DEF Signal, Crash, HourPasses, vars
<1>6. ASSUME NEW f \in Feeds, FetchFails(f) \/ OpenShard(f) \/ OpenFails(f) \/ Compress(f)
      PROVE  Stays
    BY <1>6 DEF FetchFails, OpenShard, OpenFails, Compress
<1> QED BY <1>1, <1>2, <1>3, <1>4, <1>5, <1>6 DEF Next, CallStep

LEMMA DiskStepsKeepRun ==
    ASSUME NEW f \in Feeds, DiskStep(f)
    PROVE  run' = run
BY DEF DiskStep, OpenShard, Drain, FlushShard, RenameShard, UploadShard,
       UploadFails, UnlinkShard, procVars

LEMMA StartFacts ==
    ASSUME Base, Start
    PROVE  /\ QuietDisk
           /\ run' = run + 1
           /\ \A f \in Feeds : step'[f] = "idle" /\ shards'[f] = NoHour
           /\ acked' = {}
BY DEF Start, Base, CallShape, Shape, QuietDisk, callVars, diskVars

LEMMA RunsSoFarStep ==
    ASSUME Base, RunsSoFar, [Next]_vars
    PROVE  RunsSoFar'
<1> USE DEF Base, RunsSoFar
<1>1. CASE QuietDisk
    <2>1. /\ UNCHANGED <<salvaged, partial, final, r2>>
          /\ run \in Nat /\ run' \in Nat /\ run <= run'
        <3>1. run \in Nat /\ (run' = run \/ run' = run + 1)
            BY RunSteps, StartFacts, BoundsAssumption DEF TypeOK
        <3> QED BY <1>1, <3>1 DEF QuietDisk, diskVars
    <2>2. ASSUME NEW file \in File, SoFar(file) PROVE \A w \in file.runs : w <= run'
        <3>1. file.runs \subseteq Nat
            BY BoundsAssumption DEF File
        <3> QED BY <2>1, <2>2, <3>1 DEF SoFar
    <2>3. /\ \A file \in salvaged : file \in File
          /\ \A f \in Feeds, h \in Hours :
                partial[f][h] \in File /\ final[f][h] \in File /\ r2[f][h] \in File
        BY FileTyped DEF TypeOK
    <2> QED BY <2>1, <2>2, <2>3 DEF SoFar
<1>2. ASSUME NEW f \in Feeds, DiskStep(f)
      PROVE  /\ \A file \in salvaged' : SoFar(file)
             /\ \A g \in Feeds, h \in Hours :
                   SoFar(partial'[g][h]) /\ SoFar(final'[g][h]) /\ SoFar(r2'[g][h])
    <2>a. SoFar(NewShard) /\ SoFar(Absent)
        BY HourFacts, RunsFacts
    <2>1. CASE OpenShard(f)
        <3>1. \A file \in salvaged' : SoFar(file)
            BY <2>1, OpenEffect
        <3> QED BY <2>1, <2>a, <3>1, OpenEffect
    <2>2. CASE Drain(f)
        <3>1. SoFar(Extended(partial[f][shards[f]], buffer[f]))
            BY <2>2, DrainEffect, FileTyped, RunsFacts
        <3> QED BY <2>2, <3>1, DrainEffect
    <2>3. CASE FlushShard(f)
        <3>1. SoFar(Ended(Extended(partial[f][oldHour[f]], buffer[f])))
            BY <2>3, FlushEffect, FileTyped, RunsFacts
        <3> QED BY <2>3, <3>1, FlushEffect
    <2>4. CASE RenameShard(f)
        BY <2>4, <2>a, RenameEffect
    <2>5. CASE UploadShard(f) \/ UploadFails(f)
        BY <2>5, UploadEffect DEF diskVars
    <2>6. CASE UnlinkShard(f)
        BY <2>6, <2>a, UnlinkEffect
    <2> QED BY <1>2, <2>1, <2>2, <2>3, <2>4, <2>5, <2>6 DEF DiskStep
<1>3. ASSUME NEW f \in Feeds, DiskStep(f) PROVE RunsSoFar'
    <2>1. run' = run
        BY <1>3, DiskStepsKeepRun
    <2> QED BY <1>2, <1>3, <2>1 DEF SoFar
<1> QED BY <1>1, <1>3, DiskSteps

(* Nothing is a new run's own.                                             *)
LEMMA StartOwnsNothing ==
    ASSUME Base, RunsSoFar, Start
    PROVE  \A f \in Feeds, h \in Hours : ~Own(final[f][h])' /\ ~Own(r2[f][h])'
<1>1. run' = run + 1 /\ run \in Nat /\ UNCHANGED <<final, r2>>
    BY StartFacts, BoundsAssumption DEF Base, TypeOK, QuietDisk, diskVars
<1>2. ~(run + 1 <= run)
    BY <1>1
<1> QED BY <1>1, <1>2 DEF RunsSoFar, SoFar, Own

LEMMA OwnOpenStep ==
    ASSUME Base, OwnShardsOpen, [Next]_vars
    PROVE  OwnShardsOpen'
<1>0. CASE Start
    BY <1>0, StartFacts DEF OwnShardsOpen
<1>1. CASE QuietDisk /\ ~Start /\ ~ \E f \in Feeds : DiskStep(f)
    BY <1>1, QuietSteps, RunSteps DEF QuietHours, QuietDisk, diskVars, OwnShardsOpen, Own
<1>2. ASSUME NEW f \in Feeds, DiskStep(f), NEW g \in Feeds
      PROVE  /\ shards'[g] # NoHour => Own(partial'[g][shards'[g]])
             /\ step'[g] \in {"flush", "rename"} => Own(partial'[g][oldHour'[g]])
    <2>1. CASE f # g
        <3>1. /\ shards[g] \in Hours \cup {NoHour}
              /\ step[g] \in {"flush", "rename"} => oldHour[g] \in Hours
            BY OldHourType DEF Base, TypeOK
        <3> QED BY <1>2, <2>1, <3>1, OtherFeeds DEF OwnShardsOpen
    <2>2. CASE f = g
        <3> USE <1>2, <2>2, OwnHours DEF Base
        <3>1. CASE OpenShard(f)
            <4>1. Own(NewShard)
                BY HourFacts, RunsFacts
            <4> QED BY <3>1, <4>1, OpenEffect
        <3>2. CASE Drain(f)
            <4>1. Own(partial[f][shards[f]]) /\ shards[f] \in Hours
                BY <3>2, DrainEffect DEF OwnShardsOpen, Drain
            <4>2. Own(Extended(partial[f][shards[f]], buffer[f]))
                BY <4>1, RunsFacts, FileTyped
            <4> QED BY <3>2, <4>1, <4>2, DrainEffect
        <3>3. CASE FlushShard(f)
            <4>1. Own(partial[f][oldHour[f]]) /\ oldHour[f] \in Hours
                BY <3>3, FlushEffect DEF OwnShardsOpen, FlushShard
            <4>2. Own(Ended(Extended(partial[f][oldHour[f]], buffer[f])))
                BY <4>1, RunsFacts, FileTyped
            <4> QED BY <3>3, <4>1, <4>2, FlushEffect
        <3>4. CASE RenameShard(f) \/ UploadShard(f) \/ UploadFails(f) \/ UnlinkShard(f)
            BY <3>4
        <3> QED BY <3>1, <3>2, <3>3, <3>4 DEF DiskStep
    <2> QED BY <2>1, <2>2
<1>3. ASSUME NEW f \in Feeds, DiskStep(f) PROVE OwnShardsOpen'
    <2>1. run' = run
        BY <1>3, DiskStepsKeepRun
    <2> QED BY <1>2, <1>3, <2>1 DEF OwnShardsOpen, Own
<1> QED BY <1>0, <1>1, <1>3, DiskSteps DEF Base

LEMMA OwnCopiesStep ==
    ASSUME Base, OwnFinalsPast, OwnCopiesAgree, [Next]_vars
    PROVE  OwnCopiesAgree'
<1>0. CASE Start
    BY <1>0, StartFacts DEF OwnCopiesAgree
<1>1. CASE QuietDisk /\ ~Start /\ ~ \E f \in Feeds : DiskStep(f)
    BY <1>1, QuietSteps, RunSteps DEF QuietHours, QuietDisk, diskVars, OwnCopiesAgree, Own
<1>2. ASSUME NEW f \in Feeds, DiskStep(f), NEW g \in Feeds
      PROVE  /\ step'[g] \in {"stat", "upload"} => ~Own(r2'[g][oldHour'[g]])
             /\ step'[g] = "unlink" => r2'[g][oldHour'[g]] = final'[g][oldHour'[g]]
    <2>1. CASE f # g
        <3>1. step[g] \in {"stat", "upload", "unlink"} => oldHour[g] \in Hours
            BY OldHourType DEF Base
        <3> QED BY <1>2, <2>1, <3>1, OtherFeeds DEF OwnCopiesAgree
    <2>2. CASE f = g
        <3> USE <1>2, <2>2, OwnHours DEF Base
        <3>1. CASE OpenShard(f) \/ Drain(f) \/ FlushShard(f)
            BY <3>1
        <3>2. CASE RenameShard(f)
            <4>1. oldHour[f] \in Hours /\ r2'[f][oldHour[f]] = r2[f][oldHour[f]]
                BY <3>2, RenameEffect
            <4>2. step[f] = "rename" /\ ~(oldHour[f] < oldHour[f])
                BY <3>2, <4>1, HourOrder DEF RenameShard
            <4>3. ~Own(r2[f][oldHour[f]])
                BY <4>1, <4>2 DEF OwnFinalsPast, OwnFinal, Replaceable
            <4> QED BY <3>2, <4>1, <4>3
        <3>3. CASE UploadShard(f)
            BY <3>3, UploadEffect DEF diskVars
        <3>4. CASE UploadFails(f) \/ UnlinkShard(f)
            <4>1. step'[f] \notin {"stat", "upload", "unlink"}
                BY <3>4 DEF UploadFails, UnlinkShard, ClosedShard, EndCall, Goto, TypeOK
            <4> QED BY <4>1
        <3> QED BY <3>1, <3>2, <3>3, <3>4 DEF DiskStep
    <2> QED BY <2>1, <2>2
<1>3. ASSUME NEW f \in Feeds, DiskStep(f) PROVE OwnCopiesAgree'
    <2>1. run' = run
        BY <1>3, DiskStepsKeepRun
    <2> QED BY <1>2, <1>3, <2>1 DEF OwnCopiesAgree, Own
<1> QED BY <1>0, <1>1, <1>3, DiskSteps DEF Base

LEMMA OwnFinalsStep ==
    ASSUME Base, RunsSoFar, OwnFinalsPast, [Next]_vars
    PROVE  OwnFinalsPast'
<1>t. /\ hour \in Nat
      /\ \A g \in Feeds : shards[g] \in Int /\ writeHour[g] \in Int /\ oldHour[g] \in Int
    BY HourOrder DEF Base, TypeOK
<1>0. CASE Start
    BY <1>0, StartOwnsNothing DEF OwnFinalsPast, OwnFinal
<1>1. ASSUME QuietDisk, ~Start, ~ \E f \in Feeds : DiskStep(f),
             NEW g \in Feeds, NEW h \in Hours, OwnFinal(g, h)'
      PROVE  Replaceable(g, h)'
    <2>0. run' = run /\ (proc' \in {"up", "stopping"} => proc \in {"up", "stopping"})
        BY <1>1, RunSteps
    <2>1. Replaceable(g, h)
        BY <1>1, <2>0 DEF OwnFinalsPast, QuietDisk, diskVars, OwnFinal, Own
    <2>2. QuietHours(g)
        BY <1>1, QuietSteps
    <2>3. h \in Nat /\ hour' \in Nat /\ hour <= hour'
        <3>1. hour' \in Nat
            BY TypeStep, HourOrder DEF Base, TypeOK
        <3> QED BY <2>2, <3>1, HourOrder DEF QuietHours
    <2>4. h <= hour' /\ (proc' \in {"up", "stopping"} => h < hour')
        BY <1>t, <2>0, <2>1, <2>3 DEF Replaceable
    <2>5. writeHour'[g] # NoHour => h < writeHour'[g]
        BY <1>t, <2>1, <2>2 DEF Replaceable, QuietHours
    <2>6. shards'[g] # NoHour => h < shards'[g]
        BY <1>t, <2>1, <2>2 DEF Replaceable, QuietHours
    <2>7. step'[g] \in {"flush", "rename"} => h < oldHour'[g]
        BY <1>t, <2>1, <2>2 DEF Replaceable, QuietHours
    <2> QED BY <2>4, <2>5, <2>6, <2>7 DEF Replaceable
<1>2. ASSUME NEW f \in Feeds, DiskStep(f),
             NEW g \in Feeds, NEW h \in Hours, OwnFinal(g, h)'
      PROVE  Replaceable(g, h)'
    <2>1. proc' = proc /\ hour' = hour /\ run' = run
        BY <1>2, DiskStepsStay, DiskStepsKeepRun
    <2>2. CASE f # g
        <3>1. OwnFinal(g, h)
            BY <1>2, <2>1, <2>2, OtherFeeds DEF OwnFinal, Own
        <3> QED BY <1>2, <2>1, <2>2, <3>1, OtherFeeds DEF OwnFinalsPast, Replaceable
    <2>3. CASE f = g /\ OwnFinal(f, h)
        <3>1. Replaceable(f, h)
            BY <2>3 DEF OwnFinalsPast
        <3>2. CASE OpenShard(f)
            <4>1. writeHour[f] # NoHour
                BY <3>2, OpenEffect, HourOrder DEF Base
            <4> QED BY <1>2, <2>1, <2>3, <3>1, <3>2, <4>1, OwnHours DEF Replaceable
        <3>3. CASE Drain(f)
            BY <1>2, <2>1, <2>3, <3>1, <3>3, OwnHours DEF Replaceable
        <3>4. CASE FlushShard(f)
            BY <1>2, <2>1, <2>3, <3>1, <3>4, OwnHours DEF Replaceable, FlushShard
        <3>5. CASE RenameShard(f) \/ UploadShard(f) \/ UploadFails(f) \/ UnlinkShard(f)
            BY <1>2, <2>1, <2>3, <3>1, <3>5, OwnHours DEF Replaceable
        <3> QED BY <1>2, <3>2, <3>3, <3>4, <3>5 DEF DiskStep
    <2>4. CASE f = g /\ ~OwnFinal(f, h)
        <3> USE DEF Base, OwnFinal, Own
        <3>1. RenameShard(f) /\ h = oldHour[f]
            <4>1. CASE OpenShard(f)
                BY <1>2, <2>1, <2>4, <4>1, OpenEffect
            <4>2. CASE Drain(f)
                BY <1>2, <2>1, <2>4, <4>2, DrainEffect
            <4>3. CASE FlushShard(f)
                BY <1>2, <2>1, <2>4, <4>3, FlushEffect
            <4>4. CASE RenameShard(f)
                BY <1>2, <2>1, <2>4, <4>4, RenameEffect
            <4>5. CASE UploadShard(f) \/ UploadFails(f)
                BY <1>2, <2>1, <2>4, <4>5, UploadEffect DEF diskVars
            <4>6. CASE UnlinkShard(f)
                <5>1. run \notin Absent.runs
                    BY DEF Absent
                <5> QED BY <1>2, <2>1, <2>4, <4>6, <5>1, UnlinkEffect
            <4> QED BY <1>2, <4>1, <4>2, <4>3, <4>4, <4>5, <4>6 DEF DiskStep
        <3>2. /\ oldHour[f] # NoHour
              /\ oldHour[f] <= hour
              /\ proc = "closing" => writeHour[f] = NoHour
              /\ proc = "closing" \/ oldHour[f] < writeHour[f]
              /\ writeHour[f] <= hour
            BY <3>1, HourOrder DEF CallShape, Shape, RenameShard
        <3> QED BY <1>2, <1>t, <2>1, <2>4, <3>1, <3>2, OwnHours DEF Replaceable
    <2> QED BY <2>2, <2>3, <2>4
<1>3. ASSUME NEW g \in Feeds, NEW h \in Hours, OwnFinal(g, h)', ~Start
      PROVE  Replaceable(g, h)'
    BY <1>1, <1>2, <1>3, DiskSteps DEF Base
<1> QED BY <1>0, <1>3 DEF OwnFinalsPast

LEMMA OwnInit == Init => OwnInv
<1>1. Init => RunsSoFar /\ OwnFinalsPast
    BY DEF Init, RunsSoFar, OwnFinalsPast, OwnFinal, Own, SoFar, Absent
<1>2. Init => OwnShardsOpen /\ OwnCopiesAgree
    BY DEF Init, OwnShardsOpen, OwnCopiesAgree
<1> QED BY <1>1, <1>2 DEF OwnInv

LEMMA OwnStep == Base /\ OwnInv /\ [Next]_vars => OwnInv'
BY RunsSoFarStep, OwnFinalsStep, OwnOpenStep, OwnCopiesStep DEF OwnInv

(* Membership in OwnRecords, spelled out file by file.                     *)
Kept(file, r) == Own(file) /\ r \in file.recs

OwnStored(r) ==
    \/ \E file \in salvaged : Kept(file, r)
    \/ \E f \in Feeds, h \in Hours :
          Kept(partial[f][h], r) \/ Kept(final[f][h], r) \/ Kept(r2[f][h], r)

LEMMA OwnMember ==
    /\ \A r : r \in OwnRecords <=> OwnStored(r)
    /\ \A r : r \in OwnRecords' <=> OwnStored(r)'
<1>1. \A r : r \in OwnRecords <=> OwnStored(r)
    <2>1. \A file : file \in Files <=>
              \/ file \in salvaged
              \/ \E f \in Feeds, h \in Hours :
                    file = partial[f][h] \/ file = final[f][h] \/ file = r2[f][h]
        BY DEF Files
    <2>2. \A r : r \in OwnRecords <=> \E file \in Files : run \in file.runs /\ r \in file.recs
        BY DEF OwnRecords
    <2> QED BY <2>1, <2>2 DEF OwnStored, Kept, Own
<1>2. \A r : r \in OwnRecords' <=> OwnStored(r)'
    <2>1. \A file : file \in Files' <=>
              \/ file \in salvaged'
              \/ \E f \in Feeds, h \in Hours :
                    file = partial'[f][h] \/ file = final'[f][h] \/ file = r2'[f][h]
        BY DEF Files
    <2>2. \A r : r \in OwnRecords' <=> \E file \in Files' : run' \in file.runs /\ r \in file.recs
        BY DEF OwnRecords
    <2> QED BY <2>1, <2>2 DEF OwnStored, Kept, Own
<1> QED BY <1>1, <1>2

(* How a disk step carries on the run's own files.                         *)
LEMMA OwnDiskStep ==
    ASSUME Base, OwnInv, NEW f \in Feeds, DiskStep(f), NEW r
    PROVE  /\ \A file \in salvaged : Kept(file, r) => OwnStored(r)'
           /\ \A g \in Feeds, h \in Hours :
                 /\ Kept(partial[g][h], r) => OwnStored(r)'
                 /\ Kept(final[g][h], r) \/ Kept(r2[g][h], r) =>
                        Kept(final[g][h], r)' \/ Kept(r2[g][h], r)'
<1> USE DEF Base, Kept, Own
<1>0. run' = run
    BY DiskStepsKeepRun
<1>1. CASE OpenShard(f)
    <2>1. ASSUME NEW g \in Feeds, NEW h \in Hours, Kept(partial[g][h], r)
          PROVE  OwnStored(r)'
        <3>1. CASE g = f /\ h = writeHour[f]
            <4>1. partial[g][h] \in salvaged'
                BY <1>1, <2>1, <3>1, OpenEffect, FileTyped, RunsFacts
            <4> QED BY <1>0, <2>1, <4>1 DEF OwnStored
        <3>2. CASE ~(g = f /\ h = writeHour[f])
            <4>1. partial'[g][h] = partial[g][h]
                BY <1>1, <3>2, OpenEffect
            <4> QED BY <1>0, <2>1, <4>1 DEF OwnStored
        <3> QED BY <3>1, <3>2
    <2> QED BY <1>0, <1>1, <2>1, OpenEffect DEF OwnStored
<1>2. CASE Drain(f)
    <2>1. LET new == Extended(partial[f][shards[f]], buffer[f]) IN
          Kept(partial[f][shards[f]], r) => Kept(new, r)
        BY <1>2, DrainEffect, FileTyped, RunsFacts, ExtendedFacts
    <2>2. ASSUME NEW g \in Feeds, NEW h \in Hours, Kept(partial[g][h], r)
          PROVE  Kept(partial'[g][h], r)
        BY <1>2, <2>1, <2>2, DrainEffect
    <2> QED BY <1>0, <1>2, <2>2, DrainEffect DEF OwnStored
<1>3. CASE FlushShard(f)
    <2>1. LET new == Ended(Extended(partial[f][oldHour[f]], buffer[f])) IN
          Kept(partial[f][oldHour[f]], r) => Kept(new, r)
        BY <1>3, FlushEffect, FileTyped, RunsFacts, ExtendedFacts
    <2>2. ASSUME NEW g \in Feeds, NEW h \in Hours, Kept(partial[g][h], r)
          PROVE  Kept(partial'[g][h], r)
        BY <1>3, <2>1, <2>2, FlushEffect
    <2> QED BY <1>0, <1>3, <2>2, FlushEffect DEF OwnStored
<1>4. CASE RenameShard(f)
    <2>1. oldHour[f] \in Hours /\ ~Own(final[f][oldHour[f]])
        <3>1. oldHour[f] \in Hours /\ step[f] = "rename"
            BY <1>4, RenameEffect DEF RenameShard
        <3>2. ~(oldHour[f] < oldHour[f])
            BY <3>1, HourOrder
        <3> QED BY <3>1, <3>2 DEF OwnInv, OwnFinalsPast, OwnFinal, Replaceable
    <2> QED BY <1>0, <1>4, <2>1, RenameEffect DEF OwnStored
<1>5. CASE UploadShard(f) \/ UploadFails(f)
    <2>1. oldHour[f] \in Hours /\ ~Own(r2[f][oldHour[f]])
        BY <1>5, UploadEffect DEF OwnInv, OwnCopiesAgree, UploadShard, UploadFails
    <2> QED BY <1>0, <1>5, <2>1, UploadEffect DEF OwnStored, diskVars
<1>6. CASE UnlinkShard(f)
    <2>1. oldHour[f] \in Hours /\ r2[f][oldHour[f]] = final[f][oldHour[f]]
        BY <1>6, UnlinkEffect DEF OwnInv, OwnCopiesAgree, UnlinkShard
    <2> QED BY <1>0, <1>6, <2>1, UnlinkEffect DEF OwnStored
<1> QED BY <1>1, <1>2, <1>3, <1>4, <1>5, <1>6 DEF DiskStep

LEMMA OwnRecordsStep ==
    ASSUME Base, OwnInv, [Next]_vars, run' = run
    PROVE  OwnRecords \subseteq OwnRecords'
<1>1. CASE QuietDisk
    BY <1>1, OwnMember DEF QuietDisk, diskVars, OwnStored, Kept, Own
<1>2. ASSUME NEW f \in Feeds, DiskStep(f), NEW r, OwnStored(r) PROVE OwnStored(r)'
    <2>1. CASE \E file \in salvaged : Kept(file, r)
        BY <1>2, <2>1, OwnDiskStep
    <2>2. ASSUME NEW g \in Feeds, NEW h \in Hours,
                 Kept(partial[g][h], r) \/ Kept(final[g][h], r) \/ Kept(r2[g][h], r)
          PROVE  OwnStored(r)'
        BY <1>2, <2>2, OwnDiskStep DEF OwnStored
    <2> QED BY <1>2, <2>1, <2>2 DEF OwnStored
<1> QED BY <1>1, <1>2, DiskSteps, OwnMember DEF Base

(* A run never loses what it has put on disk itself, even when the worker  *)
(* is started again inside an hour whose shard exists already.             *)
THEOREM RunKeepsItsRecords == Spec => OwnRecordsStay
<1>1. TypeOK /\ CallShape /\ OwnInv /\ [Next]_vars => OwnInv'
    BY OwnStep DEF Base
<1>2. TypeOK /\ CallShape /\ OwnInv /\ [Next]_vars =>
          [run' = run => OwnRecords \subseteq OwnRecords']_vars
    BY OwnRecordsStep DEF Base
<1> QED BY <1>1, <1>2, OwnInit, TypeCorrect, PTL DEF Spec, OwnRecordsStay

(* Where a record whose write() resolved in this run may be: with the      *)
(* compressor, in the file of an open or closing shard, or in a final one. *)
InFinal(f, r) == \E h \in Hours : Kept(final[f][h], r) \/ Kept(r2[f][h], r)

AckedAt(f, r) ==
    \/ r \in buffer[f]
    \/ shards[f] # NoHour /\ r \in partial[f][shards[f]].recs
    \/ step[f] \in {"flush", "rename"} /\ r \in partial[f][oldHour[f]].recs
    \/ InFinal(f, r)

AckedInv == ~failed => \A r \in acked : \E f \in Feeds : AckedAt(f, r)

(* How a step without an error carries the buffer and the open files on.   *)
Carries(g) ==
    /\ buffer[g] \subseteq buffer'[g]
    /\ shards[g] # NoHour =>
           \/ shards'[g] = shards[g]
           \/ step'[g] = "flush" /\ oldHour'[g] = shards[g]
    /\ step[g] \in {"flush", "rename"} =>
           step'[g] = step[g] /\ oldHour'[g] = oldHour[g]

LEMMA QuietCarries ==
    ASSUME Base, [Next]_vars, ~Start, ~failed', ~ \E f \in Feeds : DiskStep(f)
    PROVE  /\ ~failed
           /\ \A g \in Feeds : Carries(g)
           /\ \A r \in acked' : r \in acked \/ \E g \in Feeds : r \in buffer'[g]
<1> DEFINE Goal == /\ ~failed
                   /\ \A g \in Feeds : Carries(g)
                   /\ \A r \in acked' : r \in acked \/ \E g \in Feeds : r \in buffer'[g]
<1> USE DEF Carries, Base, TypeOK, procVars, callVars, ghostVars
<1>1. ASSUME NEW f \in Feeds, BeginPoll(f) PROVE Goal
    BY <1>1 DEF BeginPoll, Goto
<1>2. ASSUME NEW f \in Feeds, FetchFails(f) PROVE Goal
    BY <1>2 DEF FetchFails, EndCall
<1>3. ASSUME NEW f \in Feeds, Compress(f) PROVE Goal
    BY <1>3 DEF Compress, EndCall
<1>4. ASSUME NEW f \in Feeds, StatShard(f) PROVE Goal
    BY <1>4 DEF StatShard, ClosedShard, EndCall, Goto
<1>5. ASSUME NEW f \in Feeds, UnlinkFails(f) PROVE Goal
    BY <1>5 DEF UnlinkFails, ClosedShard, EndCall, Goto
<1>6. ASSUME NEW f \in Feeds, CloseNext(f) PROVE Goal
    BY <1>6 DEF CloseNext, EnterCloseShard, Idle
<1>7. ASSUME NEW f \in Feeds, NEW r \in Records, Write(f, r) PROVE Goal
    BY <1>7 DEF Write, EnterCloseShard
<1>8. ASSUME NEW f \in Feeds,
             OpenFails(f) \/ FlushFails(f) \/ RenameFails(f) \/ StatFails(f)
      PROVE  Goal
    BY <1>8 DEF OpenFails, FlushFails, RenameFails, StatFails
<1>9. CASE Crash
    BY <1>9 DEF Crash
<1>10. CASE Signal \/ BeginClose \/ Exit \/ HourPasses \/ UNCHANGED vars
    BY <1>10 DEF Signal, BeginClose, Exit, HourPasses, vars
<1> QED BY <1>1, <1>2, <1>3, <1>4, <1>5, <1>6, <1>7, <1>8, <1>9, <1>10
    DEF Next, CallStep, CloseStep, CloseArchive, DiskStep

LEMMA DiskKeepsAcked ==
    ASSUME NEW f \in Feeds, DiskStep(f)
    PROVE  UNCHANGED <<acked, failed>>
BY DEF DiskStep, OpenShard, Drain, FlushShard, RenameShard, UploadShard,
       UploadFails, UnlinkShard, ghostVars

LEMMA DiskCarries ==
    ASSUME Base, OwnInv, NEW f \in Feeds, DiskStep(f), NEW g \in Feeds, NEW r, AckedAt(g, r)
    PROVE  AckedAt(g, r)'
<1>0. InFinal(g, r) => InFinal(g, r)'
    BY OwnDiskStep DEF InFinal
<1>1. CASE f # g
    <2>1. /\ shards[g] \in Hours \cup {NoHour}
          /\ step[g] \in {"flush", "rename"} => oldHour[g] \in Hours
        BY OldHourType DEF Base, TypeOK
    <2>2. buffer'[g] = buffer[g]
        BY <1>1 DEF DiskStep, OpenShard, Drain, FlushShard, RenameShard, UploadShard,
           UploadFails, UnlinkShard, Base, TypeOK
    <2> QED BY <1>0, <1>1, <2>1, <2>2, OtherFeeds DEF AckedAt
<1>2. CASE f = g
    <2> USE <1>2, OwnHours DEF Base
    <2>1. CASE OpenShard(f)
        <3>1. shards[f] = NoHour /\ step[f] = "open" /\ buffer' = buffer
            BY <2>1 DEF OpenShard, CallShape, Shape
        <3> QED BY <1>0, <3>1 DEF AckedAt
    <2>2. CASE Drain(f)
        <3>1. /\ shards[f] \in Hours /\ shards[f] # NoHour /\ shards'[f] = shards[f]
              /\ step[f] \notin {"flush", "rename"}
              /\ partial'[f][shards[f]] = Extended(partial[f][shards[f]], buffer[f])
            BY <2>2, DrainEffect DEF Drain
        <3>2. partial'[f][shards[f]].recs = partial[f][shards[f]].recs \cup buffer[f]
            BY <3>1, FileTyped, ExtendedFacts
        <3> QED BY <1>0, <3>1, <3>2 DEF AckedAt
    <2>3. CASE FlushShard(f)
        <3>1. /\ oldHour[f] \in Hours /\ step[f] = "flush" /\ shards[f] = NoHour
              /\ partial'[f][oldHour[f]] = Ended(Extended(partial[f][oldHour[f]], buffer[f]))
              /\ step'[f] = "rename" /\ oldHour'[f] = oldHour[f]
            BY <2>3, FlushEffect DEF FlushShard, CallShape, Shape
        <3>2. partial'[f][oldHour[f]].recs = partial[f][oldHour[f]].recs \cup buffer[f]
            BY <3>1, FileTyped, ExtendedFacts
        <3> QED BY <1>0, <3>1, <3>2 DEF AckedAt
    <2>4. CASE RenameShard(f)
        <3>1. /\ oldHour[f] \in Hours /\ step[f] = "rename" /\ shards[f] = NoHour
              /\ final'[f][oldHour[f]] = partial[f][oldHour[f]]
              /\ buffer' = buffer
            BY <2>4, RenameEffect DEF RenameShard, CallShape, Shape
        <3>2. run' = run /\ Own(partial[f][oldHour[f]])
            BY <3>1, DiskStepsKeepRun DEF OwnInv, OwnShardsOpen
        <3>3. r \in partial[f][oldHour[f]].recs => InFinal(f, r)'
            BY <3>1, <3>2 DEF InFinal, Kept, Own
        <3> QED BY <1>0, <3>1, <3>3 DEF AckedAt
    <2>5. CASE UploadShard(f) \/ UploadFails(f) \/ UnlinkShard(f)
        <3>1. /\ shards[f] = NoHour /\ step[f] \notin {"flush", "rename"}
              /\ buffer' = buffer
            BY <2>5 DEF UploadShard, UploadFails, UnlinkShard, CallShape, Shape
        <3> QED BY <1>0, <3>1 DEF AckedAt
    <2> QED BY <2>1, <2>2, <2>3, <2>4, <2>5 DEF DiskStep
<1> QED BY <1>1, <1>2

LEMMA AckedStep == Base /\ OwnInv /\ AckedInv /\ [Next]_vars => AckedInv'
<1> SUFFICES ASSUME Base, OwnInv, AckedInv, [Next]_vars, ~failed', NEW r \in acked'
             PROVE  \E g \in Feeds : AckedAt(g, r)'
    BY DEF AckedInv
<1>1. ~Start
    BY StartFacts
<1>2. CASE \E f \in Feeds : DiskStep(f)
    <2>1. PICK f \in Feeds : DiskStep(f)
        BY <1>2
    <2>2. ~failed /\ r \in acked
        BY <2>1, DiskKeepsAcked
    <2>3. PICK g \in Feeds : AckedAt(g, r)
        BY <2>2 DEF AckedInv
    <2> QED BY <2>1, <2>3, DiskCarries
<1>3. CASE QuietDisk /\ ~ \E f \in Feeds : DiskStep(f)
    <2>1. /\ ~failed
          /\ \A g \in Feeds : Carries(g)
          /\ r \in acked \/ \E g \in Feeds : r \in buffer'[g]
        BY <1>1, <1>3, QuietCarries
    <2>2. CASE \E g \in Feeds : r \in buffer'[g]
        BY <2>2 DEF AckedAt
    <2>3. CASE r \in acked
        <3>1. PICK g \in Feeds : AckedAt(g, r)
            BY <2>1, <2>3 DEF AckedInv
        <3>2. run' = run /\ UNCHANGED <<partial, final, r2>>
            BY <1>1, <1>3, RunSteps DEF QuietDisk, diskVars
        <3>3. InFinal(g, r) => InFinal(g, r)'
            BY <3>2 DEF InFinal, Kept, Own
        <3>4. AckedAt(g, r)'
            BY <2>1, <3>1, <3>2, <3>3 DEF AckedAt, Carries
        <3> QED BY <3>4
    <2> QED BY <2>1, <2>2, <2>3
<1> QED BY <1>2, <1>3, DiskSteps DEF Base

(* A run stopped by a signal, without an error on its way, leaves every    *)
(* record whose write() resolved in a finalised shard or in R2.            *)
THEOREM CleanStopLosesNothing == Spec => []CleanStopIsComplete
<1>1. Init => AckedInv
    BY DEF Init, AckedInv
<1>2. TypeOK /\ CallShape /\ OwnInv /\ AckedInv /\ [Next]_vars => OwnInv' /\ AckedInv'
    BY OwnStep, AckedStep DEF Base
<1>3. TypeOK /\ CallShape /\ AckedInv => CleanStopIsComplete
    <2>1. ASSUME TypeOK, CallShape, AckedInv, proc = "down", ~failed, NEW r \in acked
          PROVE  \E f \in Feeds, h \in Hours : r \in final[f][h].recs \cup r2[f][h].recs
        <3>1. PICK f \in Feeds : AckedAt(f, r)
            BY <2>1 DEF AckedInv
        <3>2. step[f] = "idle" /\ shards[f] = NoHour /\ buffer[f] = {}
            BY <2>1 DEF CallShape, Shape
        <3> QED BY <3>1, <3>2 DEF AckedAt, InFinal, Kept
    <2>2. \A f \in Feeds, h \in Hours : final[f][h].recs \cup r2[f][h].recs \subseteq FinalRecords
        <3> DEFINE S == {final[f][h].recs \cup r2[f][h].recs : f \in Feeds, h \in Hours}
        <3>1. \A f \in Feeds, h \in Hours : final[f][h].recs \cup r2[f][h].recs \in S
            OBVIOUS
        <3>2. FinalRecords = UNION S
            BY DEF FinalRecords
        <3> HIDE DEF S
        <3>3. \A x \in S : x \subseteq UNION S
            OBVIOUS
        <3> QED BY <3>1, <3>2, <3>3
    <2> QED BY <2>1, <2>2 DEF CleanStopIsComplete
<1> QED BY <1>1, <1>2, <1>3, OwnInit, TypeCorrect, PTL DEF Spec
-----------------------------------------------------------------------------
(* Records and hours.                                                      *)

(* Where the record of a call and what a compressor holds will be filed.   *)
CallFiled(f) ==
    /\ writeHour[f] # NoHour => pending[f] \subseteq polled[f][writeHour[f]]
    /\ shards[f] # NoHour => buffer[f] \subseteq polled[f][shards[f]]
    /\ step[f] = "flush" => buffer[f] \subseteq polled[f][oldHour[f]]

FiledInv == FiledByHour /\ \A f \in Feeds : CallFiled(f)

(* A step that offers no record, and what write() adds to the poll's hour. *)
LEMMA PolledSteps ==
    ASSUME Base, [Next]_vars
    PROVE  \/ UNCHANGED <<polled, offered>>
           \/ \E f \in Feeds, r \in Records : Write(f, r)
<1> USE DEF ghostVars
<1>1. ASSUME NEW f \in Feeds, BeginPoll(f) \/ Drain(f) PROVE UNCHANGED <<polled, offered>>
    BY <1>1 DEF BeginPoll, Drain
<1>2. ASSUME NEW f \in Feeds,
             FetchFails(f) \/ OpenShard(f) \/ OpenFails(f) \/ Compress(f)
      PROVE  UNCHANGED <<polled, offered>>
    BY <1>2 DEF FetchFails, OpenShard, OpenFails, Compress
<1>3. ASSUME NEW f \in Feeds, CloseStep(f) PROVE UNCHANGED <<polled, offered>>
    BY <1>3 DEF CloseStep, FlushShard, FlushFails, RenameShard, RenameFails, StatShard,
        StatFails, UploadShard, UploadFails, UnlinkShard, UnlinkFails
<1>4. CASE CloseArchive
    BY <1>4 DEF CloseArchive, BeginClose, CloseNext, Exit
<1>5. CASE Signal \/ Crash \/ Start \/ HourPasses \/ UNCHANGED vars
    BY <1>5 DEF Signal, Crash, Start, HourPasses, vars
<1> QED BY <1>1, <1>2, <1>3, <1>4, <1>5 DEF Next, CallStep

LEMMA PolledGrows ==
    ASSUME Base, [Next]_vars, NEW f \in Feeds, NEW h \in Hours
    PROVE  polled[f][h] \subseteq polled'[f][h]
<1>1. ASSUME NEW g \in Feeds, NEW r \in Records, Write(g, r)
      PROVE  polled[f][h] \subseteq polled'[f][h]
    <2>1. polled \in [Feeds -> [Hours -> SUBSET Records]] /\ hour \in Hours
        BY DEF Base, TypeOK
    <2>2. polled' = [polled EXCEPT ![g][hour] = @ \cup {r}]
        BY <1>1 DEF Write
    <2> QED BY <2>1, <2>2
<1> QED BY <1>1, PolledSteps

(* The hour of the record is the hour of the clock when it was fetched.    *)
LEMMA WriteFiles ==
    ASSUME Base, FiledInv, [Next]_vars, NEW f \in Feeds, NEW r \in Records, Write(f, r),
           NEW g \in Feeds
    PROVE  CallFiled(g)'
<1>1. /\ polled \in [Feeds -> [Hours -> SUBSET Records]] /\ hour \in Hours
      /\ pending \in [Feeds -> SUBSET Records]
      /\ writeHour \in [Feeds -> Hours \cup {NoHour}]
      /\ shards \in [Feeds -> Hours \cup {NoHour}]
      /\ oldHour \in [Feeds -> Hours \cup {NoHour}]
      /\ step \in [Feeds -> Steps]
    BY DEF Base, TypeOK
<1>2. CallFiled(g) /\ buffer' = buffer
    BY DEF FiledInv, Write
<1>3. /\ r \in polled'[f][hour] /\ pending'[f] = {r} /\ writeHour'[f] = hour
      /\ g # f => pending'[g] = pending[g] /\ writeHour'[g] = writeHour[g]
    BY <1>1 DEF Write
<1>4. writeHour'[g] # NoHour => pending'[g] \subseteq polled'[g][writeHour'[g]]
    <2>1. writeHour[g] # NoHour => polled[g][writeHour[g]] \subseteq polled'[g][writeHour[g]]
        BY <1>1, PolledGrows
    <2> QED BY <1>2, <1>3, <2>1 DEF CallFiled
<1>5. /\ shards'[g] # NoHour => shards'[g] = shards[g]
      /\ step'[g] = "flush" =>
             \/ step[g] = "flush" /\ oldHour'[g] = oldHour[g]
             \/ shards[g] # NoHour /\ oldHour'[g] = shards[g]
    BY <1>1 DEF Write, EnterCloseShard
<1>6. /\ shards[g] # NoHour => buffer[g] \subseteq polled'[g][shards[g]]
      /\ step[g] = "flush" => buffer[g] \subseteq polled'[g][oldHour[g]]
    <2>1. /\ shards[g] # NoHour => polled[g][shards[g]] \subseteq polled'[g][shards[g]]
          /\ step[g] = "flush" => polled[g][oldHour[g]] \subseteq polled'[g][oldHour[g]]
        BY <1>1, OldHourType, PolledGrows DEF Base
    <2> QED BY <1>2, <2>1 DEF CallFiled
<1> QED BY <1>2, <1>4, <1>5, <1>6 DEF CallFiled

(* The other steps take the hour of a call or a shard on as it is.         *)
HoursStay(g) ==
    /\ writeHour'[g] # NoHour => writeHour'[g] = writeHour[g] /\ pending'[g] = pending[g]
    /\ shards'[g] # NoHour =>
           \/ shards'[g] = shards[g] /\ buffer'[g] \in {buffer[g], {}}
           \/ shards'[g] = shards[g] /\ shards[g] = writeHour[g]
                 /\ buffer'[g] = buffer[g] \cup pending[g]
           \/ buffer'[g] = {}
    /\ step'[g] = "flush" =>
           /\ buffer'[g] = buffer[g]
           /\ \/ step[g] = "flush" /\ oldHour'[g] = oldHour[g]
              \/ shards[g] # NoHour /\ oldHour'[g] = shards[g]

LEMMA HoursSteps ==
    ASSUME Base, [Next]_vars, NEW g \in Feeds,
           ~ \E f \in Feeds, r \in Records : Write(f, r)
    PROVE  HoursStay(g)
<1>0. /\ step \in [Feeds -> Steps]
      /\ pending \in [Feeds -> SUBSET Records]
      /\ buffer \in [Feeds -> SUBSET Records]
      /\ writeHour \in [Feeds -> Hours \cup {NoHour}]
      /\ shards \in [Feeds -> Hours \cup {NoHour}]
      /\ oldHour \in [Feeds -> Hours \cup {NoHour}]
    BY DEF Base, TypeOK
<1> USE <1>0 DEF HoursStay, callVars
<1>1. ASSUME NEW f \in Feeds, BeginPoll(f) PROVE HoursStay(g)
    BY <1>1 DEF BeginPoll, Goto
<1>2. ASSUME NEW f \in Feeds, FetchFails(f) PROVE HoursStay(g)
    BY <1>2 DEF FetchFails, EndCall
<1>3. ASSUME NEW f \in Feeds, OpenFails(f) PROVE HoursStay(g)
    BY <1>3 DEF OpenFails, EndCall
<1>4. ASSUME NEW f \in Feeds, Compress(f) PROVE HoursStay(g)
    <2>1. shards[f] = writeHour[f]
        BY <1>4 DEF Compress, Base, CallShape, Shape
    <2> QED BY <1>4, <2>1 DEF Compress, EndCall
<1>5. ASSUME NEW f \in Feeds, OpenShard(f) PROVE HoursStay(g)
    <2>1. buffer[f] = {}
        BY <1>5 DEF OpenShard, Base, CallShape, Shape
    <2> QED BY <1>5, <2>1 DEF OpenShard, Goto
<1>6. ASSUME NEW f \in Feeds, Drain(f) PROVE HoursStay(g)
    <2>1. step[f] # "flush"
        BY <1>6 DEF Drain, Base, CallShape, Shape
    <2> QED BY <1>6, <2>1 DEF Drain
<1>7. ASSUME NEW f \in Feeds, FlushShard(f) PROVE HoursStay(g)
    BY <1>7 DEF FlushShard, Goto
<1>8. ASSUME NEW f \in Feeds, FlushFails(f) PROVE HoursStay(g)
    BY <1>8 DEF FlushFails, ClosedShard, EndCall, Goto
<1>9. ASSUME NEW f \in Feeds, RenameShard(f) PROVE HoursStay(g)
    BY <1>9 DEF RenameShard, Goto
<1>10. ASSUME NEW f \in Feeds, RenameFails(f) \/ StatShard(f) \/ UnlinkFails(f)
       PROVE  HoursStay(g)
    BY <1>10 DEF RenameFails, StatShard, UnlinkFails, ClosedShard, EndCall, Goto
<1>11. ASSUME NEW f \in Feeds, UploadShard(f) \/ UploadFails(f) \/ UnlinkShard(f)
       PROVE  HoursStay(g)
    BY <1>11 DEF UploadShard, UploadFails, UnlinkShard, ClosedShard, EndCall, Goto
<1>12. ASSUME NEW f \in Feeds, StatFails(f) PROVE HoursStay(g)
    BY <1>12 DEF StatFails, EndCall, LoseMemory
<1>13. ASSUME NEW f \in Feeds, CloseNext(f) PROVE HoursStay(g)
    BY <1>13 DEF CloseNext, EnterCloseShard
<1>14. CASE Crash
    BY <1>14 DEF Crash, LoseMemory
<1>15. CASE Start \/ Signal \/ BeginClose \/ Exit \/ HourPasses \/ UNCHANGED vars
    BY <1>15 DEF Start, Signal, BeginClose, Exit, HourPasses, vars
<1> QED
    BY <1>1, <1>2, <1>3, <1>4, <1>5, <1>6, <1>7, <1>8, <1>9, <1>10, <1>11, <1>12, <1>13,
       <1>14, <1>15
    DEF Next, CallStep, CloseStep, CloseArchive

LEMMA CallFiledStep ==
    ASSUME Base, FiledInv, [Next]_vars, NEW g \in Feeds
    PROVE  CallFiled(g)'
<1>1. CASE \E f \in Feeds, r \in Records : Write(f, r)
    BY <1>1, WriteFiles
<1>2. CASE ~ \E f \in Feeds, r \in Records : Write(f, r)
    <2>1. HoursStay(g) /\ polled' = polled
        BY <1>2, HoursSteps, PolledSteps
    <2>2. CallFiled(g)
        BY DEF FiledInv
    <2>3. writeHour'[g] # NoHour => pending'[g] \subseteq polled'[g][writeHour'[g]]
        BY <2>1, <2>2 DEF HoursStay, CallFiled
    <2>4. shards'[g] # NoHour => buffer'[g] \subseteq polled'[g][shards'[g]]
        BY <2>1, <2>2 DEF HoursStay, CallFiled
    <2>5. step'[g] = "flush" => buffer'[g] \subseteq polled'[g][oldHour'[g]]
        BY <2>1, <2>2 DEF HoursStay, CallFiled
    <2> QED BY <2>3, <2>4, <2>5 DEF CallFiled
<1> QED BY <1>1, <1>2

(* What a step stores under an hour was there, in the compressor of that   *)
(* hour, or under another name of it.                                      *)
StoredBefore(f, h) ==
    partial[f][h].recs \cup final[f][h].recs \cup r2[f][h].recs

LEMMA StoredStep ==
    ASSUME Base, FiledInv, [Next]_vars, NEW f \in Feeds, DiskStep(f),
           NEW g \in Feeds, NEW h \in Hours
    PROVE  StoredBefore(g, h)' \subseteq polled[g][h]
<1>0. StoredBefore(g, h) \subseteq polled[g][h] /\ CallFiled(f)
    BY DEF FiledInv, FiledByHour, StoredBefore
<1>e. Absent.recs = {}
    BY DEF Absent
<1>1. CASE f # g
    BY <1>0, <1>1, OtherFeeds DEF StoredBefore
<1>2. CASE f = g /\ OpenShard(f)
    <2>1. NewShard.recs = {}
        BY DEF NewShard
    <2> QED BY <1>0, <1>2, <2>1, OpenEffect DEF StoredBefore, Base
<1>3. CASE f = g /\ Drain(f)
    <2>1. /\ shards[f] \in Hours /\ shards[f] # NoHour
          /\ buffer[f] \subseteq polled[f][shards[f]]
        BY <1>0, <1>3, DrainEffect DEF Drain, CallFiled, Base
    <2>2. Extended(partial[f][shards[f]], buffer[f]).recs = partial[f][shards[f]].recs \cup buffer[f]
        BY <2>1, FileTyped, ExtendedFacts DEF Base
    <2> QED BY <1>0, <1>3, <2>1, <2>2, DrainEffect DEF StoredBefore, Base
<1>4. CASE f = g /\ FlushShard(f)
    <2>1. /\ oldHour[f] \in Hours
          /\ buffer[f] \subseteq polled[f][oldHour[f]]
        BY <1>0, <1>4, FlushEffect DEF FlushShard, CallFiled, Base
    <2>2. Ended(Extended(partial[f][oldHour[f]], buffer[f])).recs
              = partial[f][oldHour[f]].recs \cup buffer[f]
        BY <2>1, FileTyped, ExtendedFacts DEF Base
    <2> QED BY <1>0, <1>4, <2>1, <2>2, FlushEffect DEF StoredBefore, Base
<1>5. CASE f = g /\ RenameShard(f)
    BY <1>0, <1>5, <1>e, RenameEffect DEF StoredBefore, Base
<1>6. CASE f = g /\ (UploadShard(f) \/ UploadFails(f))
    BY <1>0, <1>6, UploadEffect DEF StoredBefore, Base, diskVars
<1>7. CASE f = g /\ UnlinkShard(f)
    BY <1>0, <1>7, <1>e, UnlinkEffect DEF StoredBefore, Base
<1> QED BY <1>1, <1>2, <1>3, <1>4, <1>5, <1>6, <1>7 DEF DiskStep

LEMMA FiledStep ==
    ASSUME Base, FiledInv, [Next]_vars
    PROVE  FiledInv'
<1>1. ASSUME NEW g \in Feeds, NEW h \in Hours
      PROVE  StoredBefore(g, h)' \subseteq polled'[g][h]
    <2>1. polled[g][h] \subseteq polled'[g][h]
        BY PolledGrows
    <2>2. CASE \E f \in Feeds : DiskStep(f)
        BY <2>1, <2>2, StoredStep
    <2>3. CASE QuietDisk
        BY <2>1, <2>3 DEF QuietDisk, diskVars, StoredBefore, FiledInv, FiledByHour
    <2> QED BY <2>2, <2>3, DiskSteps DEF Base
<1>2. FiledByHour'
    BY <1>1 DEF FiledByHour, StoredBefore
<1>3. \A g \in Feeds : CallFiled(g)'
    BY CallFiledStep
<1> QED BY <1>2, <1>3 DEF FiledInv

LEMMA FiledInit == Init => FiledInv
<1> SUFFICES ASSUME Init PROVE FiledInv
    OBVIOUS
<1>1. FiledByHour
    BY DEF Init, FiledByHour, Absent
<1>2. \A f \in Feeds : CallFiled(f)
    BY DEF Init, CallFiled
<1> QED BY <1>1, <1>2 DEF FiledInv

(* For any number of feeds, hours, crashes and restarts, a shard has the   *)
(* records of its own feed and hour, however late they are written out.    *)
THEOREM RecordsAreFiledByHour == Spec => []FiledByHour
<1>1. Init => FiledInv
    BY FiledInit
<1>2. TypeOK /\ CallShape /\ FiledInv /\ [Next]_vars => FiledInv'
    BY FiledStep DEF Base
<1>3. FiledInv => FiledByHour
    BY DEF FiledInv
<1> QED BY <1>1, <1>2, <1>3, TypeCorrect, PTL DEF Spec
-----------------------------------------------------------------------------
(* What gets a final name.                                                 *)

FinalAt(f, h) == final[f][h].recs \cup r2[f][h].recs
Held(f) == buffer[f] \cup pending[f]

(* A record is polled for one feed in one hour.                            *)
PollsApart ==
    \A f, g \in Feeds, h, k \in Hours :
        /\ polled[f][h] \subseteq offered
        /\ f # g \/ h # k => polled[f][h] \cap polled[g][k] = {}

(* Nothing on its way to a shard is in a finalised one of the feed.        *)
Unpublished(f) ==
    \A h \in Hours : (partial[f][h].recs \cup Held(f)) \cap FinalAt(f, h) = {}

(* A shard that is open between two calls, or being closed, has a record:  *)
(* it was opened for one, and the call that opened it has compressed it.   *)
Filled(f) ==
    /\ shards[f] # NoHour /\ step[f] # "compress" =>
           partial[f][shards[f]].recs \cup buffer[f] # {}
    /\ step[f] = "flush" => partial[f][oldHour[f]].recs \cup buffer[f] # {}
    /\ step[f] = "rename" => partial[f][oldHour[f]].recs # {}

FreshInv == PollsApart /\ \A f \in Feeds : Unpublished(f) /\ Filled(f)

LEMMA PollsApartStep ==
    ASSUME Base, PollsApart, [Next]_vars
    PROVE  PollsApart'
<1>1. CASE UNCHANGED <<polled, offered>>
    BY <1>1 DEF PollsApart
<1>2. ASSUME NEW f \in Feeds, NEW r \in Records, Write(f, r)
      PROVE  PollsApart'
    <2>1. polled \in [Feeds -> [Hours -> SUBSET Records]] /\ hour \in Hours
        BY DEF Base, TypeOK
    <2>2. \A g \in Feeds, h \in Hours :
              polled'[g][h] = IF g = f /\ h = hour THEN polled[g][h] \cup {r} ELSE polled[g][h]
        BY <1>2, <2>1 DEF Write
    <2>3. r \notin offered /\ offered' = offered \cup {r}
        BY <1>2 DEF Write
    <2>4. \A g \in Feeds, h \in Hours : r \notin polled[g][h]
        BY <2>3 DEF PollsApart
    <2>5. ASSUME NEW g \in Feeds, NEW h \in Hours
          PROVE  polled'[g][h] \subseteq offered'
        <3>1. polled[g][h] \subseteq offered
            BY DEF PollsApart
        <3> QED BY <2>2, <2>3, <3>1
    <2>6. ASSUME NEW g \in Feeds, NEW e \in Feeds, NEW h \in Hours, NEW k \in Hours,
                 g # e \/ h # k
          PROVE  polled'[g][h] \cap polled'[e][k] = {}
        <3>1. polled[g][h] \cap polled[e][k] = {}
            BY <2>6 DEF PollsApart
        <3>2. r \notin polled[g][h] /\ r \notin polled[e][k]
            BY <2>4
        <3>3. CASE g = f /\ h = hour
            <4>1. ~(e = f /\ k = hour)
                BY <2>6, <3>3
            <4>2. /\ polled'[g][h] = polled[g][h] \cup {r}
                  /\ polled'[e][k] = polled[e][k]
                BY <2>2, <3>3, <4>1
            <4> QED BY ONLY <3>1, <3>2, <4>2
        <3>4. CASE ~(g = f /\ h = hour)
            <4>1. polled'[g][h] = polled[g][h]
                BY <2>2, <3>4
            <4>2. polled'[e][k] = polled[e][k] \/ polled'[e][k] = polled[e][k] \cup {r}
                BY <2>2
            <4> QED BY ONLY <3>1, <3>2, <4>1, <4>2
        <3> QED BY <3>3, <3>4
    <2> QED BY <2>5, <2>6 DEF PollsApart
<1> QED BY <1>1, <1>2, PolledSteps

(* A step puts nothing in memory but the record of a poll.                 *)
LEMMA HeldSteps ==
    ASSUME Base, [Next]_vars, NEW g \in Feeds
    PROVE  \A r \in Held(g)' : r \in Held(g) \/ r \notin offered
<1>0. /\ pending \in [Feeds -> SUBSET Records]
      /\ buffer \in [Feeds -> SUBSET Records]
    BY DEF Base, TypeOK
<1> DEFINE Goal == Held(g)' \subseteq Held(g)
<1> USE <1>0 DEF Held, callVars
<1>1. ASSUME NEW f \in Feeds, BeginPoll(f) \/ FetchFails(f) PROVE Goal
    BY <1>1 DEF BeginPoll, FetchFails, EndCall, Goto
<1>2. ASSUME NEW f \in Feeds, NEW r \in Records, Write(f, r)
      PROVE  Held(g)' \subseteq Held(g) \cup {r} /\ r \notin offered
    BY <1>2 DEF Write
<1>3. ASSUME NEW f \in Feeds, OpenFails(f) \/ OpenShard(f) PROVE Goal
    BY <1>3 DEF OpenFails, OpenShard, EndCall, Goto
<1>4. ASSUME NEW f \in Feeds, Compress(f) PROVE Goal
    BY <1>4 DEF Compress, EndCall
<1>5. ASSUME NEW f \in Feeds, Drain(f) \/ FlushShard(f) PROVE Goal
    BY <1>5 DEF Drain, FlushShard, Goto
<1>6. ASSUME NEW f \in Feeds, FlushFails(f) PROVE Goal
    BY <1>6 DEF FlushFails, ClosedShard, EndCall, Goto
<1>7. ASSUME NEW f \in Feeds, RenameShard(f) \/ RenameFails(f) PROVE Goal
    BY <1>7 DEF RenameShard, RenameFails, ClosedShard, EndCall, Goto
<1>8. ASSUME NEW f \in Feeds, StatShard(f) \/ UnlinkShard(f) \/ UnlinkFails(f) PROVE Goal
    BY <1>8 DEF StatShard, UnlinkShard, UnlinkFails, ClosedShard, EndCall, Goto
<1>9. ASSUME NEW f \in Feeds, UploadShard(f) \/ UploadFails(f) PROVE Goal
    BY <1>9 DEF UploadShard, UploadFails, ClosedShard, EndCall, Goto
<1>10. ASSUME NEW f \in Feeds, StatFails(f) PROVE Goal
    BY <1>10 DEF StatFails, EndCall, LoseMemory
<1>11. ASSUME NEW f \in Feeds, CloseNext(f) PROVE Goal
    BY <1>11 DEF CloseNext
<1>12. CASE Crash
    BY <1>12 DEF Crash, LoseMemory
<1>13. CASE Start \/ Signal \/ BeginClose \/ Exit \/ HourPasses \/ UNCHANGED vars
    BY <1>13 DEF Start, Signal, BeginClose, Exit, HourPasses, vars
<1> QED
    BY <1>1, <1>2, <1>3, <1>4, <1>5, <1>6, <1>7, <1>8, <1>9, <1>10, <1>11, <1>12, <1>13
    DEF Next, CallStep, CloseStep, CloseArchive

(* A step that is no disk step of the feed leaves a shard filled that is   *)
(* open between two calls, and closes no other.                            *)
StaysFilled(g) ==
    /\ shards'[g] # NoHour /\ step'[g] # "compress" =>
           /\ shards'[g] = shards[g]
           /\ (step[g] # "compress" /\ buffer'[g] = buffer[g]) \/ buffer'[g] # {}
    /\ step'[g] = "flush" =>
           /\ buffer'[g] = buffer[g]
           /\ \/ step[g] = "flush" /\ oldHour'[g] = oldHour[g]
              \/ shards[g] # NoHour /\ step[g] # "compress" /\ oldHour'[g] = shards[g]
    /\ step'[g] = "rename" => step[g] = "rename" /\ oldHour'[g] = oldHour[g]

LEMMA FilledSteps ==
    ASSUME Base, [Next]_vars, NEW g \in Feeds, ~DiskStep(g)
    PROVE  StaysFilled(g)
<1>0. /\ step \in [Feeds -> Steps]
      /\ pending \in [Feeds -> SUBSET Records]
      /\ buffer \in [Feeds -> SUBSET Records]
      /\ shards \in [Feeds -> Hours \cup {NoHour}]
      /\ oldHour \in [Feeds -> Hours \cup {NoHour}]
      /\ Shape(g)
    BY DEF Base, TypeOK, CallShape
<1> USE <1>0 DEF StaysFilled, callVars
<1>1. ASSUME NEW f \in Feeds, BeginPoll(f) PROVE StaysFilled(g)
    BY <1>1 DEF BeginPoll, Goto
<1>2. ASSUME NEW f \in Feeds, FetchFails(f) PROVE StaysFilled(g)
    BY <1>2 DEF FetchFails, EndCall
<1>3. ASSUME NEW f \in Feeds, NEW r \in Records, Write(f, r) PROVE StaysFilled(g)
    BY <1>3 DEF Write, EnterCloseShard
<1>4. ASSUME NEW f \in Feeds, OpenFails(f) PROVE StaysFilled(g)
    BY <1>4 DEF OpenFails, EndCall, Shape
<1>5. ASSUME NEW f \in Feeds, Compress(f) PROVE StaysFilled(g)
    <2>1. step[f] = "compress" => pending[f] # {}
        BY DEF Base, CallShape, Shape
    <2> QED BY <1>5, <2>1 DEF Compress, EndCall
<1>6. ASSUME NEW f \in Feeds, f # g, OpenShard(f) \/ Drain(f) \/ FlushShard(f)
      PROVE  StaysFilled(g)
    BY <1>6 DEF OpenShard, Drain, FlushShard, Goto
<1>7. ASSUME NEW f \in Feeds, FlushFails(f) PROVE StaysFilled(g)
    BY <1>7 DEF FlushFails, ClosedShard, EndCall, Goto, Shape
<1>8. ASSUME NEW f \in Feeds, RenameFails(f) PROVE StaysFilled(g)
    BY <1>8 DEF RenameFails, ClosedShard, EndCall, Goto, Shape
<1>9. ASSUME NEW f \in Feeds, StatShard(f) \/ UnlinkFails(f) PROVE StaysFilled(g)
    BY <1>9 DEF StatShard, UnlinkFails, ClosedShard, EndCall, Goto, Shape
<1>10. ASSUME NEW f \in Feeds, f # g,
              RenameShard(f) \/ UploadShard(f) \/ UploadFails(f) \/ UnlinkShard(f)
       PROVE  StaysFilled(g)
    BY <1>10 DEF RenameShard, UploadShard, UploadFails, UnlinkShard, ClosedShard, EndCall, Goto
<1>11. ASSUME NEW f \in Feeds, StatFails(f) PROVE StaysFilled(g)
    BY <1>11 DEF StatFails, EndCall, LoseMemory, Shape
<1>12. ASSUME NEW f \in Feeds, CloseNext(f) PROVE StaysFilled(g)
    BY <1>12 DEF CloseNext, EnterCloseShard, Idle
<1>13. CASE Crash
    BY <1>13 DEF Crash, LoseMemory
<1>14. CASE Start \/ Signal \/ BeginClose \/ Exit \/ HourPasses \/ UNCHANGED vars
    BY <1>14 DEF Start, Signal, BeginClose, Exit, HourPasses, vars
<1> QED
    BY <1>1, <1>2, <1>3, <1>4, <1>5, <1>6, <1>7, <1>8, <1>9, <1>10, <1>11, <1>12, <1>13,
       <1>14
    DEF Next, CallStep, CloseStep, CloseArchive, DiskStep

LEMMA FilledStep ==
    ASSUME Base, [Next]_vars, NEW g \in Feeds, Filled(g)
    PROVE  Filled(g)'
<1>0. /\ step \in [Feeds -> Steps]
      /\ pending \in [Feeds -> SUBSET Records]
      /\ buffer \in [Feeds -> SUBSET Records]
      /\ shards \in [Feeds -> Hours \cup {NoHour}]
      /\ Shape(g)
    BY DEF Base, TypeOK, CallShape
<1>1. CASE ~DiskStep(g)
    <2>1. StaysFilled(g)
        BY <1>1, FilledSteps
    <2>2. \A h \in Hours : partial'[g][h] = partial[g][h]
        BY <1>1, OtherFeeds, DiskSteps DEF QuietDisk, diskVars, Base
    <2>3. /\ shards[g] # NoHour => partial'[g][shards[g]] = partial[g][shards[g]]
          /\ step[g] \in {"flush", "rename"} => partial'[g][oldHour[g]] = partial[g][oldHour[g]]
        BY <1>0, <2>2, OldHourType DEF Base
    <2>4. shards'[g] # NoHour /\ step'[g] # "compress" =>
              partial'[g][shards'[g]].recs \cup buffer'[g] # {}
        BY <2>1, <2>3 DEF StaysFilled, Filled
    <2>5. step'[g] = "flush" => partial'[g][oldHour'[g]].recs \cup buffer'[g] # {}
        BY <2>1, <2>3 DEF StaysFilled, Filled
    <2>6. step'[g] = "rename" => partial'[g][oldHour'[g]].recs # {}
        BY <2>1, <2>3 DEF StaysFilled, Filled
    <2> QED BY <2>4, <2>5, <2>6 DEF Filled
<1>2. CASE OpenShard(g)
    BY <1>0, <1>2 DEF OpenShard, Goto, Filled
<1>3. CASE Drain(g)
    <2>1. /\ shards[g] \in Hours /\ buffer[g] # {}
          /\ step[g] \notin {"flush", "rename"}
          /\ UNCHANGED <<step, shards>>
        BY <1>0, <1>3, DrainEffect DEF Drain, callVars, Shape, Base
    <2>2. Extended(partial[g][shards[g]], buffer[g]).recs
              = partial[g][shards[g]].recs \cup buffer[g]
        BY <2>1, FileTyped, ExtendedFacts DEF Base
    <2>3. partial'[g][shards[g]].recs # {}
        BY <1>3, <2>1, <2>2, DrainEffect DEF Base
    <2> QED BY <2>1, <2>3 DEF Filled
<1>4. CASE FlushShard(g)
    <2>1. /\ oldHour[g] \in Hours /\ oldHour' = oldHour /\ shards'[g] = NoHour
          /\ step[g] = "flush" /\ step'[g] = "rename"
        BY <1>0, <1>4, FlushEffect DEF FlushShard, Goto, Shape, Base
    <2>2. Ended(Extended(partial[g][oldHour[g]], buffer[g])).recs
              = partial[g][oldHour[g]].recs \cup buffer[g]
        BY <2>1, FileTyped, ExtendedFacts DEF Base
    <2>3. partial'[g][oldHour[g]].recs # {}
        BY <1>4, <2>1, <2>2, FlushEffect DEF Base, Filled
    <2> QED BY <2>1, <2>3 DEF Filled
<1>5. CASE RenameShard(g)
    <2>1. shards'[g] = NoHour /\ step'[g] = "stat"
        BY <1>0, <1>5 DEF RenameShard, Goto, Shape
    <2> QED BY <2>1 DEF Filled
<1>6. CASE UploadShard(g) \/ UploadFails(g) \/ UnlinkShard(g)
    <2>1. shards'[g] = NoHour /\ step'[g] \notin {"flush", "rename"}
        BY <1>0, <1>6 DEF UploadShard, UploadFails, UnlinkShard, ClosedShard, EndCall, Goto, Shape
    <2> QED BY <2>1 DEF Filled
<1> QED BY <1>1, <1>2, <1>3, <1>4, <1>5, <1>6 DEF DiskStep

(* The record of the call that waits for a shard to be closed is of a      *)
(* later hour than the shard.                                              *)
LEMMA RenamedApart ==
    ASSUME Base, FiledInv, PollsApart, NEW g \in Feeds, step[g] = "rename"
    PROVE  /\ oldHour[g] \in Hours
           /\ Held(g) \cap partial[g][oldHour[g]].recs = {}
<1>0. Shape(g) /\ CallFiled(g)
    BY DEF Base, CallShape, FiledInv
<1>1. oldHour[g] \in Hours /\ oldHour[g] # NoHour
    BY OldHourType, HourOrder DEF Base
<1>2. partial[g][oldHour[g]].recs \subseteq polled[g][oldHour[g]]
    BY <1>1 DEF FiledInv, FiledByHour
<1>3. buffer[g] = {}
    BY <1>0 DEF Shape
<1>4. CASE pending[g] = {}
    BY <1>1, <1>3, <1>4 DEF Held
<1>5. CASE pending[g] # {}
    <2>1. /\ writeHour[g] \in Hours /\ writeHour[g] # NoHour
          /\ oldHour[g] < writeHour[g]
        BY <1>0, <1>1, <1>5 DEF Shape, Base, TypeOK
    <2>2. oldHour[g] # writeHour[g]
        <3>1. oldHour[g] \in Nat /\ writeHour[g] \in Nat
            BY <1>1, <2>1, HourOrder
        <3> QED BY <2>1, <3>1
    <2>3. pending[g] \subseteq polled[g][writeHour[g]]
        BY <1>0, <2>1 DEF CallFiled
    <2>4. polled[g][writeHour[g]] \cap polled[g][oldHour[g]] = {}
        BY <1>1, <2>1, <2>2 DEF PollsApart
    <2> QED BY <1>1, <1>2, <1>3, <2>3, <2>4 DEF Held
<1> QED BY <1>4, <1>5

LEMMA UnpublishedStep ==
    ASSUME Base, FiledInv, FreshInv, [Next]_vars, NEW g \in Feeds
    PROVE  Unpublished(g)'
<1> SUFFICES ASSUME NEW h \in Hours
             PROVE  /\ Held(g)' \cap FinalAt(g, h)' = {}
                    /\ partial'[g][h].recs \cap FinalAt(g, h)' = {}
    BY DEF Unpublished
<1>0. /\ Held(g) \cap FinalAt(g, h) = {}
      /\ partial[g][h].recs \cap FinalAt(g, h) = {}
    BY DEF FreshInv, Unpublished
<1>1. FinalAt(g, h) \subseteq offered
    BY DEF FiledInv, FiledByHour, FreshInv, PollsApart, FinalAt
<1>2. Held(g)' \cap FinalAt(g, h) = {}
    BY <1>0, <1>1, HeldSteps
<1>h. Held(g) \cap FinalAt(g, h) = {} /\ Absent.recs = {}
    BY <1>0 DEF Absent
<1>3. CASE QuietDisk
    BY <1>0, <1>2, <1>3 DEF QuietDisk, diskVars, FinalAt
<1>4. ASSUME NEW f \in Feeds, DiskStep(f), f # g
      PROVE  Held(g)' \cap FinalAt(g, h)' = {} /\ partial'[g][h].recs \cap FinalAt(g, h)' = {}
    BY <1>0, <1>2, <1>4, OtherFeeds DEF FinalAt
<1>5. CASE OpenShard(g)
    <2>1. UNCHANGED <<final, r2>> /\ partial'[g][h].recs \subseteq partial[g][h].recs
        BY <1>5, OpenEffect DEF NewShard, Base
    <2> QED BY <1>0, <1>2, <2>1 DEF FinalAt
<1>6. CASE Drain(g)
    <2>1. shards[g] \in Hours
        BY <1>6, DrainEffect DEF Base
    <2>2. Extended(partial[g][shards[g]], buffer[g]).recs
              = partial[g][shards[g]].recs \cup buffer[g]
        BY <2>1, FileTyped, ExtendedFacts DEF Base
    <2>3. /\ UNCHANGED <<final, r2>>
          /\ partial'[g][h].recs \subseteq partial[g][h].recs \cup Held(g)
        BY <1>6, <2>1, <2>2, DrainEffect DEF Held, Base
    <2> QED BY <1>0, <1>2, <2>3 DEF FinalAt
<1>7. CASE FlushShard(g)
    <2>1. oldHour[g] \in Hours
        BY <1>7, FlushEffect DEF Base
    <2>2. Ended(Extended(partial[g][oldHour[g]], buffer[g])).recs
              = partial[g][oldHour[g]].recs \cup buffer[g]
        BY <2>1, FileTyped, ExtendedFacts DEF Base
    <2>3. /\ UNCHANGED <<final, r2>>
          /\ partial'[g][h].recs \subseteq partial[g][h].recs \cup Held(g)
        BY <1>7, <2>1, <2>2, FlushEffect DEF Held, Base
    <2> QED BY <1>0, <1>2, <2>3 DEF FinalAt
<1>8. CASE RenameShard(g)
    <2>1. step[g] = "rename" /\ buffer' = buffer /\ pending' = pending
        BY <1>8 DEF RenameShard, Goto
    <2>2. oldHour[g] \in Hours /\ Held(g) \cap partial[g][oldHour[g]].recs = {}
        BY <2>1, RenamedApart DEF FreshInv
    <2>3. /\ r2' = r2
          /\ final'[g][h] = IF h = oldHour[g] THEN partial[g][h] ELSE final[g][h]
          /\ partial'[g][h] = IF h = oldHour[g] THEN Absent ELSE partial[g][h]
        BY <1>8, RenameEffect DEF Base
    <2>4. CASE h = oldHour[g]
        BY <1>0, <1>h, <2>1, <2>2, <2>3, <2>4 DEF FinalAt, Held
    <2>5. CASE h # oldHour[g]
        BY <1>0, <1>2, <2>3, <2>5 DEF FinalAt
    <2> QED BY <2>4, <2>5
<1>9. CASE UploadShard(g) \/ UploadFails(g)
    <2>1. UNCHANGED diskVars /\ FinalAt(g, h)' \subseteq FinalAt(g, h)
        BY <1>9, UploadEffect DEF FinalAt, Base, diskVars
    <2> QED BY <1>0, <1>2, <2>1 DEF diskVars
<1>10. CASE UnlinkShard(g)
    <2>1. partial' = partial /\ FinalAt(g, h)' \subseteq FinalAt(g, h)
        BY <1>10, <1>h, UnlinkEffect DEF FinalAt, Base
    <2> QED BY <1>0, <1>2, <2>1
<1> QED BY <1>3, <1>4, <1>5, <1>6, <1>7, <1>8, <1>9, <1>10, DiskSteps DEF DiskStep, Base

LEMMA FreshStep ==
    ASSUME Base, FiledInv, FreshInv, [Next]_vars
    PROVE  FreshInv'
<1>1. PollsApart'
    BY PollsApartStep DEF FreshInv
<1>2. \A g \in Feeds : Unpublished(g)'
    BY UnpublishedStep
<1>3. \A g \in Feeds : Filled(g)'
    BY FilledStep DEF FreshInv
<1> QED BY <1>1, <1>2, <1>3 DEF FreshInv

(* The only file that gets a final name is the one #closeShard renames.    *)
LEMMA FinalsAreRenamed ==
    ASSUME Base, [Next]_vars, NEW f \in Feeds, NEW h \in Hours,
           final'[f][h] \notin {final[f][h], Absent}
    PROVE  step[f] = "rename" /\ h = oldHour[f] /\ final'[f][h] = partial[f][h]
<1>1. ~QuietDisk
    BY DEF QuietDisk, diskVars
<1>2. DiskStep(f)
    BY <1>1, DiskSteps, OtherFeeds DEF Base
<1>3. ~OpenShard(f) /\ ~Drain(f) /\ ~FlushShard(f)
    BY OpenEffect, DrainEffect, FlushEffect DEF Base
<1>4. ~UploadShard(f) /\ ~UploadFails(f) /\ ~UnlinkShard(f)
    <2>1. ~UploadShard(f) /\ ~UploadFails(f)
        BY UploadEffect DEF Base, diskVars
    <2>2. ~UnlinkShard(f)
        BY UnlinkEffect DEF Base
    <2> QED BY <2>1, <2>2
<1>5. RenameShard(f)
    BY <1>2, <1>3, <1>4 DEF DiskStep
<1>6. final'[f][h] = IF h = oldHour[f] THEN partial[f][h] ELSE final[f][h]
    BY <1>5, RenameEffect DEF Base
<1>7. step[f] = "rename"
    BY <1>5 DEF RenameShard
<1> QED BY <1>6, <1>7

LEMMA NewShardStep ==
    ASSUME Base, FiledInv, FreshInv, [Next]_vars, NEW f \in Feeds, NEW h \in Hours,
           final'[f][h] \notin {final[f][h], Absent}
    PROVE  final'[f][h].recs # {} /\ final'[f][h].recs \cap FinalRecords = {}
<1>1. step[f] = "rename" /\ h = oldHour[f] /\ final'[f][h] = partial[f][h]
    BY FinalsAreRenamed
<1>2. partial[f][h].recs # {}
    BY <1>1 DEF FreshInv, Filled
<1>3. ASSUME NEW g \in Feeds, NEW k \in Hours
      PROVE  partial[f][h].recs \cap (final[g][k].recs \cup r2[g][k].recs) = {}
    <2>1. CASE g = f /\ k = h
        BY <2>1 DEF FreshInv, Unpublished, FinalAt
    <2>2. CASE g # f \/ k # h
        <3>1. /\ partial[f][h].recs \subseteq polled[f][h]
              /\ final[g][k].recs \cup r2[g][k].recs \subseteq polled[g][k]
            BY DEF FiledInv, FiledByHour
        <3>2. polled[f][h] \cap polled[g][k] = {}
            BY <2>2 DEF FreshInv, PollsApart
        <3> QED BY <3>1, <3>2
    <2> QED BY <2>1, <2>2
<1>4. partial[f][h].recs \cap FinalRecords = {}
    <2> DEFINE S == {final[g][k].recs \cup r2[g][k].recs : g \in Feeds, k \in Hours}
    <2>1. \A x \in S : partial[f][h].recs \cap x = {}
        BY <1>3
    <2>2. FinalRecords = UNION S
        BY DEF FinalRecords
    <2> HIDE DEF S
    <2> QED BY <2>1, <2>2
<1> QED BY <1>1, <1>2, <1>4

(* However often the worker is killed, restarted or cannot open or close a *)
(* shard, it publishes no empty shard and no record twice.                 *)
THEOREM FinalShardsAreNew == Spec => ShardsAreNew
<1>1. Init => FiledInv /\ FreshInv
    <2> SUFFICES ASSUME Init PROVE FiledInv /\ FreshInv
        OBVIOUS
    <2>1. FiledInv
        BY FiledInit
    <2>2. PollsApart
        BY DEF Init, PollsApart
    <2>3. \A f \in Feeds : Unpublished(f)
        BY DEF Init, Unpublished, Held, FinalAt, Absent
    <2>4. \A f \in Feeds : Filled(f)
        BY DEF Init, Filled
    <2> QED BY <2>1, <2>2, <2>3, <2>4 DEF FreshInv
<1>2. TypeOK /\ CallShape /\ FiledInv /\ FreshInv /\ [Next]_vars => FiledInv' /\ FreshInv'
    BY FiledStep, FreshStep DEF Base
<1>3. TypeOK /\ CallShape /\ FiledInv /\ FreshInv /\ [Next]_vars =>
          [\A f \in Feeds, h \in Hours :
              final'[f][h] \notin {final[f][h], Absent} =>
                  final'[f][h].recs # {} /\ final'[f][h].recs \cap FinalRecords = {}]_vars
    BY NewShardStep DEF Base
<1> QED BY <1>1, <1>2, <1>3, TypeCorrect, PTL DEF Spec, ShardsAreNew
=============================================================================
