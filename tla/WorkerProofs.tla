---------------------------- MODULE WorkerProofs ----------------------------
(***************************************************************************)
(* Theorems about the modules of src/worker.ts. PollLoops, for every set   *)
(* of feeds and every timing: a stop is bounded by one poll, and a stop    *)
(* timeout longer than one poll and the closing of the archive is never    *)
(* reached; no poll comes early. ScheduleCache, for all publications, days *)
(* and trips: polls are matched against one complete version of their day. *)
(***************************************************************************)
EXTENDS PollLoops, ScheduleCache, FiniteSetTheorems, TLAPS

(* The waiters are the sleeping loops, and a stopping worker has none.     *)
SleepersWait ==
    /\ \A f \in Feeds : f \in waiters <=> pc[f] = "sleep"
    /\ stopping => waiters = {}
    /\ \A f \in Feeds : pc[f] = "ended" => stopping

(* What a loop awaits is over within the bound of the place it is at.      *)
InTime(f) ==
    /\ pc[f] = "attempt" => timer[f] <= FetchTimeout
    /\ pc[f] = "backoff" => timer[f] < BackoffMax /\ attempt[f] < MaxRetries
    /\ pc[f] = "store" => timer[f] <= StoreMax
    /\ pc[f] = "record" => timer[f] <= RecordMax

(* The time until the poll in flight is over, at the latest.               *)
Retries(n) == (MaxRetries - n) * AttemptBound

Remaining(f) ==
    IF pc[f] = "attempt"
    THEN timer[f] + Retries(attempt[f]) + StoreMax + RecordMax
    ELSE IF pc[f] = "backoff"
    THEN timer[f] + FetchTimeout + Retries(attempt[f] + 1) + StoreMax + RecordMax
    ELSE IF pc[f] = "store"
    THEN timer[f] + RecordMax
    ELSE IF pc[f] = "record"
    THEN timer[f]
    ELSE 0

StopClock ==
    /\ \A f \in Feeds : InTime(f)
    /\ closeTimer <= CloseMax
    /\ ~stopping => sinceSignal = 0
    /\ stopping /\ proc = "up" =>
           /\ sinceSignal <= PollBound
           /\ \A f \in Feeds : sinceSignal + Remaining(f) <= PollBound
    /\ proc = "closing" => sinceSignal + closeTimer <= PollBound + CloseMax

-----------------------------------------------------------------------------
LEMMA TypeStep ==
    ASSUME TypeOK, \A f \in Feeds : InTime(f), [Next]_vars
    PROVE  TypeOK'
<1> USE TimingAssumption DEF TypeOK, Places, loopVars
<1>1. ASSUME NEW f \in Feeds, StartPoll(f) PROVE TypeOK'
    BY <1>1 DEF StartPoll, Await
<1>2. ASSUME NEW f \in Feeds, EndLoop(f) PROVE TypeOK'
    BY <1>2 DEF EndLoop, Await
<1>3. ASSUME NEW f \in Feeds, Fetched(f) PROVE TypeOK'
    BY <1>3 DEF Fetched, Await
<1>4. ASSUME NEW f \in Feeds, AttemptFails(f) PROVE TypeOK'
    BY <1>4 DEF AttemptFails, FinishPoll, Await
<1>5. ASSUME NEW f \in Feeds, FetchRefused(f) PROVE TypeOK'
    BY <1>5 DEF FetchRefused, FinishPoll, Await
<1>6. ASSUME NEW f \in Feeds, Retry(f) PROVE TypeOK'
    BY <1>6 DEF Retry, Await, InTime
<1>7. ASSUME NEW f \in Feeds, Stored(f) PROVE TypeOK'
    BY <1>7 DEF Stored, FinishPoll, Await
<1>8. ASSUME NEW f \in Feeds, Recorded(f) PROVE TypeOK'
    BY <1>8 DEF Recorded, Await
<1>9. ASSUME NEW f \in Feeds, WakeUp(f) PROVE TypeOK'
    BY <1>9 DEF WakeUp, Await
<1>10. CASE Signal
    BY <1>10 DEF Signal
<1>11. CASE BeginClose \/ Exit \/ Kill
    BY <1>11 DEF BeginClose, Exit, Kill
<1>12. CASE Tick
    BY <1>12 DEF Tick, Awaiting
<1>13. CASE UNCHANGED vars
    BY <1>13 DEF vars
<1>14. QED
    BY <1>1, <1>2, <1>3, <1>4, <1>5, <1>6, <1>7, <1>8, <1>9, <1>10, <1>11, <1>12, <1>13
    DEF Next, LoopStep

LEMMA SleepersStep ==
    ASSUME TypeOK, SleepersWait, [Next]_vars
    PROVE  SleepersWait'
<1> USE DEF TypeOK, SleepersWait, loopVars
<1>1. ASSUME NEW f \in Feeds, StartPoll(f) PROVE SleepersWait'
    BY <1>1 DEF StartPoll, Await
<1>2. ASSUME NEW f \in Feeds, EndLoop(f) PROVE SleepersWait'
    BY <1>2 DEF EndLoop, Await
<1>3. ASSUME NEW f \in Feeds, Fetched(f) PROVE SleepersWait'
    BY <1>3 DEF Fetched, Await
<1>4. ASSUME NEW f \in Feeds, AttemptFails(f) PROVE SleepersWait'
    BY <1>4 DEF AttemptFails, FinishPoll, Await
<1>5. ASSUME NEW f \in Feeds, FetchRefused(f) PROVE SleepersWait'
    BY <1>5 DEF FetchRefused, FinishPoll, Await
<1>6. ASSUME NEW f \in Feeds, Retry(f) PROVE SleepersWait'
    BY <1>6 DEF Retry, Await
<1>7. ASSUME NEW f \in Feeds, Stored(f) PROVE SleepersWait'
    BY <1>7 DEF Stored, FinishPoll, Await
<1>8. ASSUME NEW f \in Feeds, Recorded(f) PROVE SleepersWait'
    BY <1>8 DEF Recorded, Await
<1>9. ASSUME NEW f \in Feeds, WakeUp(f) PROVE SleepersWait'
    BY <1>9 DEF WakeUp, Await
<1>10. CASE Signal
    BY <1>10 DEF Signal
<1>11. CASE BeginClose \/ Exit \/ Kill \/ Tick \/ UNCHANGED vars
    BY <1>11 DEF BeginClose, Exit, Kill, Tick, vars
<1>12. QED
    BY <1>1, <1>2, <1>3, <1>4, <1>5, <1>6, <1>7, <1>8, <1>9, <1>10, <1>11
    DEF Next, LoopStep

-----------------------------------------------------------------------------
(* The arithmetic of the bound.                                            *)
LEMMA BoundFacts ==
    /\ AttemptBound \in Nat
    /\ PollBound \in Nat
    /\ PollBound = Retries(0) + FetchTimeout + StoreMax + RecordMax
    /\ \A n \in 0..MaxRetries : Retries(n) \in Nat
    /\ \A n \in 0..MaxRetries : Retries(n) <= Retries(0)
    /\ \A n \in 0..MaxRetries :
           n < MaxRetries => Retries(n) = Retries(n + 1) + FetchTimeout + BackoffMax
<1>1. AttemptBound \in Nat /\ MaxRetries \in Nat
    BY TimingAssumption DEF AttemptBound
<1>2. ASSUME NEW n \in 0..MaxRetries
      PROVE  /\ Retries(n) \in Nat
             /\ Retries(n) + n * AttemptBound = Retries(0)
             /\ n * AttemptBound \in Nat
    <2>1. MaxRetries - n \in Nat /\ n \in Nat
        BY <1>1
    <2>2. \A a, b \in Nat : a * b \in Nat
        OBVIOUS
    <2>3. (MaxRetries - n) * AttemptBound + n * AttemptBound
              = (MaxRetries - 0) * AttemptBound
        BY ONLY <1>1, <2>1
    <2>4. QED
        BY <1>1, <2>1, <2>2, <2>3 DEF Retries
<1>3. ASSUME NEW n \in 0..MaxRetries, n < MaxRetries
      PROVE  Retries(n) = Retries(n + 1) + AttemptBound
    <2>1. n \in Nat
        BY <1>1
    <2>2. (MaxRetries - n) * AttemptBound
              = (MaxRetries - (n + 1)) * AttemptBound + AttemptBound
        BY ONLY <1>1, <2>1
    <2>3. QED
        BY <2>2 DEF Retries
<1>4. Retries(0) = MaxRetries * AttemptBound
    BY <1>1 DEF Retries
<1>5. \A n \in 0..MaxRetries : Retries(n) <= Retries(0)
    <2> SUFFICES ASSUME NEW n \in 0..MaxRetries PROVE Retries(n) <= Retries(0)
        OBVIOUS
    <2> QED
        BY <1>2
<1>6. 0 \in 0..MaxRetries
    BY <1>1
<1>7. Retries(0) \in Nat
    BY <1>2, <1>6
<1>8. PollBound = Retries(0) + FetchTimeout + StoreMax + RecordMax
    BY <1>4 DEF PollBound
<1>9. PollBound \in Nat
    BY <1>7, <1>8, TimingAssumption
<1>10. \A n \in 0..MaxRetries :
           n < MaxRetries => Retries(n) = Retries(n + 1) + FetchTimeout + BackoffMax
    <2> SUFFICES ASSUME NEW n \in 0..MaxRetries, n < MaxRetries
                 PROVE  Retries(n) = Retries(n + 1) + FetchTimeout + BackoffMax
        OBVIOUS
    <2>1. n + 1 \in 0..MaxRetries
        BY <1>1
    <2>2. Retries(n + 1) \in Nat
        BY <1>2, <2>1
    <2>3. QED
        BY <1>3, <2>2, TimingAssumption DEF AttemptBound
<1>11. QED
    BY <1>1, <1>2, <1>5, <1>8, <1>9, <1>10

LEMMA RemainingBound ==
    ASSUME TypeOK, NEW f \in Feeds, InTime(f)
    PROVE  Remaining(f) \in Nat /\ Remaining(f) <= PollBound
<1> USE TimingAssumption, BoundFacts DEF TypeOK, InTime
<1>1. /\ attempt[f] \in 0..MaxRetries /\ timer[f] \in Nat
      /\ Retries(attempt[f]) \in Nat
      /\ Retries(attempt[f]) <= Retries(0)
    OBVIOUS
<1>2. CASE pc[f] = "attempt"
    BY <1>1, <1>2 DEF Remaining
<1>3. CASE pc[f] = "backoff"
    <2>1. attempt[f] + 1 \in 0..MaxRetries
        BY <1>1, <1>3
    <2>2. Retries(attempt[f]) = Retries(attempt[f] + 1) + FetchTimeout + BackoffMax
        BY <1>1, <1>3
    <2>3. Retries(attempt[f] + 1) \in Nat
        BY <2>1
    <2>4. QED
        BY <1>1, <1>3, <2>2, <2>3 DEF Remaining
<1>4. CASE pc[f] \notin {"attempt", "backoff"}
    <2>1. Retries(0) \in Nat
        BY <1>1
    <2>2. QED
        BY <1>1, <1>4, <2>1 DEF Remaining
<1>5. QED
    BY <1>2, <1>3, <1>4

-----------------------------------------------------------------------------
(* A step of a loop leaves the other loops alone, and brings its own poll  *)
(* no further from its end.                                                *)
LEMMA LoopShrinks ==
    ASSUME TypeOK, NEW f \in Feeds, InTime(f), LoopStep(f)
    PROVE  /\ InTime(f)'
           /\ stopping => Remaining(f)' <= Remaining(f)
<1> USE TimingAssumption DEF TypeOK
<1>a. /\ attempt[f] \in 0..MaxRetries /\ timer[f] \in Nat
      /\ Retries(attempt[f]) \in Nat
    BY BoundFacts
<1>1. CASE StartPoll(f)
    BY <1>1 DEF StartPoll, Await, InTime
<1>2. CASE EndLoop(f) \/ WakeUp(f)
    <2>1. pc'[f] \in {"ended", "check"}
        BY <1>2 DEF EndLoop, WakeUp, Await
    <2>2. Remaining(f)' = 0
        BY <2>1 DEF Remaining
    <2>3. Remaining(f) \in Nat
        BY RemainingBound
    <2>4. QED
        BY <2>1, <2>2, <2>3 DEF InTime
<1>3. CASE Fetched(f)
    <2>1. PICK t \in 0..StoreMax : Await(f, "store", t)
        BY <1>3 DEF Fetched
    <2>2. pc[f] = "attempt" /\ pc'[f] = "store" /\ timer'[f] = t
        BY <1>3, <2>1 DEF Fetched, Await
    <2>3. QED
        BY <1>a, <2>2 DEF InTime, Remaining
<1>4. CASE Retry(f)
    <2>1. /\ pc[f] = "backoff" /\ pc'[f] = "attempt" /\ timer'[f] = FetchTimeout
          /\ attempt'[f] = attempt[f] + 1
          /\ timer[f] = 0
        BY <1>4 DEF Retry, Await
    <2>2. attempt[f] + 1 \in 0..MaxRetries
        BY <1>a, <2>1 DEF InTime
    <2>3. Retries(attempt[f] + 1) \in Nat
        BY <2>2, BoundFacts
    <2>4. Remaining(f)' = FetchTimeout + Retries(attempt[f] + 1) + StoreMax + RecordMax
        BY <2>1 DEF Remaining, Retries, AttemptBound
    <2>5. QED
        BY <2>1, <2>3, <2>4 DEF InTime, Remaining
<1>5. ASSUME FinishPoll(f), pc[f] \in {"attempt", "store"}
      PROVE  InTime(f)' /\ Remaining(f)' <= Remaining(f)
    <2>1. PICK t \in 0..RecordMax : Await(f, "record", t)
        BY <1>5 DEF FinishPoll
    <2>2. pc'[f] = "record" /\ timer'[f] = t
        BY <2>1 DEF Await
    <2>3. CASE pc[f] = "attempt"
        BY <1>a, <2>2, <2>3 DEF InTime, Remaining
    <2>4. CASE pc[f] = "store"
        BY <1>a, <2>2, <2>4 DEF InTime, Remaining
    <2>5. QED
        BY <1>5, <2>3, <2>4
<1>6. CASE AttemptFails(f) /\ attempt[f] < MaxRetries
    <2>1. PICK d \in 0..(BackoffMax - 1) : Await(f, "backoff", d)
        BY <1>6, <1>a DEF AttemptFails
    <2>2. /\ pc[f] = "attempt" /\ pc'[f] = "backoff" /\ timer'[f] = d
          /\ attempt'[f] = attempt[f]
        BY <1>6, <1>a, <2>1 DEF AttemptFails, Await
    <2>3. attempt[f] + 1 \in 0..MaxRetries
        BY <1>a, <1>6
    <2>4. Retries(attempt[f]) = Retries(attempt[f] + 1) + FetchTimeout + BackoffMax
        BY <1>a, <1>6, BoundFacts
    <2>5. Retries(attempt[f] + 1) \in Nat
        BY <2>3, BoundFacts
    <2>6. Remaining(f)' = d + FetchTimeout + Retries(attempt[f] + 1) + StoreMax + RecordMax
        BY <2>2 DEF Remaining, Retries, AttemptBound
    <2>7. QED
        BY <1>6, <1>a, <2>1, <2>2, <2>4, <2>5, <2>6 DEF InTime, Remaining
<1>7. CASE AttemptFails(f) /\ ~(attempt[f] < MaxRetries)
    BY <1>5, <1>7 DEF AttemptFails
<1>8. CASE FetchRefused(f) \/ Stored(f)
    BY <1>5, <1>8 DEF FetchRefused, Stored
<1>9. CASE Recorded(f)
    <2>1. pc'[f] \in {"check", "sleep"}
        BY <1>9 DEF Recorded, Await
    <2>2. Remaining(f)' = 0
        BY <2>1 DEF Remaining
    <2>3. Remaining(f) \in Nat
        BY RemainingBound
    <2>4. QED
        BY <2>1, <2>2, <2>3 DEF InTime
<1>10. QED
    BY <1>1, <1>2, <1>3, <1>4, <1>6, <1>7, <1>8, <1>9 DEF LoopStep

LEMMA OtherLoops ==
    ASSUME TypeOK, NEW f \in Feeds, LoopStep(f)
    PROVE  /\ UNCHANGED <<proc, stopping, closeTimer, sinceSignal>>
           /\ \A g \in Feeds : g # f =>
                  /\ pc'[g] = pc[g]
                  /\ attempt'[g] = attempt[g]
                  /\ timer'[g] = timer[g]
<1> USE DEF TypeOK, Await
<1>1. CASE StartPoll(f) \/ EndLoop(f) \/ Retry(f) \/ WakeUp(f)
    BY <1>1 DEF StartPoll, EndLoop, Retry, WakeUp
<1>2. CASE Fetched(f) \/ FetchRefused(f) \/ Stored(f)
    BY <1>2 DEF Fetched, FetchRefused, Stored, FinishPoll
<1>3. CASE AttemptFails(f)
    BY <1>3 DEF AttemptFails, FinishPoll
<1>4. CASE Recorded(f)
    BY <1>4 DEF Recorded
<1>5. QED
    BY <1>1, <1>2, <1>3, <1>4 DEF LoopStep

LEMMA RemainingAll ==
    TypeOK /\ (\A f \in Feeds : InTime(f)) =>
        \A f \in Feeds : Remaining(f) \in Nat /\ Remaining(f) <= PollBound
BY RemainingBound

LEMMA RemainingNext ==
    (TypeOK /\ (\A f \in Feeds : InTime(f)) =>
        \A f \in Feeds : Remaining(f) \in Nat /\ Remaining(f) <= PollBound)'
BY RemainingAll, PTL

LEMMA ClockStep ==
    ASSUME TypeOK, SleepersWait, StopClock, [Next]_vars
    PROVE  StopClock'
<1>p. PollBound \in Nat /\ CloseMax \in Nat
    BY BoundFacts, TimingAssumption
<1>r. \A f \in Feeds : Remaining(f) \in Nat /\ Remaining(f) <= PollBound
    BY RemainingBound DEF StopClock
<1>t. TypeOK'
    BY TypeStep DEF StopClock
<1> USE DEF TypeOK
<1>1. ASSUME NEW f \in Feeds, LoopStep(f) PROVE StopClock'
    <2>1. \A g \in Feeds : InTime(g)'
        BY <1>1, LoopShrinks, OtherLoops DEF StopClock, InTime
    <2>2. \A g \in Feeds : Remaining(g)' \in Nat
        BY <1>t, <2>1, RemainingNext
    <2>3. \A g \in Feeds : stopping => Remaining(g)' <= Remaining(g)
        <3> SUFFICES ASSUME NEW g \in Feeds, stopping
                     PROVE  Remaining(g)' <= Remaining(g)
            OBVIOUS
        <3>1. CASE g = f
            BY <1>1, <3>1, LoopShrinks DEF StopClock
        <3>2. CASE g # f
            <4>1. Remaining(g)' = Remaining(g)
                BY <1>1, <3>2, OtherLoops DEF Remaining, Retries, AttemptBound
            <4>2. QED
                BY <1>r, <4>1
        <3>3. QED
            BY <3>1, <3>2
    <2>4. UNCHANGED <<proc, stopping, closeTimer, sinceSignal>>
        BY <1>1, OtherLoops
    <2>5. stopping /\ proc = "up" =>
              \A g \in Feeds : sinceSignal + Remaining(g)' <= PollBound
        BY <1>p, <1>r, <2>2, <2>3 DEF StopClock
    <2>6. QED
        BY <2>1, <2>4, <2>5 DEF StopClock
<1>2. CASE Signal
    <2>1. \A g \in Feeds : InTime(g)'
        BY <1>2, TimingAssumption DEF Signal, InTime, StopClock
    <2>2. \A g \in Feeds : Remaining(g)' \in Nat /\ Remaining(g)' <= PollBound
        BY <1>t, <2>1, RemainingNext
    <2>3. sinceSignal' = 0 /\ stopping' /\ proc' = "up" /\ closeTimer' = closeTimer
        BY <1>2 DEF Signal, StopClock
    <2>4. QED
        BY <1>p, <2>1, <2>2, <2>3 DEF StopClock
<1>3. CASE BeginClose
    <2>1. /\ UNCHANGED <<stopping, sinceSignal>> /\ UNCHANGED loopVars
          /\ proc = "up" /\ proc' = "closing"
          /\ closeTimer' \in 0..CloseMax
        BY <1>3 DEF BeginClose
    <2>2. \A g \in Feeds : InTime(g)'
        BY <2>1 DEF StopClock, InTime, loopVars
    <2>3. sinceSignal <= PollBound
        BY <1>p, <2>1 DEF StopClock
    <2>4. closeTimer' <= CloseMax /\ sinceSignal' + closeTimer' <= PollBound + CloseMax
        <3>1. sinceSignal' = sinceSignal /\ sinceSignal \in Nat /\ closeTimer' \in 0..CloseMax
            BY <2>1
        <3>2. closeTimer' \in Int /\ closeTimer' <= CloseMax
            BY <1>p, <3>1
        <3>3. sinceSignal' \in Int /\ sinceSignal' <= PollBound
            BY <2>3, <3>1
        <3> DEFINE waited == sinceSignal'
                   left == closeTimer'
        <3>4. /\ waited \in Int /\ waited <= PollBound
              /\ left \in Int /\ left <= CloseMax
            BY <3>2, <3>3
        <3> HIDE DEF waited, left
        <3>5. waited + left <= PollBound + CloseMax
            BY ONLY <1>p, <3>4
        <3>6. QED
            BY <3>2, <3>5 DEF waited, left
    <2>5. QED
        BY <2>1, <2>2, <2>4 DEF StopClock
<1>4. CASE Exit \/ Kill \/ UNCHANGED vars
    <2>1. /\ UNCHANGED <<stopping, loopVars, sinceSignal, closeTimer>>
          /\ proc' \in {proc, "down", "killed"}
        BY <1>4 DEF Exit, Kill, vars
    <2>2. \A g \in Feeds : InTime(g)' /\ Remaining(g)' = Remaining(g)
        BY <2>1 DEF StopClock, InTime, loopVars, Remaining, Retries, AttemptBound
    <2>3. QED
        BY <2>1, <2>2 DEF StopClock
<1>5. CASE Tick /\ proc = "up"
    <2>1. /\ UNCHANGED <<proc, stopping, pc, attempt, closeTimer>>
          /\ \A g \in Feeds : timer'[g] = IF Awaiting(g) THEN timer[g] - 1 ELSE timer[g]
          /\ \A g \in Feeds : pc[g] # "check" /\ (Awaiting(g) => timer[g] > 0)
        BY <1>5 DEF Tick
    <2>2. PICK f \in Feeds : Awaiting(f)
        BY <1>5 DEF Tick
    <2>3. sinceSignal' = IF stopping THEN sinceSignal + 1 ELSE sinceSignal
        BY <1>5 DEF Tick
    <2>4. \A g \in Feeds : InTime(g)'
        BY <2>1, TimingAssumption DEF StopClock, InTime, Awaiting
    <2>5. \A g \in Feeds : Remaining(g)' \in Nat
        BY <1>t, <2>4, RemainingNext
    <2>6. ASSUME stopping, NEW g \in Feeds, Awaiting(g)
          PROVE  Remaining(g) = Remaining(g)' + 1
        <3>1. pc[g] \in {"attempt", "backoff", "store", "record"}
            BY <2>6 DEF SleepersWait, Awaiting, Places
        <3>2. timer[g] = timer'[g] + 1 /\ pc'[g] = pc[g] /\ attempt'[g] = attempt[g]
            BY <2>1, <2>6
        <3>3. /\ attempt[g] \in 0..MaxRetries
              /\ pc[g] = "attempt" => Retries(attempt[g]) \in Nat
              /\ pc[g] = "backoff" => Retries(attempt[g] + 1) \in Nat
            BY BoundFacts, TimingAssumption DEF StopClock, InTime
        <3>4. timer[g] \in Nat /\ timer'[g] \in Nat
            BY <1>t
        <3>5. /\ (Retries(attempt[g]))' = Retries(attempt[g])
              /\ (Retries(attempt[g] + 1))' = Retries(attempt[g] + 1)
            BY <3>2 DEF Retries, AttemptBound
        <3>6. QED
            BY <3>1, <3>2, <3>3, <3>4, <3>5, TimingAssumption DEF Remaining
    <2>7. ASSUME stopping
          PROVE  /\ sinceSignal' <= PollBound
                 /\ \A g \in Feeds : sinceSignal' + Remaining(g)' <= PollBound
        <3>1. sinceSignal + Remaining(f) <= PollBound /\ Remaining(f) = Remaining(f)' + 1
            BY <1>5, <2>2, <2>6, <2>7 DEF StopClock
        <3>2. sinceSignal' = sinceSignal + 1 /\ sinceSignal' <= PollBound
            BY <1>p, <2>3, <2>5, <2>7, <3>1
        <3>3. ASSUME NEW g \in Feeds PROVE sinceSignal' + Remaining(g)' <= PollBound
            <4>1. CASE Awaiting(g)
                BY <1>p, <1>5, <1>r, <2>5, <2>6, <2>7, <3>2, <4>1 DEF StopClock
            <4>2. CASE ~Awaiting(g)
                <5>1. Remaining(g)' = 0
                    BY <2>1, <4>2 DEF Awaiting, Remaining
                <5>2. QED
                    BY <1>p, <3>2, <5>1
            <4>3. QED
                BY <4>1, <4>2
        <3>4. QED
            BY <3>2, <3>3
    <2>8. QED
        BY <1>5, <2>1, <2>3, <2>4, <2>7 DEF StopClock
<1>6. CASE Tick /\ proc = "closing"
    <2>1. /\ UNCHANGED <<proc, stopping, pc, attempt, timer>>
          /\ closeTimer > 0 /\ closeTimer' = closeTimer - 1
          /\ sinceSignal' = IF stopping THEN sinceSignal + 1 ELSE sinceSignal
        BY <1>6 DEF Tick
    <2>2. \A g \in Feeds : InTime(g)'
        BY <2>1 DEF StopClock, InTime
    <2>3. QED
        BY <1>p, <1>6, <2>1, <2>2 DEF StopClock
<1>7. QED
    BY <1>1, <1>2, <1>3, <1>4, <1>5, <1>6 DEF Next, Tick

LoopInvariant == TypeOK /\ SleepersWait /\ StopClock

THEOREM LoopsInvariant == Spec => []LoopInvariant
<1>1. Init => LoopInvariant
    <2> SUFFICES ASSUME Init PROVE LoopInvariant
        OBVIOUS
    <2>1. TypeOK
        <3>1. /\ attempt \in [Feeds -> 0..MaxRetries]
              /\ timer \in [Feeds -> Nat]
              /\ pause \in [Feeds -> Nat]
              /\ pc \in [Feeds -> Places]
            BY TimingAssumption DEF Init, Places
        <3>2. /\ sinceStart \in [Feeds -> Nat]
              /\ \A f \in Feeds : sinceStart[f] <= Interval[f]
            BY TimingAssumption DEF Init
        <3>3. QED
            BY <3>1, <3>2 DEF Init, TypeOK
    <2>2. SleepersWait
        BY DEF Init, SleepersWait
    <2>3. StopClock
        BY TimingAssumption DEF Init, StopClock, InTime
    <2>4. QED
        BY <2>1, <2>2, <2>3 DEF LoopInvariant
<1>2. LoopInvariant /\ [Next]_vars => LoopInvariant'
    BY TypeStep, SleepersStep, ClockStep DEF LoopInvariant, StopClock
<1>3. QED
    BY <1>1, <1>2, PTL DEF Spec

(* "The slowest loop to exit is bounded by how long its in-flight poll     *)
(* takes, not by its poll interval" (worker.ts, Shutdown).                 *)
THEOREM StopIsBounded == Spec => []StopBoundedByPoll
<1>1. LoopInvariant => StopBoundedByPoll
    BY DEF LoopInvariant, StopClock, StopBoundedByPoll
<1>2. QED
    BY <1>1, LoopsInvariant, PTL

LEMMA TimeoutStays == [Next]_vars => stopTimeout' = stopTimeout
BY DEF Next, LoopStep, StartPoll, EndLoop, Fetched, AttemptFails, FetchRefused,
       Retry, Stored, Recorded, WakeUp, Signal, BeginClose, Exit, Kill, Tick, vars

(* With a stop timeout longer than the longest poll and the closing of the *)
(* archive, systemd never kills the worker in the middle of a write.       *)
THEOREM EnoughTimeToStop == Spec => []StopsBeforeKill
<1>1. LoopInvariant /\ EnoughTime => ~Kill
    <2> SUFFICES ASSUME LoopInvariant, EnoughTime, Kill PROVE FALSE
        OBVIOUS
    <2>1. PollBound \in Nat /\ CloseMax \in Nat /\ stopTimeout \in Nat
        BY BoundFacts, TimingAssumption DEF LoopInvariant, TypeOK
    <2>2. sinceSignal <= PollBound + CloseMax
        BY <2>1 DEF Kill, LoopInvariant, StopClock, TypeOK
    <2>3. QED
        BY <2>1, <2>2 DEF Kill, LoopInvariant, TypeOK, EnoughTime
<1>2. LoopInvariant /\ StopsBeforeKill /\ [Next]_vars => StopsBeforeKill'
    <2> SUFFICES ASSUME LoopInvariant, StopsBeforeKill, [Next]_vars
                 PROVE  StopsBeforeKill'
        OBVIOUS
    <2>1. ASSUME NEW f \in Feeds, LoopStep(f) PROVE proc' = proc
        BY <2>1, OtherLoops DEF LoopInvariant
    <2>2. EnoughTime' = EnoughTime
        <3>1. stopTimeout' = stopTimeout
            BY TimeoutStays
        <3>2. QED
            BY <3>1 DEF EnoughTime, PollBound, AttemptBound
    <2>3. QED
        BY <1>1, <2>1, <2>2
           DEF StopsBeforeKill, Next, Signal, BeginClose, Exit, Tick, Kill, vars
<1>3. Init => StopsBeforeKill
    BY DEF Init, StopsBeforeKill
<1>4. QED
    BY <1>1, <1>2, <1>3, LoopsInvariant, PTL DEF Spec
-----------------------------------------------------------------------------
(* What a loop is still going to sleep makes up what its interval lacks:   *)
(* a pause that is computed keeps its worth while recordRun takes time,    *)
(* and a running sleep while it runs down.                                 *)
Paced(f) ==
    /\ pc[f] = "check" /\ ~stopping => sinceStart[f] = Interval[f]
    /\ pc[f] = "record" => pause[f] + sinceStart[f] >= Interval[f]
    /\ pc[f] = "sleep" => timer[f] + sinceStart[f] >= Interval[f]

AllPaced == \A f \in Feeds : Paced(f)

LEMMA PacedStep ==
    ASSUME TypeOK, SleepersWait, AllPaced, [Next]_vars
    PROVE  AllPaced'
<1> USE TimingAssumption DEF TypeOK, AllPaced, Paced, loopVars
<1>1. ASSUME NEW f \in Feeds, StartPoll(f) PROVE AllPaced'
    BY <1>1 DEF StartPoll, Await
<1>2. ASSUME NEW f \in Feeds, EndLoop(f) PROVE AllPaced'
    BY <1>2 DEF EndLoop, Await
<1>3. ASSUME NEW f \in Feeds, Fetched(f) PROVE AllPaced'
    BY <1>3 DEF Fetched, Await
<1>4. ASSUME NEW f \in Feeds, AttemptFails(f) PROVE AllPaced'
    BY <1>4 DEF AttemptFails, FinishPoll, Await
<1>5. ASSUME NEW f \in Feeds, FetchRefused(f) PROVE AllPaced'
    BY <1>5 DEF FetchRefused, FinishPoll, Await
<1>6. ASSUME NEW f \in Feeds, Retry(f) PROVE AllPaced'
    BY <1>6 DEF Retry, Await
<1>7. ASSUME NEW f \in Feeds, Stored(f) PROVE AllPaced'
    BY <1>7 DEF Stored, FinishPoll, Await
<1>8. ASSUME NEW f \in Feeds, Recorded(f) PROVE AllPaced'
    BY <1>8 DEF Recorded, Await
<1>9. ASSUME NEW f \in Feeds, WakeUp(f) PROVE AllPaced'
    BY <1>9 DEF WakeUp, Await
<1>10. CASE Signal
    BY <1>10 DEF Signal, SleepersWait
<1>11. CASE BeginClose \/ Exit \/ Kill \/ UNCHANGED vars
    BY <1>11 DEF BeginClose, Exit, Kill, vars
<1>12. CASE Tick
    <2> SUFFICES ASSUME NEW f \in Feeds PROVE Paced(f)'
        OBVIOUS
    <2>1. /\ pc' = pc /\ pause' = pause /\ stopping' = stopping
          /\ sinceStart'[f] = IF sinceStart[f] < Interval[f]
                             THEN sinceStart[f] + 1 ELSE sinceStart[f]
          /\ timer'[f] \in {timer[f], timer[f] - 1}
          /\ timer'[f] = timer[f] - 1 => timer[f] > 0
        BY <1>12 DEF Tick
    <2>2. /\ sinceStart[f] \in Nat /\ timer[f] \in Nat /\ pause[f] \in Nat
          /\ Interval[f] \in Nat /\ sinceStart[f] <= Interval[f]
        OBVIOUS
    <2>3. QED
        BY <2>1, <2>2
<1>13. QED
    BY <1>1, <1>2, <1>3, <1>4, <1>5, <1>6, <1>7, <1>8, <1>9, <1>10, <1>11, <1>12
    DEF Next, LoopStep

(* No loop starts two polls within its interval, whatever the fetch, the   *)
(* retries, the database and recordRun took (runLoop, worker.ts).          *)
THEOREM NoPollComesEarly == Spec => PollsPaced
<1>1. Init => AllPaced
    BY TimingAssumption DEF Init, AllPaced, Paced
<1>2. LoopInvariant /\ AllPaced /\ [Next]_vars => AllPaced'
    BY PacedStep DEF LoopInvariant
<1> DEFINE Pace == \A f \in Feeds :
        pc[f] = "check" /\ pc'[f] = "attempt" => sinceStart[f] = Interval[f]
<1>3. LoopInvariant /\ AllPaced /\ [Next]_vars => [Pace]_vars
    <2> SUFFICES ASSUME LoopInvariant, AllPaced, Next, NEW f \in Feeds,
                        pc[f] = "check", pc'[f] = "attempt"
                 PROVE  ~stopping
        BY DEF AllPaced, Paced
    <2> USE DEF LoopInvariant, TypeOK, loopVars
    <2>1. ASSUME NEW g \in Feeds, StartPoll(g) PROVE ~stopping
        BY <2>1 DEF StartPoll, Await
    <2>2. ASSUME NEW g \in Feeds, EndLoop(g) PROVE ~stopping
        BY <2>2 DEF EndLoop, Await
    <2>3. ASSUME NEW g \in Feeds, Fetched(g) PROVE ~stopping
        BY <2>3 DEF Fetched, Await
    <2>4. ASSUME NEW g \in Feeds, AttemptFails(g) PROVE ~stopping
        BY <2>4 DEF AttemptFails, FinishPoll, Await
    <2>5. ASSUME NEW g \in Feeds, FetchRefused(g) PROVE ~stopping
        BY <2>5 DEF FetchRefused, FinishPoll, Await
    <2>6. ASSUME NEW g \in Feeds, Retry(g) PROVE ~stopping
        BY <2>6 DEF Retry, Await
    <2>7. ASSUME NEW g \in Feeds, Stored(g) PROVE ~stopping
        BY <2>7 DEF Stored, FinishPoll, Await
    <2>8. ASSUME NEW g \in Feeds, Recorded(g) PROVE ~stopping
        BY <2>8 DEF Recorded, Await
    <2>9. ASSUME NEW g \in Feeds, WakeUp(g) PROVE ~stopping
        BY <2>9 DEF WakeUp, Await
    <2>10. ~(Signal \/ BeginClose \/ Exit \/ Kill \/ Tick)
        BY DEF Signal, BeginClose, Exit, Kill, Tick
    <2>11. QED
        BY <2>1, <2>2, <2>3, <2>4, <2>5, <2>6, <2>7, <2>8, <2>9, <2>10
        DEF Next, LoopStep
<1>4. QED
    BY <1>1, <1>2, <1>3, LoopsInvariant, PTL DEF Spec, PollsPaced

-----------------------------------------------------------------------------
(* ScheduleCache.                                                          *)
(* The ids of the versions are unique, and a version that is complete has  *)
(* all its tables and is not the one being loaded.                         *)
VersionsAreSound ==
    /\ \A v, w \in versions : v.id = w.id => v = w
    /\ \A v \in versions : v.id <= lastId
    /\ \A v \in Complete : v.tables = Tables /\ v.id # loading

(* The worker asks about a version only when it is bound to one.           *)
Asking == awaited \in {"calendar", "exceptions", "services", "stop_times"}
BoundWhenAsking == Asking => feedVersion # NULL

(* What the first query of #loadTrips has found is still what there is.    *)
ServicesAreFresh ==
    awaited = "stop_times" =>
        services = {t \in Wanted : \E v \in Bound : t \in Knows[v.pub]}

(* The choice an initialise has made so far.                               *)
DayIsServed ==
    \/ \E v \in Bound : currentDay \in Covers[v.pub]
    \/ \A v \in known : currentDay \notin Covers[v.pub]

Choosing ==
    /\ known \subseteq Complete
    /\ awaited = "latest" => \A v \in known : currentDay \notin Covers[v.pub]
    /\ awaited \in {"calendar", "exceptions"} => trips = Nothing /\ DayIsServed
    /\ awaited = "exceptions" => found = feedVersion

(* ScheduleIsRight, between the polls too.                                 *)
SettledIsRight ==
    (awaited = "idle" \/ AfterInitialise) /\ ~broken =>
        /\ calendar = feedVersion \/ feedVersion = NULL
        /\ feedVersion = NULL => known = {}
        /\ DayIsServed
        /\ \A t \in Trips : \A e \in trips[t] :
               feedVersion # NULL => e.calendar \in {NULL, calendar}

CacheInv ==
    /\ VersionsAreSound
    /\ BoundToComplete
    /\ CacheMatchesVersion
    /\ ServicesAreFresh
    /\ Choosing
    /\ SettledIsRight

-----------------------------------------------------------------------------
(* Of some versions one is the newest.                                     *)
LEMMA NewestOfVersions ==
    ASSUME NEW S, S # {}, \A v \in S : v.id \in Ids
    PROVE  Newest(S) \in S
<1> DEFINE D == {MaxId - v.id : v \in S}
<1>1. MaxId \in Int /\ \A v \in S : v.id \in Int /\ v.id <= MaxId
    BY DataAssumption DEF Ids
<1>2. \A d \in D : d \in Nat
    BY <1>1
<1>3. PICK v0 \in S : TRUE
    OBVIOUS
<1>4. MaxId - v0.id \in D
    BY <1>3
<1>5. D \subseteq Nat /\ D # {}
    <2> HIDE DEF D
    <2> QED BY <1>2, <1>4
<1>6. PICK d \in D : \A e \in D : ~(<<e, d>> \in OpToRel(<, Nat))
    <2> HIDE DEF D
    <2> QED BY ONLY <1>5, NatLessThanWellFounded, WFMin
<1>7. \A e \in D : ~(e < d)
    <2> HIDE DEF D
    <2> QED BY <1>2, <1>6 DEF OpToRel
<1>8. PICK m \in S : d = MaxId - m.id
    OBVIOUS
<1>9. ASSUME NEW w \in S PROVE w.id <= m.id
    <2>1. MaxId - w.id \in D
        OBVIOUS
    <2> HIDE DEF D
    <2>2. ~(MaxId - w.id < MaxId - m.id)
        BY <1>7, <1>8, <2>1
    <2> QED BY ONLY <1>1, <2>2
<1> HIDE DEF D
<1>10. \E v \in S : \A w \in S : w.id <= v.id
    BY <1>9
<1> QED BY <1>10 DEF Newest

-----------------------------------------------------------------------------
(* Types.                                                                  *)
LEMMA CacheTypeStep ==
    ASSUME CacheTypeOK, BoundWhenAsking, [CacheNext]_scheduleVars
    PROVE  CacheTypeOK' /\ BoundWhenAsking'
<1> USE DataAssumption
<1> USE DEF CacheTypeOK, BoundWhenAsking, Asking, cacheVars, pollVars, ghostVars,
            loaderVars, workerVars
<1>0. Nothing \in [Trips -> SUBSET (Entry \cup {NotInStatic})]
    BY DEF Nothing
<1>1. ASSUME NEW p \in Publications, BeginLoad(p) PROVE CacheTypeOK' /\ BoundWhenAsking'
    <2>1. lastId + 1 \in Ids
        BY <1>1 DEF BeginLoad, Ids
    <2>2. [pub |-> p, id |-> lastId + 1, complete |-> FALSE, tables |-> {}] \in Version
        BY <2>1 DEF Version
    <2>3. versions' \subseteq Version
        BY <1>1, <2>2 DEF BeginLoad
    <2>4. lastId' \in 0..MaxId /\ loading' \in Ids
        BY <1>1, <2>1 DEF BeginLoad, Ids
    <2> QED BY <1>1, <2>3, <2>4 DEF BeginLoad
<1>2. ASSUME LoadTable PROVE CacheTypeOK' /\ BoundWhenAsking'
    <2>1. PICK v \in versions, table \in Tables :
              versions' = (versions \ {v}) \cup {[v EXCEPT !.tables = @ \cup {table}]}
        BY <1>2 DEF LoadTable, Tables
    <2>2. [v EXCEPT !.tables = @ \cup {table}] \in Version
        BY <2>1 DEF Version
    <2>3. versions' \subseteq Version
        BY <2>1, <2>2
    <2> QED BY <1>2, <2>3 DEF LoadTable
<1>3. ASSUME CompleteLoad PROVE CacheTypeOK' /\ BoundWhenAsking'
    <2>1. PICK v \in versions : versions' = (versions \ {v}) \cup {[v EXCEPT !.complete = TRUE]}
        BY <1>3 DEF CompleteLoad
    <2>2. [v EXCEPT !.complete = TRUE] \in Version
        <3>1. v \in Version
            BY <2>1
        <3> QED BY ONLY <3>1 DEF Version
    <2>3. versions' \subseteq Version
        BY <2>1, <2>2
    <2> QED BY <1>3, <2>3 DEF CompleteLoad
<1>4. ASSUME AbortLoad PROVE CacheTypeOK' /\ BoundWhenAsking'
    BY <1>4 DEF AbortLoad
<1>5. ASSUME Start PROVE CacheTypeOK' /\ BoundWhenAsking'
    BY <1>5 DEF Start
<1>6. NULL \notin Ids
    BY DEF Ids
<1>7. ASSUME NEW S \in SUBSET Complete, S # {} PROVE Newest(S).id \in Ids
    <2>1. S \subseteq versions /\ \A v \in S : v.id \in Ids
        BY <1>7 DEF Complete, Version
    <2> QED BY <1>7, <2>1, NewestOfVersions
<1>8. ASSUME Covering PROVE CacheTypeOK' /\ BoundWhenAsking'
    <2> DEFINE covering == {v \in Complete : currentDay \in Covers[v.pub]}
    <2>1. covering \in SUBSET Complete /\ Complete \subseteq Version
        BY DEF Complete
    <2>2. covering # {} => Newest(covering).id \in Ids
        BY <1>7, <2>1
    <2> QED BY <1>0, <1>6, <1>8, <2>1, <2>2 DEF Covering
<1>9. ASSUME Latest PROVE CacheTypeOK' /\ BoundWhenAsking'
    <2>1. Complete # {} => Newest(Complete).id \in Ids
        BY <1>7
    <2> QED BY <1>0, <1>6, <1>9, <2>1 DEF Latest, InitialiseDone
<1>10. ASSUME LoadCalendar PROVE CacheTypeOK' /\ BoundWhenAsking'
    BY <1>10 DEF LoadCalendar
<1>11. ASSUME LoadExceptions PROVE CacheTypeOK' /\ BoundWhenAsking'
    BY <1>11 DEF LoadExceptions, InitialiseDone
<1>12. ASSUME NEW ts \in SUBSET Trips, BeginPoll(ts) PROVE CacheTypeOK' /\ BoundWhenAsking'
    BY <1>12 DEF BeginPoll
<1>13. ASSUME Ensure PROVE CacheTypeOK' /\ BoundWhenAsking'
    BY <1>0, <1>13 DEF Ensure
<1>14. ASSUME Index PROVE CacheTypeOK' /\ BoundWhenAsking'
    BY <1>14 DEF Index
<1>15. ASSUME LoadServices PROVE CacheTypeOK' /\ BoundWhenAsking'
    BY <1>15 DEF LoadServices, Found, Wanted
<1>16. ASSUME LoadStopTimes PROVE CacheTypeOK' /\ BoundWhenAsking'
    <2>1. [version |-> feedVersion, calendar |-> calendar] \in Entry
        BY <1>16 DEF LoadStopTimes, Entry
    <2>2. trips' \in [Trips -> SUBSET (Entry \cup {NotInStatic})]
        BY <1>16, <2>1 DEF LoadStopTimes
    <2> QED BY <1>16, <2>2 DEF LoadStopTimes
<1>17. ASSUME Upsert PROVE CacheTypeOK' /\ BoundWhenAsking'
    BY <1>17 DEF Upsert, Matched
<1>18. ASSUME QueryFails PROVE CacheTypeOK' /\ BoundWhenAsking'
    BY <1>0, <1>18 DEF QueryFails, Down
<1>19. ASSUME Crash PROVE CacheTypeOK' /\ BoundWhenAsking'
    BY <1>0, <1>19 DEF Crash, Down
<1>20. ASSUME Midnight PROVE CacheTypeOK' /\ BoundWhenAsking'
    BY <1>20 DEF Midnight, Days
<1>21. CASE UNCHANGED scheduleVars
    BY <1>21 DEF scheduleVars
<1> QED
    BY <1>1, <1>2, <1>3, <1>4, <1>5, <1>8, <1>9, <1>10, <1>11, <1>12, <1>13, <1>14,
       <1>15, <1>16, <1>17, <1>18, <1>19, <1>20, <1>21
    DEF CacheNext, Loader, Initialise, PollStep

(* The cache is empty before the worker starts.                            *)
LEMMA CacheInitTypes == CacheInit => CacheTypeOK /\ BoundWhenAsking
<1>1. Nothing \in [Trips -> SUBSET (Entry \cup {NotInStatic})]
    BY DEF Nothing
<1>2. 0 \in 0..MaxId /\ 0 \in Days
    BY DataAssumption DEF Days
<1> QED BY <1>1, <1>2 DEF CacheInit, CacheTypeOK, BoundWhenAsking, Asking

(* The cache's fields have their types, with --force too: whenever rows    *)
(* are asked for, a version is bound.                                      *)
THEOREM CacheTypes == CacheSpec => []CacheTypeOK
<1>1. CacheTypeOK /\ BoundWhenAsking /\ [CacheNext]_scheduleVars
          => CacheTypeOK' /\ BoundWhenAsking'
    BY CacheTypeStep
<1> QED BY <1>1, CacheInitTypes, PTL DEF CacheSpec

-----------------------------------------------------------------------------
(* Without --force a complete version stays what it is.                    *)
LEMMA LoaderKeepsVersions ==
    ASSUME ~Forced, CacheTypeOK, VersionsAreSound, Loader
    PROVE  VersionsAreSound' /\ Complete \subseteq Complete'
<1> USE DEF VersionsAreSound
<1>0. /\ lastId \in Int /\ loading \in Ids \cup {NULL}
      /\ \A v \in versions : v.id \in Int /\ v.id # NULL /\ v.id \in Ids
      /\ versions \subseteq Version
    BY DataAssumption DEF CacheTypeOK, Version, Ids
<1>1. ASSUME NEW p \in Publications, BeginLoad(p)
      PROVE  VersionsAreSound' /\ Complete \subseteq Complete'
    <2> DEFINE fresh == [pub |-> p, id |-> lastId + 1, complete |-> FALSE, tables |-> {}]
               already == {v \in versions : v.pub = p}
    <2>1. /\ versions' = (versions \ already) \cup {fresh}
          /\ lastId' = lastId + 1 /\ loading' = lastId + 1
          /\ \A v \in already : ~v.complete
        BY <1>1 DEF BeginLoad
    <2>2. fresh.id = lastId + 1 /\ ~fresh.complete
        OBVIOUS
    <2>3. \A v \in versions' : v = fresh \/ (v \in versions /\ v.id < fresh.id)
        <3>1. \A v \in versions : v.id < lastId + 1
            BY <1>0
        <3> QED BY <2>1, <2>2, <3>1
    <2> HIDE DEF fresh
    <2>4. \A v, w \in versions' : v.id = w.id => v = w
        BY <1>0, <2>2, <2>3
    <2>5. \A v \in versions' : v.id <= lastId'
        BY <1>0, <2>1, <2>2, <2>3
    <2>6. \A v \in versions' : v.complete => v \in Complete /\ v.id < fresh.id
        BY <2>2, <2>3 DEF Complete
    <2>7. \A v \in Complete' : v.tables = Tables /\ v.id # loading'
        BY <1>0, <2>1, <2>2, <2>6 DEF Complete
    <2>8. Complete \subseteq Complete'
        BY <2>1 DEF Complete
    <2> QED BY <2>4, <2>5, <2>7, <2>8
<1>2. ASSUME NEW v \in versions, NEW u \in Version,
             v.id = loading, u.id = v.id, loading' \in {loading, NULL}, lastId' = lastId,
             versions' = (versions \ {v}) \cup {u},
             u.complete => u.tables = Tables /\ loading' = NULL
      PROVE  VersionsAreSound' /\ Complete \subseteq Complete'
    <2>1. v \notin Complete
        BY <1>2
    <2>2. \A w \in versions' : w.id = u.id => w = u
        BY <1>2
    <2>3. \A w, x \in versions' : w.id = x.id => w = x
        BY <1>2, <2>2
    <2>4. \A w \in versions' : w.id <= lastId'
        BY <1>2
    <2>5. \A w \in Complete' : w \in Complete \/ w = u
        BY <1>2 DEF Complete
    <2>6. u.id # NULL /\ \A w \in Complete : w.id # NULL
        BY <1>0, <1>2 DEF Complete
    <2>7. \A w \in Complete' : w.tables = Tables /\ w.id # loading'
        <3>1. ASSUME NEW w \in Complete', w \in Complete
              PROVE  w.tables = Tables /\ w.id # loading'
            BY <1>2, <2>6, <3>1
        <3>2. ASSUME NEW w \in Complete', w = u
              PROVE  w.tables = Tables /\ w.id # loading'
            BY <1>2, <2>6, <3>2 DEF Complete
        <3> QED BY <2>5, <3>1, <3>2
    <2>8. Complete \subseteq Complete'
        BY <1>2, <2>1 DEF Complete
    <2> QED BY <2>3, <2>4, <2>7, <2>8
<1>3. ASSUME LoadTable PROVE VersionsAreSound' /\ Complete \subseteq Complete'
    <2>1. PICK v \in versions, table \in Tables :
              /\ v.id = loading /\ v.tables # Tables
              /\ versions' = (versions \ {v}) \cup {[v EXCEPT !.tables = @ \cup {table}]}
        BY <1>3 DEF LoadTable, Tables
    <2> DEFINE u == [v EXCEPT !.tables = @ \cup {table}]
    <2>2. v \in Version /\ ~v.complete
        BY <1>0, <2>1 DEF Complete
    <2>3. u \in Version /\ u.id = v.id /\ ~u.complete
        BY ONLY <2>1, <2>2 DEF Version
    <2>4. lastId' = lastId /\ loading' = loading
        BY <1>3 DEF LoadTable
    <2> HIDE DEF u
    <2>5. versions' = (versions \ {v}) \cup {u}
        BY <2>1 DEF u
    <2> QED BY <1>2, <2>1, <2>3, <2>4, <2>5
<1>4. ASSUME CompleteLoad PROVE VersionsAreSound' /\ Complete \subseteq Complete'
    <2>1. PICK v \in versions :
              /\ v.id = loading /\ v.tables = Tables
              /\ versions' = (versions \ {v}) \cup {[v EXCEPT !.complete = TRUE]}
        BY <1>4 DEF CompleteLoad
    <2> DEFINE u == [v EXCEPT !.complete = TRUE]
    <2>2. v \in Version
        BY <1>0
    <2>3. u \in Version /\ u.id = v.id /\ u.tables = v.tables
        BY ONLY <2>2 DEF Version
    <2>4. lastId' = lastId /\ loading' = NULL
        BY <1>4 DEF CompleteLoad
    <2> HIDE DEF u
    <2>5. versions' = (versions \ {v}) \cup {u}
        BY <2>1 DEF u
    <2> QED BY <1>2, <2>1, <2>3, <2>4, <2>5
<1>5. ASSUME AbortLoad PROVE VersionsAreSound' /\ Complete \subseteq Complete'
    BY <1>0, <1>5 DEF AbortLoad, Complete
<1> QED BY <1>1, <1>3, <1>4, <1>5 DEF Loader, LoadTable, CompleteLoad

(* The version the worker is bound to is one, and has all its tables.      *)
LEMMA BoundIsOne ==
    ASSUME VersionsAreSound, BoundToComplete, feedVersion # NULL
    PROVE  \E b \in Complete : b.id = feedVersion /\ b.tables = Tables /\ Bound = {b}
BY DEF VersionsAreSound, BoundToComplete, Bound, Complete

(* While the loader works, the worker is bound to what it was.             *)
LEMMA LoaderStep ==
    ASSUME ~Forced, CacheTypeOK, CacheTypeOK', CacheInv, Loader
    PROVE  CacheInv'
<1>1. VersionsAreSound' /\ Complete \subseteq Complete'
    BY LoaderKeepsVersions DEF CacheInv
<1>2. UNCHANGED workerVars
    BY DEF Loader, BeginLoad, LoadTable, CompleteLoad, AbortLoad
<1>3. feedVersion # NULL => Bound' = Bound /\ BoundToComplete'
    <2> SUFFICES ASSUME feedVersion # NULL PROVE Bound' = Bound /\ BoundToComplete'
        OBVIOUS
    <2>1. PICK b \in Complete : b.id = feedVersion /\ b.tables = Tables /\ Bound = {b}
        BY BoundIsOne DEF CacheInv
    <2>2. b \in versions' /\ b.complete
        BY <1>1, <2>1 DEF Complete
    <2>3. feedVersion' = feedVersion
        BY <1>2 DEF workerVars, cacheVars
    <2>4. \A v \in versions' : v.id = feedVersion => v = b
        BY <1>1, <2>1, <2>2 DEF VersionsAreSound
    <2> QED BY <2>1, <2>2, <2>3, <2>4 DEF Bound, BoundToComplete
<1>4. feedVersion = NULL => Bound' = Bound /\ BoundToComplete'
    <2>1. \A v \in versions' \cup versions : v.id # NULL
        BY DataAssumption DEF CacheTypeOK, Version, Ids
    <2>2. feedVersion' = feedVersion
        BY <1>2 DEF workerVars, cacheVars
    <2> QED BY <2>1, <2>2 DEF Bound, BoundToComplete
<1>5. Bound' = Bound /\ BoundToComplete'
    BY <1>3, <1>4
<1>6. CacheMatchesVersion' /\ ServicesAreFresh'
    BY <1>2, <1>5 DEF CacheInv, CacheMatchesVersion, ServicesAreFresh, Wanted,
                      workerVars, cacheVars, pollVars, ghostVars
<1>7. Choosing' /\ SettledIsRight'
    BY <1>1, <1>2, <1>5 DEF CacheInv, Choosing, SettledIsRight, DayIsServed,
                            AfterInitialise, workerVars, cacheVars, pollVars, ghostVars
<1> QED BY <1>1, <1>5, <1>6, <1>7 DEF CacheInv

-----------------------------------------------------------------------------
(* Steps of initialise.                                                    *)
LEMMA CoveringStep ==
    ASSUME CacheTypeOK, CacheInv, Covering
    PROVE  CacheInv'
<1> DEFINE covering == {v \in Complete : currentDay \in Covers[v.pub]}
<1> USE DEF Covering, loaderVars, cacheVars, pollVars, ghostVars
<1>1. VersionsAreSound' /\ Complete' = Complete /\ known' = Complete
    BY DEF CacheInv, VersionsAreSound, Complete
<1>2. ServicesAreFresh' /\ SettledIsRight'
    BY DEF ServicesAreFresh, SettledIsRight, AfterInitialise
<1>3. CASE covering = {}
    <2>1. awaited' = "latest" /\ UNCHANGED <<feedVersion, trips, versions, currentDay>>
        BY <1>3
    <2>2. Choosing'
        BY <1>1, <1>3, <2>1 DEF Choosing
    <2>3. BoundToComplete' /\ CacheMatchesVersion'
        BY <2>1 DEF CacheInv, BoundToComplete, CacheMatchesVersion, Bound
    <2> QED BY <1>1, <1>2, <2>2, <2>3 DEF CacheInv
<1>4. CASE covering # {}
    <2>1. /\ awaited' = "calendar" /\ trips' = Nothing
          /\ feedVersion' = Newest(covering).id
          /\ UNCHANGED <<versions, currentDay>>
        BY <1>4
    <2>2. Newest(covering) \in covering
        <3>1. \A v \in covering : v.id \in Ids
            BY DEF CacheTypeOK, Complete, Version
        <3> QED BY <1>4, <3>1, NewestOfVersions
    <2> HIDE DEF Covering
    <2>3. Newest(covering) \in Bound' /\ Newest(covering).tables = Tables
        BY <2>1, <2>2 DEF Bound, Complete, CacheInv, VersionsAreSound
    <2>4. BoundToComplete'
        BY <2>2, <2>3 DEF BoundToComplete, Complete
    <2>5. CacheMatchesVersion'
        BY <2>1 DEF CacheMatchesVersion, Nothing
    <2>6. DayIsServed'
        BY <2>1, <2>2, <2>3 DEF DayIsServed
    <2>7. Choosing'
        BY <1>1, <2>1, <2>6 DEF Choosing
    <2> QED BY <1>1, <1>2, <2>4, <2>5, <2>7 DEF CacheInv
<1> QED BY <1>3, <1>4

LEMMA LatestStep ==
    ASSUME CacheTypeOK, CacheInv, Latest
    PROVE  CacheInv'
<1> USE DEF loaderVars, cacheVars, pollVars, ghostVars
<1>1. VersionsAreSound' /\ Complete' = Complete /\ UNCHANGED <<versions, known, currentDay>>
    BY DEF CacheInv, VersionsAreSound, Complete, Latest
<1>2. known \subseteq Complete /\ \A v \in known : currentDay \notin Covers[v.pub]
    BY DEF Latest, CacheInv, Choosing
<1>3. CASE Complete = {}
    <2>1. feedVersion' = NULL /\ awaited' \in {"idle", "index"}
        BY <1>3 DEF Latest, InitialiseDone
    <2>2. known' = {}
        BY <1>1, <1>2, <1>3
    <2> QED BY <1>1, <2>1, <2>2
            DEF CacheInv, BoundToComplete, CacheMatchesVersion, ServicesAreFresh,
                Choosing, SettledIsRight, DayIsServed
<1>4. CASE Complete # {}
    <2>1. /\ awaited' = "calendar" /\ trips' = Nothing
          /\ feedVersion' = Newest(Complete).id
        BY <1>4 DEF Latest
    <2>2. Newest(Complete) \in Complete
        <3>1. \A v \in Complete : v.id \in Ids
            BY DEF CacheTypeOK, Complete, Version
        <3> QED BY <1>4, <3>1, NewestOfVersions
    <2>3. Newest(Complete) \in Bound' /\ Newest(Complete).tables = Tables
        BY <1>1, <2>1, <2>2 DEF Bound, Complete, CacheInv, VersionsAreSound
    <2>4. BoundToComplete'
        BY <2>2, <2>3 DEF BoundToComplete, Complete
    <2>5. CacheMatchesVersion'
        BY <2>1 DEF CacheMatchesVersion, Nothing
    <2>6. Choosing'
        BY <1>1, <1>2, <2>1 DEF Choosing, DayIsServed
    <2>7. ServicesAreFresh' /\ SettledIsRight'
        BY <2>1 DEF ServicesAreFresh, SettledIsRight, AfterInitialise
    <2> QED BY <1>1, <2>4, <2>5, <2>6, <2>7 DEF CacheInv
<1> QED BY <1>3, <1>4

(* The version that is bound has its calendar.                             *)
LEMMA CalendarIsThere ==
    ASSUME CacheInv, feedVersion # NULL
    PROVE  Filled(feedVersion, "calendar")
BY BoundIsOne DEF CacheInv, Filled, Bound, Complete, Tables

LEMMA LoadCalendarStep ==
    ASSUME CacheInv, BoundWhenAsking, LoadCalendar
    PROVE  CacheInv'
<1>1. found' = feedVersion /\ awaited' = "exceptions" /\ awaited = "calendar"
    BY CalendarIsThere DEF LoadCalendar, BoundWhenAsking, Asking
<1>2. UNCHANGED <<loaderVars, cacheVars, currentDay, known>>
    BY DEF LoadCalendar, ghostVars
<1>3. VersionsAreSound' /\ BoundToComplete' /\ CacheMatchesVersion'
    BY <1>2 DEF CacheInv, VersionsAreSound, BoundToComplete, CacheMatchesVersion, Bound,
                Complete, loaderVars, cacheVars
<1>4. Choosing'
    BY <1>1, <1>2 DEF CacheInv, Choosing, DayIsServed, Complete, Bound, loaderVars, cacheVars
<1>5. ServicesAreFresh' /\ SettledIsRight'
    BY <1>1 DEF ServicesAreFresh, SettledIsRight, AfterInitialise
<1> QED BY <1>3, <1>4, <1>5 DEF CacheInv

LEMMA LoadExceptionsStep ==
    ASSUME CacheInv, BoundWhenAsking, LoadExceptions
    PROVE  CacheInv'
<1>1. calendar' = feedVersion /\ feedVersion # NULL
    BY CalendarIsThere DEF LoadExceptions, BoundWhenAsking, Asking, CacheInv, Choosing
<1>2. awaited' \in {"idle", "index"} /\ trips = Nothing /\ DayIsServed
    BY DEF LoadExceptions, InitialiseDone, CacheInv, Choosing
<1>3. UNCHANGED <<loaderVars, feedVersion, trips, currentDay, known>>
    BY DEF LoadExceptions
<1>4. VersionsAreSound' /\ BoundToComplete' /\ CacheMatchesVersion'
    BY <1>3 DEF CacheInv, VersionsAreSound, BoundToComplete, CacheMatchesVersion, Bound,
                Complete, loaderVars
<1>5. Choosing' /\ ServicesAreFresh'
    BY <1>2, <1>3 DEF CacheInv, Choosing, ServicesAreFresh, Complete, loaderVars
<1>6. DayIsServed'
    BY <1>2, <1>3 DEF DayIsServed, Bound, loaderVars
<1>7. SettledIsRight'
    BY <1>1, <1>2, <1>3, <1>6 DEF SettledIsRight, Nothing
<1> QED BY <1>4, <1>5, <1>7 DEF CacheInv

-----------------------------------------------------------------------------
(* Steps of the worker.                                                    *)
(* What is bound and cached stands when neither it nor the versions move.  *)
LEMMA CacheStands ==
    ASSUME CacheInv, UNCHANGED <<loaderVars, feedVersion, trips>>
    PROVE  /\ VersionsAreSound' /\ BoundToComplete' /\ CacheMatchesVersion'
           /\ Bound' = Bound /\ Complete' = Complete
BY DEF CacheInv, VersionsAreSound, BoundToComplete, CacheMatchesVersion, Bound, Complete,
       loaderVars

LEMMA StartStep ==
    ASSUME CacheInv, Start
    PROVE  CacheInv'
<1>1. awaited' = "ensure" /\ UNCHANGED <<loaderVars, feedVersion, trips, known>>
    BY DEF Start, cacheVars, ghostVars
<1> QED BY <1>1, CacheStands
        DEF CacheInv, ServicesAreFresh, Choosing, SettledIsRight, AfterInitialise

LEMMA BeginPollStep ==
    ASSUME CacheInv, NEW ts \in SUBSET Trips, BeginPoll(ts)
    PROVE  CacheInv'
<1>1. UNCHANGED <<loaderVars, feedVersion, trips, calendar, known, broken>>
    BY DEF BeginPoll, cacheVars, ghostVars
<1>2. awaited = "idle" /\ awaited' \in {"index", "ensure"}
    BY DEF BeginPoll
<1>3. ServicesAreFresh' /\ Choosing'
    BY <1>1, <1>2, CacheStands DEF CacheInv, ServicesAreFresh, Choosing
<1>4. CASE today = currentDay
    <2>1. currentDay' = currentDay
        BY <1>4 DEF BeginPoll
    <2>2. SettledIsRight'
        BY <1>1, <1>2, <2>1, CacheStands
        DEF CacheInv, SettledIsRight, DayIsServed, AfterInitialise
    <2> QED BY <1>1, <1>3, <2>2, CacheStands DEF CacheInv
<1>5. CASE today # currentDay
    <2>1. SettledIsRight'
        BY <1>5 DEF BeginPoll, SettledIsRight, AfterInitialise
    <2> QED BY <1>1, <1>3, <2>1, CacheStands DEF CacheInv
<1> QED BY <1>4, <1>5

LEMMA EnsureStep ==
    ASSUME CacheInv, Ensure
    PROVE  CacheInv'
<1>1. UNCHANGED <<loaderVars, feedVersion, known>> /\ awaited' = "covering" /\ trips' = Nothing
    BY DEF Ensure, ghostVars
<1>2. VersionsAreSound' /\ BoundToComplete' /\ CacheMatchesVersion'
    BY <1>1 DEF CacheInv, VersionsAreSound, BoundToComplete, CacheMatchesVersion, Bound,
                Complete, loaderVars, Nothing
<1>3. ServicesAreFresh' /\ Choosing' /\ SettledIsRight'
    BY <1>1 DEF CacheInv, ServicesAreFresh, Choosing, SettledIsRight, AfterInitialise,
                Complete, loaderVars
<1> QED BY <1>2, <1>3 DEF CacheInv

(* A poll goes on: nothing the choice depends on moves.                    *)
LEMMA PollGoesOn ==
    ASSUME CacheInv, AfterInitialise,
           awaited' \in {"idle", "services", "stop_times", "upsert"},
           UNCHANGED <<loaderVars, feedVersion, trips, calendar, currentDay, known, broken>>
    PROVE  Choosing' /\ SettledIsRight'
<1>1. Choosing'
    BY CacheStands DEF CacheInv, Choosing
<1>2. SettledIsRight'
    BY CacheStands DEF CacheInv, SettledIsRight, DayIsServed, AfterInitialise
<1> QED BY <1>1, <1>2

LEMMA IndexStep ==
    ASSUME CacheInv, Index
    PROVE  CacheInv'
<1>1. UNCHANGED <<loaderVars, feedVersion, trips, calendar, currentDay, known, broken>>
    BY DEF Index, cacheVars, ghostVars
<1>2. AfterInitialise /\ awaited' \in {"services", "upsert"}
    BY DEF Index, AfterInitialise
<1> QED BY <1>1, <1>2, CacheStands, PollGoesOn DEF CacheInv, ServicesAreFresh

LEMMA LoadServicesStep ==
    ASSUME CacheInv, BoundWhenAsking, LoadServices
    PROVE  CacheInv'
<1>1. UNCHANGED <<loaderVars, feedVersion, trips, calendar, currentDay, known, broken, polled>>
    BY DEF LoadServices, cacheVars, ghostVars
<1>2. AfterInitialise /\ awaited' = "stop_times" /\ services' = Found("trips")
    BY DEF LoadServices, AfterInitialise
<1>3. PICK b \in Complete : b.id = feedVersion /\ b.tables = Tables /\ Bound = {b}
    BY BoundIsOne DEF CacheInv, LoadServices, BoundWhenAsking, Asking
<1>4. Found("trips") = {t \in Wanted : \E v \in Bound : t \in Knows[v.pub]}
    BY <1>3 DEF Found, Bound, Tables
<1>5. Wanted' = Wanted /\ Bound' = Bound
    BY <1>1, CacheStands DEF Wanted
<1>6. ServicesAreFresh'
    BY <1>2, <1>4, <1>5 DEF ServicesAreFresh
<1> QED BY <1>1, <1>2, <1>6, CacheStands, PollGoesOn DEF CacheInv

LEMMA LoadStopTimesStep ==
    ASSUME CacheTypeOK, CacheInv, BoundWhenAsking, LoadStopTimes
    PROVE  CacheInv'
<1> DEFINE entry == [version |-> feedVersion, calendar |-> calendar]
<1>1. UNCHANGED <<loaderVars, feedVersion, calendar, currentDay, known, broken>>
    BY DEF LoadStopTimes, ghostVars
<1>2. /\ awaited = "stop_times" /\ awaited' = "upsert" /\ feedVersion # NULL
    BY DEF LoadStopTimes, BoundWhenAsking, Asking
<1>3. PICK b \in Complete : b.id = feedVersion /\ b.tables = Tables /\ Bound = {b}
    BY <1>2, BoundIsOne DEF CacheInv
<1>4. services \cap Found("stop_times") = {t \in Wanted : t \in Knows[b.pub]}
    BY <1>2, <1>3 DEF Found, Bound, Tables, CacheInv, ServicesAreFresh
<1>5. \A t \in Trips :
          trips'[t] = IF t \notin Wanted THEN trips[t]
                      ELSE IF t \in Knows[b.pub] THEN {entry} ELSE {NotInStatic}
    BY <1>4 DEF LoadStopTimes
<1>6. Bound' = Bound /\ Complete' = Complete /\ VersionsAreSound' /\ BoundToComplete'
    BY <1>1 DEF CacheInv, VersionsAreSound, BoundToComplete, Bound, Complete, loaderVars
<1>7. entry # NotInStatic /\ entry.version = feedVersion /\ entry.calendar = calendar
    BY <1>2 DEF NotInStatic
<1>8. NotInStatic.calendar = NULL
    BY DEF NotInStatic
<1> HIDE DEF entry
<1>9. CacheMatchesVersion'
    BY <1>1, <1>3, <1>5, <1>6, <1>7 DEF CacheInv, CacheMatchesVersion
<1>10. Choosing' /\ ServicesAreFresh'
    BY <1>1, <1>2, <1>6 DEF CacheInv, Choosing, ServicesAreFresh
<1>11. DayIsServed' = DayIsServed
    BY <1>1, <1>6 DEF DayIsServed
<1>12. ASSUME ~broken, NEW t \in Trips, NEW e \in trips'[t]
       PROVE  e.calendar \in {NULL, calendar}
    <2>1. e \in trips[t] \/ e \in {entry, NotInStatic}
        BY <1>5
    <2> QED BY <1>2, <1>7, <1>8, <1>12, <2>1 DEF CacheInv, SettledIsRight, AfterInitialise
<1>13. SettledIsRight'
    BY <1>1, <1>2, <1>11, <1>12 DEF CacheInv, SettledIsRight, AfterInitialise
<1> QED BY <1>6, <1>9, <1>10, <1>13 DEF CacheInv

LEMMA UpsertStep ==
    ASSUME CacheInv, Upsert
    PROVE  CacheInv'
<1>1. UNCHANGED <<loaderVars, feedVersion, trips, calendar, currentDay, known, broken>>
    BY DEF Upsert, cacheVars, ghostVars
<1>2. AfterInitialise /\ awaited' = "idle"
    BY DEF Upsert, AfterInitialise
<1> QED BY <1>1, <1>2, CacheStands, PollGoesOn DEF CacheInv, ServicesAreFresh

(* A worker that is down is bound to nothing.                              *)
LEMMA DownStep ==
    ASSUME CacheInv, Down, UNCHANGED <<loaderVars, known>>
    PROVE  CacheInv'
<1>1. feedVersion' = NULL /\ awaited' = "down"
    BY DEF Down
<1>2. VersionsAreSound' /\ Complete' = Complete
    BY DEF CacheInv, VersionsAreSound, Complete, loaderVars
<1> QED BY <1>1, <1>2 DEF CacheInv, BoundToComplete, CacheMatchesVersion, ServicesAreFresh,
                          Choosing, SettledIsRight, AfterInitialise

LEMMA QueryFailsStep ==
    ASSUME CacheTypeOK, CacheInv, QueryFails
    PROVE  CacheInv'
<1>1. UNCHANGED <<loaderVars, known, currentDay>>
    BY DEF QueryFails
<1>2. CASE Down
    BY <1>1, <1>2, DownStep
<1>3. CASE awaited' = "idle" /\ broken' = (broken \/ Initialising) /\ UNCHANGED cacheVars
    <2>1. ServicesAreFresh' /\ Choosing'
        BY <1>1, <1>3, CacheStands DEF CacheInv, ServicesAreFresh, Choosing, cacheVars
    <2>2. CASE Initialising
        <3>1. broken'
            BY <1>3, <2>2
        <3>2. SettledIsRight'
            BY <3>1 DEF SettledIsRight
        <3> QED BY <1>1, <1>3, <2>1, <3>2, CacheStands DEF CacheInv, cacheVars
    <2>3. CASE ~Initialising
        <3>1. AfterInitialise
            BY <2>3 DEF QueryFails, AfterInitialise
        <3>2. broken' = broken
            BY <1>3, <2>3 DEF CacheTypeOK
        <3>3. SettledIsRight'
            BY <1>1, <1>3, <3>1, <3>2, PollGoesOn DEF cacheVars
        <3> QED BY <1>1, <1>3, <2>1, <3>3, CacheStands DEF CacheInv, cacheVars
    <2> QED BY <2>2, <2>3
<1> QED BY <1>2, <1>3 DEF QueryFails

-----------------------------------------------------------------------------
LEMMA CacheStep ==
    ASSUME ~Forced, CacheTypeOK, CacheTypeOK', BoundWhenAsking, CacheInv,
           [CacheNext]_scheduleVars
    PROVE  CacheInv'
<1>1. CASE Loader
    BY <1>1, LoaderStep
<1>2. CASE Initialise
    BY <1>2, CoveringStep, LatestStep, LoadCalendarStep, LoadExceptionsStep DEF Initialise
<1>3. CASE PollStep
    BY <1>3, BeginPollStep, EnsureStep, IndexStep, LoadServicesStep, LoadStopTimesStep,
       UpsertStep DEF PollStep
<1>4. CASE Start
    BY <1>4, StartStep
<1>5. CASE QueryFails
    BY <1>5, QueryFailsStep
<1>6. CASE Crash
    BY <1>6, DownStep DEF Crash
<1>7. ASSUME UNCHANGED <<loaderVars, awaited, currentDay, cacheVars, pollVars, ghostVars>>
      PROVE  CacheInv'
    <2>1. ServicesAreFresh'
        BY <1>7, CacheStands DEF CacheInv, ServicesAreFresh, Wanted, cacheVars, pollVars
    <2>2. Choosing' /\ SettledIsRight'
        BY <1>7, CacheStands DEF CacheInv, Choosing, SettledIsRight, DayIsServed,
                                 AfterInitialise, cacheVars, pollVars, ghostVars
    <2> QED BY <1>7, <2>1, <2>2, CacheStands DEF CacheInv, cacheVars
<1>8. CASE Midnight
    BY <1>7, <1>8 DEF Midnight
<1>9. CASE UNCHANGED scheduleVars
    BY <1>7, <1>9 DEF scheduleVars
<1> QED BY <1>1, <1>2, <1>3, <1>4, <1>5, <1>6, <1>8, <1>9 DEF CacheNext

(* What the schedule cache holds and what it is about to do with it, when  *)
(* load-static is not run with --force.                                    *)
THEOREM CacheInvariant ==
    ASSUME ~Forced
    PROVE  CacheSpec => [](CacheTypeOK /\ BoundWhenAsking /\ CacheInv)
<1>1. CacheInit => CacheTypeOK /\ BoundWhenAsking
    BY CacheInitTypes
<1>2. CacheInit => CacheInv
    BY DEF CacheInit, CacheInv, VersionsAreSound, BoundToComplete, CacheMatchesVersion,
           ServicesAreFresh, Choosing, SettledIsRight, AfterInitialise, Complete, Nothing
<1>3. CacheTypeOK /\ BoundWhenAsking /\ CacheInv /\ [CacheNext]_scheduleVars
          => (CacheTypeOK /\ BoundWhenAsking /\ CacheInv)'
    BY CacheTypeStep, CacheStep
<1> QED BY <1>1, <1>2, <1>3, PTL DEF CacheSpec

(* The worker is bound to nothing or to a version that is there and whole, *)
(* whatever the loader does between any two of its queries.                *)
THEOREM BoundVersionIsComplete ==
    ASSUME ~Forced
    PROVE  CacheSpec => []BoundToComplete
<1>1. CacheInv => BoundToComplete
    BY DEF CacheInv
<1> QED BY <1>1, CacheInvariant, PTL

(* What is cached, and what is cached as unknown, agrees with the version  *)
(* that is bound, although two queries and a load are three steps.         *)
THEOREM CacheIsOfOneVersion ==
    ASSUME ~Forced
    PROVE  CacheSpec => []CacheMatchesVersion
<1>1. CacheInv => CacheMatchesVersion
    BY DEF CacheInv
<1> QED BY <1>1, CacheInvariant, PTL

(* Unless an initialise has failed since the last that succeeded, a poll   *)
(* runs with a version and calendar chosen for its day.                    *)
THEOREM ScheduleIsOfTheDay ==
    ASSUME ~Forced
    PROVE  CacheSpec => []ScheduleIsRight
<1>1. CacheInv => ScheduleIsRight
    BY DEF CacheInv, SettledIsRight, ScheduleIsRight, DayIsServed
<1> QED BY <1>1, CacheInvariant, PTL
=============================================================================
