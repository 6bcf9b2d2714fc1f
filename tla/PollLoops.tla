----------------------------- MODULE PollLoops -----------------------------
(***************************************************************************)
(* The three poll loops of src/worker.ts, the Shutdown object they share   *)
(* and the retry loop of src/gtfsrt/fetch.ts, in discrete time.            *)
(*                                                                         *)
(* systemd stops the worker with SIGTERM and kills it StopTimeout later.   *)
(* What happens to the archive meanwhile is module Archive; here a poll is *)
(* the time its parts take.  The database, the archive and the healthcheck *)
(* ping are external: they answer within StoreMax, RecordMax and CloseMax. *)
(***************************************************************************)
EXTENDS Integers

CONSTANTS
    Feeds,          \* one runLoop each
    Interval,       \* [Feeds -> the loop's poll interval]
    FetchTimeout,   \* abort timer of one attempt
    MaxRetries,
    BackoffBase,
    BackoffMax,
    StoreMax,       \* bound: from the answer of the feed to the end of the poll
    RecordMax,      \* bound: recordRun and ping
    CloseMax,       \* bound: archive.close and sql.end
    StopTimeouts    \* the values of TimeoutStopSec to consider

ASSUME TimingAssumption ==
    /\ Interval \in [Feeds -> Nat]
    /\ FetchTimeout \in Nat /\ MaxRetries \in Nat
    /\ BackoffBase \in Nat \ {0} /\ BackoffMax \in Nat \ {0}
    /\ StoreMax \in Nat /\ RecordMax \in Nat /\ CloseMax \in Nat
    /\ StopTimeouts \subseteq Nat

VARIABLES
    proc,           \* "up", "closing" (the loops have ended), "down", "killed"
    stopping,       \* Shutdown.stopping
    waiters,        \* Shutdown.#waiters: the loops whose sleep can be cut short
    pc,             \* [feed -> where its loop is]
    attempt,        \* [feed -> attempt number of the fetch]
    timer,          \* [feed -> time until what it awaits is over at the latest]
    sinceStart,     \* [feed -> time since startedAt, up to the interval]
    pause,          \* [feed -> what it will sleep for: interval - duration]
    closeTimer,
    sinceSignal,    \* time since SIGTERM
    stopTimeout     \* TimeoutStopSec of bus-worker.service; nothing changes it

loopVars == <<pc, attempt, timer, sinceStart, pause>>
vars == <<proc, stopping, waiters, loopVars,
          closeTimer, sinceSignal, stopTimeout>>

Places == {"check", "attempt", "backoff", "store", "record", "sleep", "ended"}
Awaiting(f) == pc[f] \notin {"check", "ended"}

Init ==
    /\ proc = "up"
    /\ stopping = FALSE
    /\ waiters = {}
    /\ pc = [f \in Feeds |-> "check"]
    /\ attempt = [f \in Feeds |-> 0]
    /\ timer = [f \in Feeds |-> 0]
    /\ sinceStart = [f \in Feeds |-> Interval[f]]
    /\ pause = [f \in Feeds |-> 0]
    /\ closeTimer = 0
    /\ sinceSignal = 0
    /\ stopTimeout \in StopTimeouts

(* Loop f goes on at place p, which takes at most t.                       *)
Await(f, p, t) ==
    /\ pc' = [pc EXCEPT ![f] = p]
    /\ timer' = [timer EXCEPT ![f] = t]

-----------------------------------------------------------------------------
(* Mutant: while (true).                                                   *)
StartPollAlways(f) ==
    /\ pc[f] = "check"
    /\ Await(f, "attempt", FetchTimeout)
    /\ attempt' = [attempt EXCEPT ![f] = 0]
    /\ sinceStart' = [sinceStart EXCEPT ![f] = 0]
    /\ UNCHANGED <<proc, stopping, waiters, pause,
                   closeTimer, sinceSignal, stopTimeout>>

(* runLoop: while (!shutdown.stopping)                                     *)
StartPoll(f) ==
    /\ pc[f] = "check"
    /\ ~stopping
    /\ Await(f, "attempt", FetchTimeout)
    /\ attempt' = [attempt EXCEPT ![f] = 0]
    /\ sinceStart' = [sinceStart EXCEPT ![f] = 0]
    /\ UNCHANGED <<proc, stopping, waiters, pause,
                   closeTimer, sinceSignal, stopTimeout>>

EndLoop(f) ==
    /\ pc[f] = "check"
    /\ stopping
    /\ Await(f, "ended", 0)
    /\ UNCHANGED <<proc, stopping, waiters, attempt, sinceStart, pause,
                   closeTimer, sinceSignal, stopTimeout>>

(* Mutant: max(0, duration - interval).                                    *)
FinishPollSwapped(f) ==
    /\ \E t \in 0..RecordMax : Await(f, "record", t)
    /\ pause' = [pause EXCEPT ![f] = 0]
    /\ UNCHANGED attempt

(* poll() has returned or thrown: the duration is taken before recordRun.  *)
FinishPoll(f) ==
    /\ \E t \in 0..RecordMax : Await(f, "record", t)
    /\ pause' = [pause EXCEPT ![f] = Interval[f] - sinceStart[f]]
    /\ UNCHANGED attempt

(* fetchFeed: the answer is complete, and the rest of the poll follows.    *)
Fetched(f) ==
    /\ pc[f] = "attempt"
    /\ \E t \in 0..StoreMax : Await(f, "store", t)
    /\ UNCHANGED <<proc, stopping, waiters, attempt, sinceStart, pause,
                   closeTimer, sinceSignal, stopTimeout>>

(* A network error, an empty body, a retryable status, or the abort timer. *)
AttemptFails(f) ==
    /\ pc[f] = "attempt"
    /\ \/ /\ attempt[f] < MaxRetries
          /\ \E delay \in {d \in 0..(BackoffMax - 1) : d < BackoffBase * 2 ^ attempt[f]} :
                 Await(f, "backoff", delay)
          /\ UNCHANGED <<attempt, pause>>
       \/ /\ attempt[f] = MaxRetries
          /\ FinishPoll(f)
    /\ UNCHANGED <<proc, stopping, waiters, sinceStart,
                   closeTimer, sinceSignal, stopTimeout>>

(* A status that a retry does not fix.                                     *)
FetchRefused(f) ==
    /\ pc[f] = "attempt"
    /\ FinishPoll(f)
    /\ UNCHANGED <<proc, stopping, waiters, sinceStart,
                   closeTimer, sinceSignal, stopTimeout>>

(* Mutant: the attempts are not counted.                                   *)
RetryUncounted(f) ==
    /\ pc[f] = "backoff"
    /\ timer[f] = 0
    /\ Await(f, "attempt", FetchTimeout)
    /\ UNCHANGED <<proc, stopping, waiters, attempt, sinceStart, pause, closeTimer,
                   sinceSignal, stopTimeout>>

(* The sleep before a retry is a plain one: a shutdown does not cut it.    *)
Retry(f) ==
    /\ pc[f] = "backoff"
    /\ timer[f] = 0
    /\ attempt' = [attempt EXCEPT ![f] = @ + 1]
    /\ Await(f, "attempt", FetchTimeout)
    /\ UNCHANGED <<proc, stopping, waiters, sinceStart, pause,
                   closeTimer, sinceSignal, stopTimeout>>

(* The archive, the decoder and the database are done, or one has thrown.  *)
Stored(f) ==
    /\ pc[f] = "store"
    /\ timer[f] = 0
    /\ FinishPoll(f)
    /\ UNCHANGED <<proc, stopping, waiters, sinceStart,
                   closeTimer, sinceSignal, stopTimeout>>

(* Mutant: sleep() does not look at stopping first.                        *)
RecordedSleeping(f) ==
    /\ pc[f] = "record"
    /\ timer[f] = 0
    /\ waiters' = waiters \cup {f}
    /\ Await(f, "sleep", pause[f])
    /\ UNCHANGED <<proc, stopping, attempt, sinceStart, pause,
                   closeTimer, sinceSignal, stopTimeout>>

(* Shutdown.sleep(max(0, interval - duration))                             *)
Recorded(f) ==
    /\ pc[f] = "record"
    /\ timer[f] = 0
    /\ \/ /\ stopping
          /\ Await(f, "check", 0)
          /\ UNCHANGED waiters
       \/ /\ ~stopping
          /\ waiters' = waiters \cup {f}
          /\ Await(f, "sleep", pause[f])
    /\ UNCHANGED <<proc, stopping, attempt, sinceStart, pause,
                   closeTimer, sinceSignal, stopTimeout>>

WakeUp(f) ==
    /\ pc[f] = "sleep"
    /\ timer[f] = 0
    /\ waiters' = waiters \ {f}
    /\ Await(f, "check", 0)
    /\ UNCHANGED <<proc, stopping, attempt, sinceStart, pause,
                   closeTimer, sinceSignal, stopTimeout>>

(* Mutant: one waiter instead of a set of them; the last one is woken.     *)
SignalOne ==
    /\ proc = "up"
    /\ ~stopping
    /\ stopping' = TRUE
    /\ \/ waiters = {} /\ UNCHANGED <<pc, timer, waiters>>
       \/ \E f \in waiters : Await(f, "check", 0) /\ waiters' = waiters \ {f}
    /\ UNCHANGED <<proc, attempt, sinceStart, pause,
                   closeTimer, sinceSignal, stopTimeout>>

(* Shutdown.signal(): every waiter wakes up.                               *)
Signal ==
    /\ proc = "up"
    /\ ~stopping
    /\ stopping' = TRUE
    /\ pc' = [f \in Feeds |-> IF f \in waiters THEN "check" ELSE pc[f]]
    /\ timer' = [f \in Feeds |-> IF f \in waiters THEN 0 ELSE timer[f]]
    /\ waiters' = {}
    /\ UNCHANGED <<proc, attempt, sinceStart, pause,
                   closeTimer, sinceSignal, stopTimeout>>

(* Promise.all(loops), archive.close(), sql.end().                         *)
BeginClose ==
    /\ proc = "up"
    /\ \A f \in Feeds : pc[f] = "ended"
    /\ proc' = "closing"
    /\ closeTimer' \in 0..CloseMax
    /\ UNCHANGED <<stopping, waiters, loopVars, sinceSignal, stopTimeout>>

Exit ==
    /\ proc = "closing"
    /\ closeTimer = 0
    /\ proc' = "down"
    /\ UNCHANGED <<stopping, waiters, loopVars,
                   closeTimer, sinceSignal, stopTimeout>>

(* systemd's SIGKILL.                                                      *)
Kill ==
    /\ proc \in {"up", "closing"}
    /\ sinceSignal = stopTimeout
    /\ stopping
    /\ proc' = "killed"
    /\ UNCHANGED <<stopping, waiters, loopVars,
                   closeTimer, sinceSignal, stopTimeout>>

(* Time passes only while everybody waits; no timer fires late.            *)
Tick ==
    /\ \/ /\ proc = "up"
          /\ \E f \in Feeds : Awaiting(f)
          /\ \A f \in Feeds : pc[f] # "check" /\ (Awaiting(f) => timer[f] > 0)
          /\ timer' = [f \in Feeds |-> IF Awaiting(f) THEN timer[f] - 1 ELSE timer[f]]
          /\ UNCHANGED closeTimer
       \/ /\ proc = "closing"
          /\ closeTimer > 0
          /\ closeTimer' = closeTimer - 1
          /\ UNCHANGED timer
    /\ IF stopping
       THEN sinceSignal < stopTimeout /\ sinceSignal' = sinceSignal + 1
       ELSE UNCHANGED sinceSignal
    /\ sinceStart' = [f \in Feeds |->
           IF sinceStart[f] < Interval[f] THEN sinceStart[f] + 1 ELSE sinceStart[f]]
    /\ UNCHANGED <<proc, stopping, waiters, pc, attempt, pause, stopTimeout>>

-----------------------------------------------------------------------------
LoopStep(f) ==
    /\ proc = "up"
    /\ \/ StartPoll(f) \/ EndLoop(f)
       \/ Fetched(f) \/ AttemptFails(f) \/ FetchRefused(f) \/ Retry(f)
       \/ Stored(f) \/ Recorded(f) \/ WakeUp(f)

Next ==
    \/ \E f \in Feeds : LoopStep(f)
    \/ Signal
    \/ BeginClose \/ Exit
    \/ Kill \/ Tick

Spec == Init /\ [][Next]_vars

(* Timers fire, the event loop runs what is runnable, time goes on, and    *)
(* systemd kills when it says it does.                                     *)
FairSpec ==
    /\ Spec
    /\ \A f \in Feeds : WF_vars(LoopStep(f))
    /\ WF_vars(BeginClose \/ Exit)
    /\ WF_vars(Tick)
    /\ WF_vars(Kill)
-----------------------------------------------------------------------------
(* Properties.                                                             *)

(* The variables have the types of the code's fields.                      *)
TypeOK ==
    /\ proc \in {"up", "closing", "down", "killed"}
    /\ stopping \in BOOLEAN
    /\ waiters \in SUBSET Feeds
    /\ pc \in [Feeds -> Places]
    /\ attempt \in [Feeds -> 0..MaxRetries]
    /\ timer \in [Feeds -> Nat]
    /\ sinceStart \in [Feeds -> Nat]
    /\ \A f \in Feeds : sinceStart[f] <= Interval[f]
    /\ pause \in [Feeds -> Nat]
    /\ closeTimer \in Nat
    /\ sinceSignal \in Nat
    /\ stopTimeout \in StopTimeouts

(* The time one poll and its recordRun can take.                           *)
AttemptBound == FetchTimeout + BackoffMax
PollBound == MaxRetries * AttemptBound + FetchTimeout + StoreMax + RecordMax

(* "A Set wakes every waiter, so the slowest loop to exit is bounded by    *)
(* how long its in-flight poll takes, not by its poll interval" (Shutdown, *)
(* worker.ts).                                                             *)
StopBoundedByPoll == stopping /\ proc = "up" => sinceSignal <= PollBound

(* A stop that has time for one poll and for closing the archive is never  *)
(* answered by SIGKILL, which would truncate shards.                       *)
EnoughTime == PollBound + CloseMax < stopTimeout
StopsBeforeKill == EnoughTime => proc # "killed"

(* A loop starts no two polls within its interval: whatever the fetch, the *)
(* retries and the database took is taken off the sleep and never more.    *)
PollsPaced ==
    [][\A f \in Feeds :
          pc[f] = "check" /\ pc'[f] = "attempt" => sinceStart[f] = Interval[f]]_vars

(* No failure ends or stalls a loop, whatever the feed answers: every poll *)
(* comes to its end and the loop to its next one.                          *)
LoopsGoOn ==
    \A f \in Feeds : pc[f] = "attempt" ~> (pc[f] = "check" \/ proc # "up")

(* A signalled worker ends by itself, if systemd lets it: each loop leaves *)
(* its sleep, its retries or its poll, and the archive is closed.          *)
SignalLeadsToEnd == stopping /\ EnoughTime ~> proc = "down"
=============================================================================
