------------------------------- MODULE Timer -------------------------------
(***************************************************************************)
(* Timer and TimerEvent (timer.cpp): timers on the event base of the one   *)
(* thread of a pool.  Every create_ and every restart leaves jobs in the   *)
(* pool that dispatch the base, because the loop returns as soon as no     *)
(* event is pending.                                                       *)
(*                                                                         *)
(* External, as the code uses it: a libevent base without locks.  A loop   *)
(* that sleeps is not told of timers that others add or delete; it wakes   *)
(* up at the time it went to sleep for.  Time itself is left out: a timer  *)
(* is due at some time after it was added.  The thread is ThreadPool.tla's.*)
(***************************************************************************)
EXTENDS Integers, Sequences

CONSTANTS TimerEvents,   \* the TimerEvents of one Timer
          MaxRestarts,   \* bound: restarts in all
          MaxJobs,       \* bound: dispatch jobs that are told apart in the queue
          None

ASSUME MaxRestartsIsNatural == MaxRestarts \in Nat
ASSUME MaxJobsIsPositive == MaxJobs \in Nat \ {0}
ASSUME NoneIsNoTimerEvent == None \notin TimerEvents

VARIABLES
    thread,     \* "idle", "awake" (in the loop), "asleep", "calling" (the callback), "left"
    mJobQueue,  \* the pool's jobs: "dispatch" (_timerRoutine) and "exit"
    mEvent,     \* mEvent[e]: "null", "added", "active", or "off" (called, not freed)
    object,     \* object[e]: "none", "live", "deleted"
    call,       \* call[a]: <<next statement, TimerEvent>> of the main thread and of the callback
    restarts,   \* how many restarts there were
    fault       \* a TimerEvent was used that has been deleted

vars == <<thread, mJobQueue, mEvent, object, call, restarts, fault>>

\* The callers that may be at it: the main thread, and the callback while it runs.
Callers == {"main", "loop"}

Init ==
    /\ thread = "idle"
    /\ mJobQueue = <<>>
    /\ mEvent = [e \in TimerEvents |-> "null"]
    /\ object = [e \in TimerEvents |-> "none"]
    /\ call = [a \in Callers |-> <<IF a = "main" THEN "user" ELSE "none", None>>]
    /\ restarts = 0
    /\ fault = FALSE

\* The main thread's calls of libevent fall into a time in which the loop sleeps or
\* does not run, as in test-timer.cpp, which leaves seconds between its calls:
\* nothing in the code sees to it.
MayTouchBase(a) == a = "loop" \/ thread \in {"idle", "asleep"}
At(a, stmt, e) == call[a] = <<stmt, e>>
Goto(a, stmt, e) == call' = [call EXCEPT ![a] = <<stmt, e>>]
\* Where a call returns to.
Return(a, e) == Goto(a, "user", IF a = "loop" THEN e ELSE None)
\* The user calls with any of its TimerEvents: a callback with its own, or with another
\* that may be due as well.
MayCall(a) == call[a][1] = "user"
\* ThreadPool::addJob.  All dispatch jobs are alike, and one that finds MaxJobs in
\* front of it is left out: with MaxRestarts the queue does not get that long.
addJob(job) ==
    mJobQueue' = IF job = "dispatch" /\ Len(mJobQueue) >= MaxJobs
                 THEN mJobQueue ELSE Append(mJobQueue, job)
----------------------------------------------------------------------------
(* create, restart, destroy *)

\* new TimerEvent.  A callback that creates one goes on with that.
create(a, e) ==
    /\ MayCall(a) /\ object[e] = "none"
    /\ object' = [object EXCEPT ![e] = "live"]
    /\ Goto(a, "add", e)
    /\ UNCHANGED <<thread, mJobQueue, mEvent, restarts, fault>>

\* create_(): evtimer_new, setEvent, evtimer_add.
evtimerAdd(a, e) ==
    /\ At(a, "add", e) /\ MayTouchBase(a)
    /\ mEvent' = [mEvent EXCEPT ![e] = "added"]
    /\ Goto(a, "job", e)
    /\ UNCHANGED <<thread, mJobQueue, object, restarts, fault>>

\* Mutant: no job.
noDispatchJob(a, e) ==
    /\ At(a, "job", e)
    /\ Return(a, e)
    /\ UNCHANGED <<thread, mJobQueue, mEvent, object, restarts, fault>>

\* create_(): the job that dispatches the base.
addDispatchJob(a, e) ==
    /\ At(a, "job", e)
    /\ addJob("dispatch")
    /\ Return(a, e)
    /\ UNCHANGED <<thread, mEvent, object, restarts, fault>>

\* restart(): event_remove_timer, evtimer_del, setEvent(nullptr), free.
removeEvent(a, e) ==
    /\ mEvent' = [mEvent EXCEPT ![e] = "null"]
    /\ Goto(a, "restartJob", e)
    /\ UNCHANGED <<thread, mJobQueue, object>>

restart(a, e) ==
    /\ MayCall(a) /\ object[e] = "live" /\ mEvent[e] # "null"
    /\ MayTouchBase(a)
    /\ restarts < MaxRestarts
    /\ restarts' = restarts + 1
    /\ removeEvent(a, e)
    /\ UNCHANGED fault

\* restart(): a job of its own before create_().
restartJob(a, e) ==
    /\ At(a, "restartJob", e)
    /\ addJob("dispatch")
    /\ Goto(a, "add", e)
    /\ UNCHANGED <<thread, mEvent, object, restarts, fault>>

\* Mutant: the event stays in the base.
deleteOnly(a, e) ==
    /\ MayCall(a) /\ object[e] = "live" /\ mEvent[e] # "null"
    /\ MayTouchBase(a)
    /\ object' = [object EXCEPT ![e] = "deleted"]
    /\ Return(a, e)
    /\ UNCHANGED <<thread, mJobQueue, mEvent, restarts, fault>>

\* destroy(): evtimer_del, event_free, delete.
destroy(a, e) ==
    /\ MayCall(a) /\ object[e] = "live" /\ mEvent[e] # "null"
    /\ MayTouchBase(a)
    /\ mEvent' = [mEvent EXCEPT ![e] = "null"]
    /\ object' = [object EXCEPT ![e] = "deleted"]
    /\ Return(a, e)
    /\ UNCHANGED <<thread, mJobQueue, restarts, fault>>

\* ~Timer(): ~ThreadPool adds the exit job and waits for the thread.
deleteTimer ==
    /\ At("main", "user", None)
    /\ addJob("exit")
    /\ Goto("main", "wait", None)
    /\ UNCHANGED <<thread, mEvent, object, restarts, fault>>

deleted ==
    /\ At("main", "wait", None)
    /\ thread = "left"
    /\ Goto("main", "gone", None)
    /\ UNCHANGED <<thread, mJobQueue, mEvent, object, restarts, fault>>
----------------------------------------------------------------------------
(* The thread and its loop *)

Pending == {e \in TimerEvents : mEvent[e] \in {"added", "active"}}
Active == {e \in TimerEvents : mEvent[e] = "active"}

\* Thread::run: the exit job, or _timerRoutine() into event_base_dispatch.
getNextJob ==
    /\ thread = "idle" /\ mJobQueue # <<>>
    /\ thread' = IF Head(mJobQueue) = "exit" THEN "left" ELSE "awake"
    /\ mJobQueue' = Tail(mJobQueue)
    /\ UNCHANGED <<mEvent, object, call, restarts, fault>>

\* event_base_dispatch returns when nothing is pending.
loopReturns ==
    /\ thread = "awake" /\ Pending = {}
    /\ thread' = "idle"
    /\ UNCHANGED <<mJobQueue, mEvent, object, call, restarts, fault>>

sleep ==
    /\ thread = "awake" /\ Pending # {} /\ Active = {}
    /\ thread' = "asleep"
    /\ UNCHANGED <<mJobQueue, mEvent, object, call, restarts, fault>>

wake ==
    /\ thread = "asleep"
    /\ thread' = "awake"
    /\ UNCHANGED <<mJobQueue, mEvent, object, call, restarts, fault>>

expire(e) ==
    /\ thread = "awake" /\ mEvent[e] = "added"
    /\ mEvent' = [mEvent EXCEPT ![e] = "active"]
    /\ UNCHANGED <<thread, mJobQueue, object, call, restarts, fault>>

\* Mutant: a timer that comes again by itself.
callAgain(e) ==
    /\ thread = "awake" /\ mEvent[e] = "active"
    /\ mEvent' = [mEvent EXCEPT ![e] = "added"]
    /\ thread' = "calling"
    /\ fault' = (fault \/ object[e] = "deleted")
    /\ Goto("loop", "user", e)
    /\ UNCHANGED <<mJobQueue, object, restarts>>

\* The event is taken off the base; _onEvTimer() looks into the TimerEvent and
\* calls its function.
onEvTimer(e) ==
    /\ thread = "awake" /\ mEvent[e] = "active"
    /\ mEvent' = [mEvent EXCEPT ![e] = "off"]
    /\ thread' = "calling"
    /\ fault' = (fault \/ object[e] = "deleted")
    /\ Goto("loop", "user", e)
    /\ UNCHANGED <<mJobQueue, object, restarts>>

callbackReturns(e) ==
    /\ At("loop", "user", e)
    /\ Goto("loop", "none", None)
    /\ thread' = "awake"
    /\ UNCHANGED <<mJobQueue, mEvent, object, restarts, fault>>
----------------------------------------------------------------------------
\* What a call goes on with, once it was made.
CallStep(a) ==
    \E e \in TimerEvents : evtimerAdd(a, e) \/ addDispatchJob(a, e) \/ restartJob(a, e)

LoopStep ==
    \/ getNextJob \/ loopReturns \/ sleep \/ wake
    \/ \E e \in TimerEvents : expire(e) \/ onEvTimer(e)

\* The user, on the main thread or in a callback.
UserStep ==
    \/ \E a \in Callers, e \in TimerEvents : create(a, e) \/ restart(a, e) \/ destroy(a, e)
    \/ deleteTimer

CallbackReturns == \E e \in TimerEvents : callbackReturns(e)

Next ==
    \/ \E a \in Callers : CallStep(a)
    \/ UserStep \/ CallbackReturns \/ deleted
    \/ LoopStep

Spec == Init /\ [][Next]_vars
============================================================================
