------------------------------ MODULE ProcStat ------------------------------
(***************************************************************************)
(* ProcStat (proc-stat.cpp): a sample of /proc/<pid>/stat that a timer     *)
(* takes again and again.  The module composes it with Timer.tla, and the  *)
(* program uses either a ProcStat or a Timer of its own.                   *)
(*                                                                         *)
(* Of the sample only rss, the number of pages, is kept.                   *)
(***************************************************************************)
EXTENDS Timer

CONSTANTS Pages,      \* the page counts that the kernel may report
          Unset,      \* what the memory of proc happens to hold at first
          PageSize,   \* PAGESIZE
          WordBits    \* bits of the uint32_t that getRSS returns

ASSUME SomeTimerEvent == TimerEvents # {}
ASSUME PagesAreSomething == Pages \subseteq Nat \ {0}

VARIABLES
    stat,      \* "none" (the program uses a Timer itself), "new", "live", "deleting", "waiting"
    onTimer,   \* the next statement of onTimerEvent: "read", "parse", "restart", "return"
    mMutex,    \* "free" or "held"
    proc,      \* proc.rss
    rss        \* what the user's last call of getRSS returned

statVars == <<stat, onTimer, mMutex, proc, rss>>
allVars == <<vars, statVars>>

mTimerEvent == CHOOSE e \in TimerEvents : TRUE

\* pages * PAGESIZE as a uint32_t.
Bytes(pages) == (pages * PageSize) % 2^WordBits

StatInit ==
    /\ Init
    /\ stat \in {"none", "new"}
    /\ onTimer = "read" /\ mMutex = "free"
    /\ proc = Unset /\ rss = Bytes(Unset)
----------------------------------------------------------------------------
(* The user's thread *)

\* ProcStat(): new Timer, create(); what create_() does follows as CallStep("main").
construct ==
    /\ stat = "new"
    /\ create("main", mTimerEvent)
    /\ stat' = "live"
    /\ UNCHANGED <<onTimer, mMutex, proc, rss>>

getRSS ==
    /\ stat = "live" /\ At("main", "user", None)
    /\ mMutex = "free"
    /\ rss' = Bytes(proc)
    /\ UNCHANGED <<vars, stat, onTimer, mMutex, proc>>

\* ~ProcStat(): the TimerEvent is deleted with its event still in the base.
destructDeleteEvent ==
    /\ stat = "live" /\ At("main", "user", None)
    /\ stat' = "deleting"
    /\ object' = [object EXCEPT ![mTimerEvent] = "deleted"]
    /\ UNCHANGED <<thread, mJobQueue, mEvent, call, restarts, fault>>
    /\ UNCHANGED <<onTimer, mMutex, proc, rss>>

\* ~ProcStat(): ~Timer(), which waits for the thread.
destructDeleteTimer ==
    /\ stat = "deleting"
    /\ deleteTimer
    /\ stat' = "waiting"
    /\ UNCHANGED <<onTimer, mMutex, proc, rss>>
----------------------------------------------------------------------------
(* onTimerEvent, in the timer's thread *)

InOnTimerEvent(stmt) == stat # "none" /\ At("loop", "user", mTimerEvent) /\ onTimer = stmt

\* Mutant: the memory is cleared before the lock is taken.
clearUnlocked ==
    /\ InOnTimerEvent("read")
    /\ proc' = 0
    /\ onTimer' = "parse"
    /\ UNCHANGED <<vars, stat, mMutex, rss>>

\* The file is read into str; then the lock and memset.
clear ==
    /\ InOnTimerEvent("read")
    /\ mMutex = "free" /\ mMutex' = "held"
    /\ proc' = 0
    /\ onTimer' = "parse"
    /\ UNCHANGED <<vars, stat, rss>>

\* stat2proc, and the lock is released.
stat2proc ==
    /\ InOnTimerEvent("parse")
    /\ \E pages \in Pages : proc' = pages
    /\ mMutex' = "free"
    /\ onTimer' = "restart"
    /\ UNCHANGED <<vars, stat, rss>>

\* Mutant: a timer that fires once.
restartNot ==
    /\ InOnTimerEvent("restart")
    /\ onTimer' = "return"
    /\ UNCHANGED <<vars, stat, mMutex, proc, rss>>

\* mTimer->restart(event), which looks into the TimerEvent; what it goes on with
\* follows as CallStep("loop").
restartTimer ==
    /\ InOnTimerEvent("restart")
    /\ removeEvent("loop", mTimerEvent)
    /\ fault' = (fault \/ object[mTimerEvent] = "deleted")
    /\ onTimer' = "return"
    /\ UNCHANGED <<restarts, stat, mMutex, proc, rss>>

onTimerEventReturns ==
    /\ InOnTimerEvent("return")
    /\ callbackReturns(mTimerEvent)
    /\ onTimer' = "read"
    /\ UNCHANGED <<stat, mMutex, proc, rss>>

onTimerEvent == clear \/ stat2proc \/ restartTimer \/ onTimerEventReturns
----------------------------------------------------------------------------
\* The thread and the calls in progress go on in the same way for both users.
SharedStep(A) == A /\ UNCHANGED statVars
Called(a) == SharedStep(CallStep(a))
Loop == SharedStep(LoopStep)
Expire(e) == SharedStep(expire(e))
OnEvTimer(e) == SharedStep(onEvTimer(e))
Deleted == SharedStep(deleted)
\* What a program does that has a Timer of its own.
Direct(A) == stat = "none" /\ A /\ UNCHANGED statVars
DirectReturn(e) == Direct(callbackReturns(e))

StatNext ==
    \/ construct \/ getRSS \/ destructDeleteEvent \/ destructDeleteTimer
    \/ onTimerEvent
    \/ Loop \/ Deleted \/ \E a \in Callers : Called(a)
    \/ Direct(Next)

\* The thread runs, every timer comes due, and a call or a callback that was begun
\* goes on.  Nobody has to call anything.
StatSpec ==
    /\ StatInit /\ [][StatNext]_allVars
    /\ WF_allVars(Loop) /\ WF_allVars(Deleted) /\ WF_allVars(onTimerEvent)
    /\ \A a \in Callers : SF_allVars(Called(a))
    /\ \A e \in TimerEvents :
          SF_allVars(Expire(e)) /\ WF_allVars(OnEvTimer(e)) /\ WF_allVars(DirectReturn(e))
----------------------------------------------------------------------------
(* Properties *)

\* _onEvTimer() and restart() never meet a TimerEvent that has been deleted: destroy()
\* takes its event off the base first.  ~ProcStat() does not, and from its first
\* statement on the timer's thread may use the deleted TimerEvent.
NoFault == fault => stat \in {"deleting", "waiting"}

\* A timer that was added comes due, is restarted or is destroyed, in spite of a loop
\* that ends whenever no timer is pending.
TimersFire == \A e \in TimerEvents : (mEvent[e] = "added") ~> (mEvent[e] # "added")

\* ~Timer() returns, once the callbacks restart no more timers (MaxRestarts).
DestructorReturns ==
    (stat = "none" /\ At("main", "wait", None)) ~> At("main", "gone", None)

\* What getRSS returned is a whole sample, or what the memory held before the first.
WholeSample == rss \in {Bytes(p) : p \in Pages \cup {Unset}}

\* The samples of a ProcStat do not cease while it lives, although each rests on a timer that fires
\* once and a loop that ends when none is pending; and what getRSS returns is a whole
\* sample, or what the memory held before the first, and never the memset's zero.
Sampling ==
    /\ []WholeSample
    /\ (stat = "live") ~> (onTimer = "restart" \/ stat = "deleting")
============================================================================
