----------------------------- MODULE Semaphore -----------------------------
(***************************************************************************)
(* class Semaphore (src/semaphore.cpp, semaphore.hpp): a counter guarded   *)
(* by a std::mutex and a std::condition_variable.  One action per          *)
(* statement of notify(), wait() and try_wait(); std::mutex and            *)
(* std::condition_variable are external and are modelled by the lock owner *)
(* and by the set of threads blocked in condition_.wait, which may also    *)
(* wake up spuriously.                                                     *)
(***************************************************************************)
EXTENDS Integers, FiniteSets

CONSTANTS Procs,      \* the threads that share the semaphore
          Free,       \* the mutex has no owner
          MaxNotify   \* bound on the number of notify() calls of a behaviour

ASSUME ProcsFinite == IsFiniteSet(Procs)
ASSUME FreeIsNoProc == Free \notin Procs
ASSUME MaxNotifyIsNat == MaxNotify \in Nat

VARIABLES mutex_,     \* owner of the mutex, or Free
          count_,     \* the permits
          pc,         \* pc[p]: the statement thread p is about to execute
          notified    \* number of notify() calls so far (for the bound only)

vars == <<mutex_, count_, pc, notified>>

Labels == {"idle",
           "n_lock", "n_inc", "n_one", "n_unlock",
           "w_lock", "w_test", "w_blocked", "w_relock", "w_unlock",
           "t_lock", "t_test", "t_took", "t_refused"}

\* Threads blocked inside condition_.wait(lock).
Blocked == {p \in Procs : pc[p] = "w_blocked"}

Init ==
    /\ mutex_ = Free
    /\ count_ = 0
    /\ pc = [p \in Procs |-> "idle"]
    /\ notified = 0

Goto(p, from, to) == pc[p] = from /\ pc' = [pc EXCEPT ![p] = to]

Lock(p, from, to) ==
    /\ Goto(p, from, to)
    /\ mutex_ = Free
    /\ mutex_' = p
    /\ UNCHANGED <<count_, notified>>

Unlock(p, from) ==
    /\ Goto(p, from, "idle")
    /\ mutex_' = Free
    /\ UNCHANGED <<count_, notified>>
----------------------------------------------------------------------------
(* void Semaphore::notify() *)

NotifyCall(p) ==
    /\ Goto(p, "idle", "n_lock")
    /\ notified < MaxNotify
    /\ notified' = notified + 1
    /\ UNCHANGED <<mutex_, count_>>

NotifyLock(p) == Lock(p, "n_lock", "n_inc")

NotifyIncrement(p) ==
    /\ Goto(p, "n_inc", "n_one")
    /\ count_' = count_ + 1
    /\ UNCHANGED <<mutex_, notified>>

\* Mutant: notify() forgets notify_one.
NotifyNobody(p) ==
    Goto(p, "n_one", "n_unlock") /\ UNCHANGED <<mutex_, count_, notified>>

\* condition_.notify_one(): one blocked thread, if there is any, must
\* reacquire the mutex.
NotifyOne(p) ==
    /\ pc[p] = "n_one"
    /\ \/ Blocked = {} /\ pc' = [pc EXCEPT ![p] = "n_unlock"]
       \/ \E q \in Blocked :
              pc' = [pc EXCEPT ![p] = "n_unlock", ![q] = "w_relock"]
    /\ UNCHANGED <<mutex_, count_, notified>>

NotifyUnlock(p) == Unlock(p, "n_unlock")
----------------------------------------------------------------------------
(* void Semaphore::wait() *)

WaitCall(p) == Goto(p, "idle", "w_lock") /\ UNCHANGED <<mutex_, count_, notified>>

WaitLock(p) == Lock(p, "w_lock", "w_test")

\* while(!count_) condition_.wait(lock): blocks and releases in one step.
WaitBlock(p) ==
    /\ Goto(p, "w_test", "w_blocked")
    /\ count_ = 0
    /\ mutex_' = Free
    /\ UNCHANGED <<count_, notified>>

WaitSpurious(p) ==
    Goto(p, "w_blocked", "w_relock") /\ UNCHANGED <<mutex_, count_, notified>>

WaitRelock(p) == Lock(p, "w_relock", "w_test")

\* The loop ends and --count_ runs.  The counter is an unsigned long: a
\* decrement at zero would wrap around, here it would leave Nat.
WaitDecrement(p) ==
    /\ Goto(p, "w_test", "w_unlock")
    /\ count_ # 0
    /\ count_' = count_ - 1
    /\ UNCHANGED <<mutex_, notified>>

WaitUnlock(p) == Unlock(p, "w_unlock")
----------------------------------------------------------------------------
(* bool Semaphore::try_wait() *)

TryCall(p) == Goto(p, "idle", "t_lock") /\ UNCHANGED <<mutex_, count_, notified>>

TryLock(p) == Lock(p, "t_lock", "t_test")

\* Mutant: try_wait() reports success and leaves the permit.
TryPeek(p) ==
    /\ Goto(p, "t_test", "t_took")
    /\ count_ # 0
    /\ UNCHANGED <<mutex_, count_, notified>>

TryTake(p) ==
    /\ Goto(p, "t_test", "t_took")
    /\ count_ # 0
    /\ count_' = count_ - 1
    /\ UNCHANGED <<mutex_, notified>>

TryRefuse(p) ==
    /\ Goto(p, "t_test", "t_refused")
    /\ count_ = 0
    /\ UNCHANGED <<mutex_, count_, notified>>

TryUnlock(p) == Unlock(p, "t_took") \/ Unlock(p, "t_refused")
----------------------------------------------------------------------------
AcquireStep(p) == NotifyLock(p) \/ WaitLock(p) \/ WaitRelock(p) \/ TryLock(p)

InsideStep(p) ==
    \/ NotifyIncrement(p) \/ NotifyOne(p) \/ NotifyUnlock(p)
    \/ WaitBlock(p) \/ WaitDecrement(p) \/ WaitUnlock(p)
    \/ TryTake(p) \/ TryRefuse(p) \/ TryUnlock(p)

Next ==
    \E p \in Procs :
        \/ NotifyCall(p) \/ WaitCall(p) \/ TryCall(p) \/ WaitSpurious(p)
        \/ AcquireStep(p) \/ InsideStep(p)

Spec == Init /\ [][Next]_vars

(* A thread that holds the mutex keeps running (weak fairness), and one    *)
(* that finds the mutex free again and again gets it in the end (strong    *)
(* fairness: pthread mutexes starve nobody that keeps trying).  Nobody is  *)
(* obliged to call an operation or to wake up spuriously.                  *)
FairSpec ==
    /\ Spec
    /\ \A p \in Procs : SF_vars(AcquireStep(p)) /\ WF_vars(InsideStep(p))
----------------------------------------------------------------------------
Holding(p) == pc[p] \in {"n_inc", "n_one", "n_unlock", "w_test", "w_unlock",
                         "t_test", "t_took", "t_refused"}

\* The types of the state; count_ never wraps below zero.
TypeOK ==
    /\ mutex_ \in Procs \cup {Free}
    /\ count_ \in Nat
    /\ pc \in [Procs -> Labels]
    /\ notified \in 0 .. MaxNotify

\* notify(), wait() and try_wait() exclude each other: whoever is between
\* its lock and its unlock owns mutex_.
MutualExclusion == \A p \in Procs : Holding(p) <=> mutex_ = p

\* Threads that will look at count_ before anyone blocks for good: awake
\* inside wait()'s loop, or about to execute notify_one.
Helpers == {p \in Procs : pc[p] \in {"w_test", "w_relock", "n_one"}}

\* No wake-up is lost: while a thread is blocked in wait(), every permit is
\* matched by a thread that is awake in wait() or is about to notify, however
\* permits are stolen by barging callers and wake-ups are spurious.
NoLostWakeup == Blocked # {} => count_ <= Cardinality(Helpers)

\* A permit posted while threads wait() does not stay unused: in the end the
\* permits are used up or nobody waits.
InWait(p) == pc[p] \in {"w_lock", "w_test", "w_blocked", "w_relock"}
PermitsAreUsed ==
    (count_ > 0 /\ \E p \in Procs : InWait(p))
        ~> (count_ = 0 \/ \A p \in Procs : ~InWait(p))

\* The mutex and condition variable code implements the atomic semaphore:
\* each call takes effect at one moment, wait() only by taking a permit.
Abstract(label) ==
    CASE label = "idle" -> "idle"
      [] label \in {"n_lock", "n_inc"} -> "notify"
      [] label \in {"n_one", "n_unlock"} -> "notified"
      [] label \in {"w_lock", "w_test", "w_blocked", "w_relock"} -> "wait"
      [] label \in {"t_lock", "t_test"} -> "try"
      [] label \in {"w_unlock", "t_took"} -> "acquired"
      [] label = "t_refused" -> "refused"

CS == INSTANCE CountingSemaphore
          WITH permits <- count_, op <- [p \in Procs |-> Abstract(pc[p])]

ImplementsCountingSemaphore == CS!Spec
============================================================================
