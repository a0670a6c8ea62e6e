-------------------------- MODULE SemaphoreProofs --------------------------
(***************************************************************************)
(* The safety of Semaphore.tla for any finite set of threads and any bound *)
(* on the number of calls.  TypeOK /\ MutualExclusion is inductive;        *)
(* NoLostWakeup is inductive relative to it, by counting how the set       *)
(* Helpers changes in each step.                                           *)
(***************************************************************************)
EXTENDS Semaphore, FiniteSetTheorems, TLAPS

Inv == TypeOK /\ MutualExclusion

\* The initial state is well typed and nobody owns the mutex.
LEMMA InitInv == Init => Inv
  BY FreeIsNoProc, MaxNotifyIsNat DEF Init, Inv, TypeOK, MutualExclusion, Holding, Labels

\* Every step of every operation preserves the types and the exclusion.
LEMMA NextInv == Inv /\ [Next]_vars => Inv'
<1> SUFFICES ASSUME Inv, [Next]_vars PROVE Inv'
  OBVIOUS
<1> USE FreeIsNoProc, MaxNotifyIsNat DEF Inv, TypeOK, MutualExclusion, Holding, Labels, Goto
<1>1. CASE UNCHANGED vars
  BY <1>1 DEF vars
<1>2. ASSUME NEW p \in Procs, AcquireStep(p) PROVE Inv'
  BY <1>2 DEF AcquireStep, NotifyLock, WaitLock, WaitRelock, TryLock, Lock
<1>3. ASSUME NEW p \in Procs,
             NotifyCall(p) \/ WaitCall(p) \/ TryCall(p) \/ WaitSpurious(p)
      PROVE  Inv'
  BY <1>3 DEF NotifyCall, WaitCall, TryCall, WaitSpurious
<1>4. ASSUME NEW p \in Procs, InsideStep(p) PROVE Inv'
  <2>1. CASE NotifyIncrement(p)
    BY <2>1 DEF NotifyIncrement
  <2>2. CASE NotifyOne(p)
    BY <2>2 DEF NotifyOne, Blocked
  <2>3. CASE NotifyUnlock(p) \/ WaitUnlock(p) \/ TryUnlock(p)
    BY <2>3 DEF NotifyUnlock, WaitUnlock, TryUnlock, Unlock
  <2>4. CASE WaitBlock(p)
    BY <2>4 DEF WaitBlock
  <2>5. CASE WaitDecrement(p) \/ TryTake(p) \/ TryRefuse(p)
    BY <2>5 DEF WaitDecrement, TryTake, TryRefuse
  <2> QED
    BY <1>4, <2>1, <2>2, <2>3, <2>4, <2>5 DEF InsideStep
<1> QED
  BY <1>1, <1>2, <1>3, <1>4 DEF Next

\* Semaphore: the state is well typed in every reachable state; in particular
\* the unsigned counter count_ is never decremented at zero.
THEOREM TypeCorrect == Spec => []TypeOK
<1>1. Inv => TypeOK
  BY DEF Inv
<1> QED
  BY InitInv, NextInv, <1>1, PTL DEF Spec

\* Semaphore: notify(), wait() and try_wait() run their critical sections one
\* at a time, for any number of threads.
THEOREM MutexSafe == Spec => []MutualExclusion
<1>1. Inv => MutualExclusion
  BY DEF Inv
<1> QED
  BY InitInv, NextInv, <1>1, PTL DEF Spec
----------------------------------------------------------------------------
(* NoLostWakeup *)

\* Helpers is a finite set of threads.
LEMMA HelpersFinite ==
    /\ IsFiniteSet(Helpers) /\ Cardinality(Helpers) \in Nat
    /\ IsFiniteSet(Helpers') /\ Cardinality(Helpers') \in Nat
<1>1. Helpers \subseteq Procs /\ Helpers' \subseteq Procs
  BY DEF Helpers
<1> QED
  BY <1>1, ProcsFinite, FS_Subset, FS_CardinalityType

\* Nobody blocks, so nobody waits for a permit.
LEMMA InitWakeup == Init => NoLostWakeup
  BY DEF Init, NoLostWakeup, Blocked

\* A step that leaves Helpers alone keeps the bound when count_ does not grow
\* and nobody blocks who did not block before.
LEMMA SameHelpers ==
    ASSUME NoLostWakeup, Helpers' = Helpers, Blocked' # {} => Blocked # {},
           count_' = count_
    PROVE  NoLostWakeup'
  BY DEF NoLostWakeup

\* A step that adds a helper pays for one more permit.
LEMMA MoreHelpers ==
    ASSUME NoLostWakeup, Inv, NEW p, p \notin Helpers, Helpers' = Helpers \cup {p},
           Blocked' # {} => Blocked # {}, count_' \in {count_, count_ + 1}
    PROVE  NoLostWakeup'
<1>1. Cardinality(Helpers') = Cardinality(Helpers) + 1
  BY HelpersFinite, FS_AddElement
<1> QED
  BY <1>1, HelpersFinite DEF NoLostWakeup, Inv, TypeOK

\* A step that takes one permit and removes one helper is balanced.
LEMMA FewerHelpers ==
    ASSUME NoLostWakeup, Inv, NEW p \in Helpers, Helpers' = Helpers \ {p},
           Blocked' # {} => Blocked # {}, count_' = count_ - 1
    PROVE  NoLostWakeup'
<1>1. Cardinality(Helpers') = Cardinality(Helpers) - 1
  BY HelpersFinite, FS_RemoveElement
<1> QED
  BY <1>1, HelpersFinite DEF NoLostWakeup, Inv, TypeOK

\* Every step keeps, for a blocked thread, as many helpers as permits.
LEMMA NextWakeup == Inv /\ Inv' /\ NoLostWakeup /\ [Next]_vars => NoLostWakeup'
<1> SUFFICES ASSUME Inv, Inv', NoLostWakeup, [Next]_vars PROVE NoLostWakeup'
  OBVIOUS
<1>a. pc \in [Procs -> Labels] /\ count_ \in Nat
  BY DEF Inv, TypeOK
<1>1. CASE UNCHANGED vars
  BY <1>1 DEF vars, NoLostWakeup, Blocked, Helpers
<1>2. ASSUME NEW p \in Procs,
             \/ NotifyCall(p) \/ WaitCall(p) \/ TryCall(p)
             \/ NotifyLock(p) \/ WaitRelock(p) \/ TryLock(p)
             \/ NotifyUnlock(p) \/ WaitUnlock(p) \/ TryUnlock(p) \/ TryRefuse(p)
      PROVE  NoLostWakeup'
  <2>1. Helpers' = Helpers /\ Blocked' = Blocked /\ count_' = count_
    BY <1>2, <1>a DEF Helpers, Blocked, NotifyCall, WaitCall, TryCall, NotifyLock,
       WaitRelock, TryLock, NotifyUnlock, WaitUnlock, TryUnlock, TryRefuse, Lock,
       Unlock, Goto
  <2> QED
    BY <2>1, SameHelpers
<1>3. ASSUME NEW p \in Procs, WaitLock(p) \/ WaitSpurious(p) \/ NotifyIncrement(p)
      PROVE  NoLostWakeup'
  <2>1. /\ p \notin Helpers /\ Helpers' = Helpers \cup {p}
        /\ Blocked' # {} => Blocked # {}
        /\ count_' \in {count_, count_ + 1}
    BY <1>3, <1>a DEF Helpers, Blocked, WaitLock, WaitSpurious, NotifyIncrement, Lock, Goto
  <2> QED
    BY <2>1, MoreHelpers
<1>4. ASSUME NEW p \in Procs, WaitDecrement(p) PROVE NoLostWakeup'
  <2>1. /\ p \in Helpers /\ Helpers' = Helpers \ {p} /\ Blocked' = Blocked
        /\ count_' = count_ - 1
    BY <1>4, <1>a DEF Helpers, Blocked, WaitDecrement, Goto
  <2> QED
    BY <2>1, FewerHelpers
<1>5. ASSUME NEW p \in Procs, TryTake(p) PROVE NoLostWakeup'
  <2>1. Helpers' = Helpers /\ Blocked' = Blocked /\ count_' = count_ - 1
    BY <1>5, <1>a DEF Helpers, Blocked, TryTake, Goto
  <2> QED
    BY <2>1, <1>a, HelpersFinite DEF NoLostWakeup
<1>6. ASSUME NEW p \in Procs, WaitBlock(p) PROVE NoLostWakeup'
  BY <1>6, HelpersFinite DEF WaitBlock, NoLostWakeup
<1>7. ASSUME NEW p \in Procs, NotifyOne(p) PROVE NoLostWakeup'
  <2>1. CASE Blocked = {} /\ pc' = [pc EXCEPT ![p] = "n_unlock"]
    BY <2>1, <1>a DEF Blocked, NoLostWakeup
  <2>2. ASSUME NEW q \in Blocked,
               pc' = [pc EXCEPT ![p] = "n_unlock", ![q] = "w_relock"]
        PROVE  NoLostWakeup'
    <3>1. /\ p \in Helpers /\ q \in Procs /\ q \notin Helpers /\ p # q
          /\ Helpers' = (Helpers \ {p}) \cup {q}
          /\ count_' = count_
      BY <1>7, <2>2, <1>a DEF Helpers, Blocked, NotifyOne
    <3>2. /\ IsFiniteSet(Helpers \ {p})
          /\ Cardinality(Helpers \ {p}) = Cardinality(Helpers) - 1
      BY <3>1, HelpersFinite, FS_RemoveElement
    <3>3. Cardinality(Helpers') = Cardinality(Helpers \ {p}) + 1
      BY <3>1, <3>2, FS_AddElement
    <3> QED
      BY <2>2, <3>1, <3>2, <3>3, HelpersFinite DEF NoLostWakeup
  <2> QED
    BY <1>7, <2>1, <2>2 DEF NotifyOne
<1> QED
  BY <1>1, <1>2, <1>3, <1>4, <1>5, <1>6, <1>7 DEF Next, AcquireStep, InsideStep

\* Semaphore: no wake-up is lost.  While any thread is blocked in wait(), every
\* permit has a thread that is awake in wait() or is about to notify.
THEOREM WakeupsNotLost == Spec => []NoLostWakeup
<1>1. Init => Inv /\ NoLostWakeup
  BY InitInv, InitWakeup
<1>2. Inv /\ NoLostWakeup /\ [Next]_vars => Inv' /\ NoLostWakeup'
  BY NextInv, NextWakeup
<1> QED
  BY <1>1, <1>2, PTL DEF Spec
----------------------------------------------------------------------------
(* The refinement of CountingSemaphore *)

Op == [p \in Procs |-> Abstract(pc[p])]

\* The abstract state of an operation, statement by statement.
LEMMA AbstractLabels ==
    /\ Abstract("idle") = "idle"
    /\ Abstract("n_lock") = "notify" /\ Abstract("n_inc") = "notify"
    /\ Abstract("n_one") = "notified" /\ Abstract("n_unlock") = "notified"
    /\ Abstract("w_lock") = "wait" /\ Abstract("w_test") = "wait"
    /\ Abstract("w_blocked") = "wait" /\ Abstract("w_relock") = "wait"
    /\ Abstract("t_lock") = "try" /\ Abstract("t_test") = "try"
    /\ Abstract("w_unlock") = "acquired" /\ Abstract("t_took") = "acquired"
    /\ Abstract("t_refused") = "refused"
  BY DEF Abstract

\* A statement that stays within one abstract state changes nothing there.
LEMMA SilentStep ==
    ASSUME pc \in [Procs -> Labels], NEW p \in Procs, NEW from, NEW to,
           Goto(p, from, to), Abstract(from) = Abstract(to), count_' = count_
    PROVE  UNCHANGED CS!vars
  BY DEF Goto, CS!vars

\* A statement that moves p's operation on moves only p's.
LEMMA OpStep ==
    ASSUME pc \in [Procs -> Labels], NEW p \in Procs, NEW from, NEW to,
           Goto(p, from, to)
    PROVE  Op[p] = Abstract(from) /\ Op' = [Op EXCEPT ![p] = Abstract(to)]
  BY DEF Goto, Op

\* Every statement is one step of the atomic semaphore or none.
LEMMA NextRefines == Inv /\ [Next]_vars => [CS!Next]_(CS!vars)
<1> SUFFICES ASSUME Inv, [Next]_vars PROVE [CS!Next]_(CS!vars)
  OBVIOUS
<1> USE AbstractLabels
<1>a. pc \in [Procs -> Labels] /\ count_ \in Nat
  BY DEF Inv, TypeOK
<1>1. CASE UNCHANGED vars
  BY <1>1 DEF vars, CS!vars
<1>2. ASSUME NEW p \in Procs, AcquireStep(p) \/ WaitSpurious(p) \/ WaitBlock(p)
      PROVE  UNCHANGED CS!vars
  BY <1>2, <1>a, SilentStep
     DEF AcquireStep, NotifyLock, WaitLock, WaitRelock, TryLock, Lock, WaitSpurious, WaitBlock
<1>3. ASSUME NEW p \in Procs, NotifyOne(p) PROVE UNCHANGED CS!vars
  BY <1>3, <1>a DEF NotifyOne, Blocked, CS!vars
<1>4. ASSUME NEW p \in Procs, NotifyCall(p) \/ WaitCall(p) \/ TryCall(p)
      PROVE  CS!Next
  <2>1. NotifyCall(p) => CS!Call(p, "notify")
    BY <1>a, OpStep DEF NotifyCall, CS!Call, Op
  <2>2. WaitCall(p) => CS!Call(p, "wait")
    BY <1>a, OpStep DEF WaitCall, CS!Call, Op
  <2>3. TryCall(p) => CS!Call(p, "try")
    BY <1>a, OpStep DEF TryCall, CS!Call, Op
  <2> QED
    BY <1>4, <2>1, <2>2, <2>3 DEF CS!Next
<1>5. ASSUME NEW p \in Procs, NotifyIncrement(p) PROVE CS!Next
  <2>1. CS!Post(p)
    BY <1>5, <1>a, OpStep DEF NotifyIncrement, CS!Post, Op
  <2> QED
    BY <2>1 DEF CS!Next
<1>6. ASSUME NEW p \in Procs, WaitDecrement(p) \/ TryTake(p) PROVE CS!Next
  <2>1. CS!Take(p)
    BY <1>6, <1>a, OpStep DEF WaitDecrement, TryTake, CS!Take, Op
  <2> QED
    BY <2>1 DEF CS!Next
<1>7. ASSUME NEW p \in Procs, TryRefuse(p) PROVE CS!Next
  <2>1. CS!Refuse(p)
    BY <1>7, <1>a, OpStep DEF TryRefuse, CS!Refuse, Op
  <2> QED
    BY <2>1 DEF CS!Next
<1>8. ASSUME NEW p \in Procs, NotifyUnlock(p) \/ WaitUnlock(p) \/ TryUnlock(p)
      PROVE  CS!Next
  <2>1. CS!Return(p)
    BY <1>8, <1>a, OpStep DEF NotifyUnlock, WaitUnlock, TryUnlock, Unlock, CS!Return, Op
  <2> QED
    BY <2>1 DEF CS!Next
<1> QED
  BY <1>1, <1>2, <1>3, <1>4, <1>5, <1>6, <1>7, <1>8 DEF Next, InsideStep

\* Semaphore: the mutex and condition variable code implements the atomic
\* counting semaphore, for any number of threads.
THEOREM SemaphoreRefines == Spec => ImplementsCountingSemaphore
<1>1. Init => CS!Init
  BY AbstractLabels DEF Init, CS!Init
<1> QED
  BY <1>1, InitInv, NextInv, NextRefines, PTL DEF Spec, CS!Spec, ImplementsCountingSemaphore
============================================================================
