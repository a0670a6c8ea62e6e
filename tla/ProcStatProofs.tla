--------------------------- MODULE ProcStatProofs ---------------------------
(***************************************************************************)
(* For every number of TimerEvents, restarts and jobs: no timer's callback *)
(* meets a deleted TimerEvent, getRSS returns whole samples, and no timer  *)
(* is forgotten by a loop that ends when none is pending.                  *)
(*                                                                         *)
(* NoFault is not inductive: one has to know that destroy() leaves nothing *)
(* behind that would put the event back into the base, and so that whoever *)
(* is about to do that, in create_() or restart(), is alone with an event  *)
(* that destroy() does not accept.                                         *)
(***************************************************************************)
EXTENDS ProcStat, TLAPS

\* About to add e to the base.
Adding(a, e) == At(a, "add", e) \/ At(a, "restartJob", e)

TypeInv ==
    /\ mEvent \in [TimerEvents -> {"null", "added", "active", "off"}]
    /\ object \in [TimerEvents -> {"none", "live", "deleted"}]
    /\ call = [a \in Callers |-> call[a]]
    /\ stat \in {"none", "new", "live", "deleting", "waiting"}
    /\ fault \in BOOLEAN

\* Who is about to add an event is the only one, and the event is not there.
AddingAlone ==
    \A e \in TimerEvents :
        /\ \A a \in Callers : Adding(a, e) => mEvent[e] = "null" /\ object[e] # "none"
        /\ ~(Adding("main", e) /\ Adding("loop", e))

Untouched == \A e \in TimerEvents : object[e] = "none" => mEvent[e] = "null"

\* A ProcStat has one TimerEvent, and no callback before the event was first added.
StatAlone ==
    stat # "none" =>
        /\ \A e \in TimerEvents : e # mTimerEvent => object[e] = "none"
        /\ Adding("main", mTimerEvent) \/ object[mTimerEvent] = "none" =>
              call["loop"] = <<"none", None>>

\* Nothing leads back to a TimerEvent that destroy() deleted.
Ending == stat \in {"deleting", "waiting"}
DeletedIsOut ==
    \A e \in TimerEvents : object[e] = "deleted" /\ ~Ending =>
        stat = "none" /\ mEvent[e] = "null" /\ \A a \in Callers : ~Adding(a, e)

IInv == TypeInv /\ AddingAlone /\ Untouched /\ StatAlone /\ DeletedIsOut /\ NoFault
----------------------------------------------------------------------------
LEMMA TheTimerEvent == mTimerEvent \in TimerEvents
  BY SomeTimerEvent DEF mTimerEvent

\* The invariant holds at first.
LEMMA InitIInv == StatInit => IInv
<1> SUFFICES ASSUME StatInit PROVE IInv
  OBVIOUS
<1> USE NoneIsNoTimerEvent, TheTimerEvent DEF StatInit, Init, Callers
<1>1. TypeInv
  BY DEF TypeInv
<1>2. call["main"] = <<"user", None>> /\ call["loop"] = <<"none", None>>
  OBVIOUS
<1>3. \A a \in Callers, e \in TimerEvents : ~Adding(a, e)
  BY <1>2 DEF Adding, At
<1>4. AddingAlone /\ Untouched /\ StatAlone /\ DeletedIsOut /\ NoFault
  BY <1>2, <1>3 DEF AddingAlone, Untouched, StatAlone, DeletedIsOut, NoFault
<1> QED BY <1>1, <1>4 DEF IInv

\* The steps of a call that was made, on either thread.
LEMMA CallStepIInv ==
  ASSUME IInv, NEW a \in Callers, CallStep(a), UNCHANGED statVars
  PROVE  IInv'
<1> USE NoneIsNoTimerEvent, TheTimerEvent DEF Callers
<1> PICK e \in TimerEvents : evtimerAdd(a, e) \/ addDispatchJob(a, e) \/ restartJob(a, e)
  BY DEF CallStep
<1>1. CASE evtimerAdd(a, e)
  BY <1>1 DEF IInv, TypeInv, AddingAlone, Untouched, StatAlone, DeletedIsOut, Ending, NoFault,
     Adding, At, evtimerAdd, Goto, statVars
<1>2. CASE addDispatchJob(a, e)
  <2> USE DEF IInv, TypeInv, addDispatchJob, Return, Goto, statVars
  <2>1. TypeInv'
    BY <1>2
  <2>2. AddingAlone'
    BY <1>2 DEF AddingAlone, Adding, At, Untouched
  <2>3. Untouched'
    BY <1>2 DEF Untouched, AddingAlone, Adding, At
  <2>4. StatAlone'
    BY <1>2 DEF StatAlone, Adding, At, AddingAlone, Untouched
  <2>5. DeletedIsOut'
    BY <1>2 DEF DeletedIsOut, Ending, Adding, At, AddingAlone
  <2>6. NoFault'
    BY <1>2 DEF NoFault, DeletedIsOut, Ending, Adding, At
  <2> QED BY <2>1, <2>2, <2>3, <2>4, <2>5, <2>6
<1>3. CASE restartJob(a, e)
  BY <1>3 DEF IInv, TypeInv, AddingAlone, Untouched, StatAlone, DeletedIsOut, Ending, NoFault,
     Adding, At, restartJob, Goto, statVars
<1> QED BY <1>1, <1>2, <1>3

\* The thread and its loop, and the end of ~Timer().
LEMMA LoopStepIInv ==
  ASSUME IInv, LoopStep \/ deleted, UNCHANGED statVars
  PROVE  IInv'
<1> USE NoneIsNoTimerEvent, TheTimerEvent DEF Callers
<1>1. CASE getNextJob \/ loopReturns \/ sleep \/ wake
  BY <1>1 DEF IInv, TypeInv, AddingAlone, Untouched, StatAlone, DeletedIsOut, Ending, NoFault,
     Adding, At, getNextJob, loopReturns, sleep, wake, statVars
<1>2. CASE \E e \in TimerEvents : expire(e)
  BY <1>2 DEF IInv, TypeInv, AddingAlone, Untouched, StatAlone, DeletedIsOut, Ending, NoFault,
     Adding, At, expire, statVars
<1>3. CASE \E e \in TimerEvents : onEvTimer(e)
  <2> USE DEF IInv, TypeInv, onEvTimer, Goto, statVars
  <2>0. PICK e \in TimerEvents : onEvTimer(e)
    BY <1>3
  <2>1. TypeInv'
    BY <2>0
  <2>2. AddingAlone'
    BY <2>0 DEF AddingAlone, Adding, At, Untouched
  <2>3. Untouched'
    BY <2>0 DEF Untouched, AddingAlone, Adding, At
  <2>4. StatAlone'
    BY <2>0 DEF StatAlone, Adding, At, AddingAlone, Untouched
  <2>5. DeletedIsOut'
    BY <2>0 DEF DeletedIsOut, Ending, Adding, At, AddingAlone
  <2>6. NoFault'
    BY <2>0 DEF NoFault, DeletedIsOut, Ending, Adding, At
  <2> QED BY <2>1, <2>2, <2>3, <2>4, <2>5, <2>6
<1>4. CASE deleted
  BY <1>4 DEF IInv, TypeInv, AddingAlone, Untouched, StatAlone, DeletedIsOut, Ending, NoFault,
     Adding, At, deleted, Goto, statVars
<1> QED BY <1>1, <1>2, <1>3, <1>4 DEF LoopStep

\* What the user of a Timer of its own does.
LEMMA UserStepIInv ==
  ASSUME IInv, stat = "none", UserStep \/ CallbackReturns, UNCHANGED statVars
  PROVE  IInv'
<1> USE NoneIsNoTimerEvent, TheTimerEvent DEF Callers
<1>1. CASE \E a \in Callers, e \in TimerEvents : create(a, e)
  <2> USE DEF IInv, TypeInv, create, MayCall, Goto, statVars
  <2>0. PICK a \in Callers, e \in TimerEvents : create(a, e)
    BY <1>1
  <2>1. TypeInv'
    BY <2>0
  <2>2. AddingAlone'
    BY <2>0 DEF AddingAlone, Adding, At, Untouched
  <2>3. Untouched'
    BY <2>0 DEF Untouched, AddingAlone, Adding, At
  <2>4. StatAlone'
    BY <2>0 DEF StatAlone, Adding, At, AddingAlone, Untouched
  <2>5. DeletedIsOut'
    BY <2>0 DEF DeletedIsOut, Ending, Adding, At, AddingAlone
  <2>6. NoFault'
    BY <2>0 DEF NoFault, DeletedIsOut, Ending, Adding, At
  <2> QED BY <2>1, <2>2, <2>3, <2>4, <2>5, <2>6
<1>2. CASE \E a \in Callers, e \in TimerEvents : restart(a, e)
  <2> USE DEF IInv, TypeInv, restart, MayCall, removeEvent, Goto, statVars
  <2>0. PICK a \in Callers, e \in TimerEvents : restart(a, e)
    BY <1>2
  <2>1. TypeInv'
    BY <2>0
  <2>2. AddingAlone'
    BY <2>0 DEF AddingAlone, Adding, At, Untouched
  <2>3. Untouched'
    BY <2>0 DEF Untouched, AddingAlone, Adding, At
  <2>4. StatAlone'
    BY <2>0 DEF StatAlone, Adding, At, AddingAlone, Untouched
  <2>5. DeletedIsOut'
    BY <2>0 DEF DeletedIsOut, Ending, Adding, At, AddingAlone
  <2>6. NoFault'
    BY <2>0 DEF NoFault, DeletedIsOut, Ending, Adding, At
  <2> QED BY <2>1, <2>2, <2>3, <2>4, <2>5, <2>6
<1>3. CASE \E a \in Callers, e \in TimerEvents : destroy(a, e)
  <2> USE DEF IInv, TypeInv, destroy, MayCall, Return, Goto, statVars
  <2>0. PICK a \in Callers, e \in TimerEvents : destroy(a, e)
    BY <1>3
  <2>1. TypeInv'
    BY <2>0
  <2>2. AddingAlone'
    BY <2>0 DEF AddingAlone, Adding, At, Untouched
  <2>3. Untouched'
    BY <2>0 DEF Untouched, AddingAlone, Adding, At
  <2>4. StatAlone'
    BY <2>0 DEF StatAlone, Adding, At, AddingAlone, Untouched
  <2>5. DeletedIsOut'
    BY <2>0 DEF DeletedIsOut, Ending, Adding, At, AddingAlone
  <2>6. NoFault'
    BY <2>0 DEF NoFault, DeletedIsOut, Ending, Adding, At
  <2> QED BY <2>1, <2>2, <2>3, <2>4, <2>5, <2>6
<1>4. CASE deleteTimer
  BY <1>4 DEF IInv, TypeInv, AddingAlone, Untouched, StatAlone, DeletedIsOut, Ending, NoFault,
     Adding, At, deleteTimer, Goto, statVars
<1>5. CASE \E e \in TimerEvents : callbackReturns(e)
  <2> USE DEF IInv, TypeInv, callbackReturns, Goto, statVars
  <2>0. PICK e \in TimerEvents : callbackReturns(e)
    BY <1>5
  <2>1. TypeInv'
    BY <2>0
  <2>2. AddingAlone'
    BY <2>0 DEF AddingAlone, Adding, At, Untouched
  <2>3. Untouched'
    BY <2>0 DEF Untouched, AddingAlone, Adding, At
  <2>4. StatAlone'
    BY <2>0 DEF StatAlone, Adding, At, AddingAlone, Untouched
  <2>5. DeletedIsOut'
    BY <2>0 DEF DeletedIsOut, Ending, Adding, At, AddingAlone
  <2>6. NoFault'
    BY <2>0 DEF NoFault, DeletedIsOut, Ending, Adding, At
  <2> QED BY <2>1, <2>2, <2>3, <2>4, <2>5, <2>6
<1> QED BY <1>1, <1>2, <1>3, <1>4, <1>5 DEF UserStep, CallbackReturns

\* ProcStat's own steps.
LEMMA StatStepIInv ==
  ASSUME IInv,
         construct \/ getRSS \/ destructDeleteEvent \/ destructDeleteTimer \/ onTimerEvent
  PROVE  IInv'
<1> USE NoneIsNoTimerEvent, TheTimerEvent DEF Callers
<1>1. CASE construct
  BY <1>1 DEF IInv, TypeInv, AddingAlone, Untouched, StatAlone, DeletedIsOut, Ending, NoFault,
     Adding, At, construct, create, MayCall, Goto
<1>2. CASE getRSS \/ clear \/ stat2proc
  BY <1>2 DEF IInv, TypeInv, AddingAlone, Untouched, StatAlone, DeletedIsOut, Ending, NoFault,
     Adding, At, getRSS, clear, stat2proc, vars
<1>3. CASE destructDeleteEvent
  BY <1>3 DEF IInv, TypeInv, AddingAlone, Untouched, StatAlone, DeletedIsOut, Ending, NoFault,
     Adding, At, destructDeleteEvent
<1>4. CASE destructDeleteTimer
  BY <1>4 DEF IInv, TypeInv, AddingAlone, Untouched, StatAlone, DeletedIsOut, Ending, NoFault,
     Adding, At, destructDeleteTimer, deleteTimer, Goto
<1>5. CASE restartTimer
  <2> USE DEF IInv, TypeInv, restartTimer, removeEvent, InOnTimerEvent, Goto
  <2>1. TypeInv'
    BY <1>5
  <2>2. AddingAlone'
    BY <1>5 DEF AddingAlone, Adding, At, StatAlone
  <2>3. Untouched'
    BY <1>5 DEF Untouched
  <2>4. StatAlone'
    BY <1>5 DEF StatAlone, Adding, At, AddingAlone, Untouched
  <2>5. DeletedIsOut'
    BY <1>5 DEF DeletedIsOut, Ending, Adding, At, AddingAlone
  <2>6. NoFault'
    BY <1>5 DEF NoFault, DeletedIsOut, Ending, Adding, At
  <2> QED BY <2>1, <2>2, <2>3, <2>4, <2>5, <2>6
<1>6. CASE onTimerEventReturns
  BY <1>6 DEF IInv, TypeInv, AddingAlone, Untouched, StatAlone, DeletedIsOut, Ending, NoFault,
     Adding, At, onTimerEventReturns, callbackReturns, Goto
<1> QED BY <1>1, <1>2, <1>3, <1>4, <1>5, <1>6 DEF onTimerEvent

LEMMA NextIInv == IInv /\ [StatNext]_allVars => IInv'
<1> SUFFICES ASSUME IInv, [StatNext]_allVars PROVE IInv'
  OBVIOUS
<1>1. CASE UNCHANGED allVars
  BY <1>1 DEF IInv, TypeInv, AddingAlone, Untouched, StatAlone, DeletedIsOut, Ending, NoFault,
     Adding, At, allVars, vars, statVars
<1>2. CASE construct \/ getRSS \/ destructDeleteEvent \/ destructDeleteTimer \/ onTimerEvent
  BY <1>2, StatStepIInv
<1>3. CASE Loop \/ Deleted
  BY <1>3, LoopStepIInv DEF Loop, Deleted, SharedStep
<1>4. CASE \E a \in Callers : Called(a)
  BY <1>4, CallStepIInv DEF Called, SharedStep
<1>5. CASE Direct(Next)
  <2>1. stat = "none" /\ Next /\ UNCHANGED statVars
    BY <1>5 DEF Direct
  <2>2. CASE \E a \in Callers : CallStep(a)
    BY <2>1, <2>2, CallStepIInv
  <2>3. CASE UserStep \/ CallbackReturns
    BY <2>1, <2>3, UserStepIInv
  <2>4. CASE LoopStep \/ deleted
    BY <2>1, <2>4, LoopStepIInv
  <2> QED BY <2>1, <2>2, <2>3, <2>4 DEF Next
<1> QED BY <1>1, <1>2, <1>3, <1>4, <1>5 DEF StatNext

\* _onEvTimer() and restart() never meet a TimerEvent that was deleted, however the
\* main thread and the callbacks create, restart and destroy theirs; ~ProcStat()
\* alone brings that about (timer.cpp, proc-stat.cpp).
THEOREM TimerEventsOutliveTheirUse == StatSpec => []NoFault
<1>1. IInv => NoFault
  BY DEF IInv
<1> QED BY <1>1, InitIInv, NextIInv, PTL DEF StatSpec
----------------------------------------------------------------------------
(* What getRSS returns *)

\* Whoever gets the mutex finds a whole sample.
SampleInv ==
    /\ mMutex = "free" => proc \in Pages \cup {Unset}
    /\ WholeSample

LEMMA InitSample == StatInit => SampleInv
  BY DEF StatInit, SampleInv, WholeSample

LEMMA NextSample == SampleInv /\ [StatNext]_allVars => SampleInv'
<1> SUFFICES ASSUME SampleInv, [StatNext]_allVars PROVE SampleInv'
  OBVIOUS
<1>1. CASE UNCHANGED <<mMutex, proc, rss>>
  BY <1>1 DEF SampleInv, WholeSample
<1>2. CASE getRSS
  BY <1>2 DEF getRSS, SampleInv, WholeSample
<1>3. CASE clear \/ stat2proc
  BY <1>3 DEF clear, stat2proc, SampleInv, WholeSample
<1>4. CASE UNCHANGED allVars \/ construct \/ destructDeleteEvent \/ destructDeleteTimer
  BY <1>1, <1>4 DEF allVars, statVars, construct, destructDeleteEvent, destructDeleteTimer
<1>5. CASE restartTimer \/ onTimerEventReturns
  BY <1>1, <1>5 DEF restartTimer, onTimerEventReturns
<1>6. CASE Loop \/ Deleted \/ (\E a \in Callers : Called(a)) \/ Direct(Next)
  BY <1>1, <1>6 DEF Loop, Deleted, Called, Direct, SharedStep, statVars
<1> QED BY <1>2, <1>3, <1>4, <1>5, <1>6 DEF StatNext, onTimerEvent

\* getRSS never returns the zero of onTimerEvent's memset, whichever thread gets the
\* mutex first (proc-stat.cpp: onTimerEvent, getRSS): the first part of Sampling.
THEOREM SamplesAreWhole == StatSpec => []WholeSample
<1>1. SampleInv => WholeSample
  BY DEF SampleInv
<1> QED BY <1>1, InitSample, NextSample, PTL DEF StatSpec
----------------------------------------------------------------------------
(* The loop that ends whenever no timer is pending *)

\* A timer in the base has a loop that runs, a job in front of the queue that will
\* run it, or a main thread in create_() that is about to add that job.
TimersAreServed ==
    Pending # {} =>
        \/ thread \in {"awake", "asleep", "calling"}
        \/ call["main"][1] = "job"
        \/ thread = "idle" /\ mJobQueue # <<>> /\ Head(mJobQueue) = "dispatch"

Jobs == {"dispatch", "exit"}
HasExit(queue) == \E i \in 1 .. Len(queue) : queue[i] = "exit"

\* The exit job is the main thread's last, and a callback runs inside the loop.
ServiceInv ==
    /\ mJobQueue \in Seq(Jobs)
    /\ thread \in {"idle", "awake", "asleep", "calling", "left"}
    /\ thread # "calling" => call["loop"] = <<"none", None>>
    /\ thread = "left" \/ HasExit(mJobQueue) =>
          call["main"][1] \in {"wait", "gone"}
    /\ TimersAreServed

\* A dispatch job that is added leaves a queue that is not empty, the same job in
\* front, and no exit job that was not there.
LEMMA DispatchAdded ==
  ASSUME mJobQueue \in Seq(Jobs), addJob("dispatch")
  PROVE  /\ mJobQueue' \in Seq(Jobs) /\ mJobQueue' # <<>>
         /\ Head(mJobQueue') = (IF mJobQueue = <<>> THEN "dispatch" ELSE Head(mJobQueue))
         /\ HasExit(mJobQueue') => HasExit(mJobQueue)
<1>1. CASE Len(mJobQueue) >= MaxJobs
  BY <1>1, MaxJobsIsPositive DEF addJob, HasExit
<1>2. CASE ~(Len(mJobQueue) >= MaxJobs)
  <2>1. mJobQueue' = Append(mJobQueue, "dispatch") /\ "dispatch" \in Jobs
    BY <1>2 DEF addJob, Jobs
  <2>2. /\ mJobQueue' \in Seq(Jobs) /\ Len(mJobQueue') = Len(mJobQueue) + 1
        /\ \A i \in 1 .. Len(mJobQueue) : mJobQueue'[i] = mJobQueue[i]
        /\ mJobQueue'[Len(mJobQueue) + 1] = "dispatch"
    BY <2>1
  <2>3. HasExit(mJobQueue') => HasExit(mJobQueue)
    BY <2>2 DEF HasExit
  <2> QED BY <2>2, <2>3
<1> QED BY <1>1, <1>2

\* The exit job that is added leaves the job in front.
LEMMA ExitAdded ==
  ASSUME mJobQueue \in Seq(Jobs), addJob("exit")
  PROVE  /\ mJobQueue' \in Seq(Jobs)
         /\ mJobQueue # <<>> => mJobQueue' # <<>> /\ Head(mJobQueue') = Head(mJobQueue)
<1>1. mJobQueue' = Append(mJobQueue, "exit") /\ "exit" \in Jobs
  BY DEF addJob, Jobs
<1> QED BY <1>1

\* The job that is taken.
LEMMA JobTaken ==
  ASSUME mJobQueue \in Seq(Jobs), mJobQueue # <<>>
  PROVE  /\ Tail(mJobQueue) \in Seq(Jobs) /\ Head(mJobQueue) \in Jobs
         /\ Head(mJobQueue) = "exit" \/ HasExit(Tail(mJobQueue)) => HasExit(mJobQueue)
<1>1. /\ Tail(mJobQueue) \in Seq(Jobs) /\ Head(mJobQueue) = mJobQueue[1]
      /\ Len(mJobQueue) \in Nat \ {0} /\ Len(Tail(mJobQueue)) = Len(mJobQueue) - 1
      /\ \A i \in 1 .. Len(mJobQueue) - 1 : Tail(mJobQueue)[i] = mJobQueue[i + 1]
      /\ mJobQueue[1] \in Jobs
  OBVIOUS
<1>2. HasExit(Tail(mJobQueue)) => HasExit(mJobQueue)
  BY <1>1 DEF HasExit
<1> QED BY <1>1, <1>2 DEF HasExit

LEMMA InitService == StatInit => ServiceInv
  BY DEF StatInit, Init, ServiceInv, TimersAreServed, Pending, Callers, HasExit, Jobs

\* The steps of a call: create_() adds the event first and the job next, on the
\* thread of the loop while the loop runs.
LEMMA CallStepService ==
  ASSUME IInv, ServiceInv, NEW a \in Callers, CallStep(a)
  PROVE  ServiceInv'
<1> USE DEF Callers
<1> PICK e \in TimerEvents : evtimerAdd(a, e) \/ addDispatchJob(a, e) \/ restartJob(a, e)
  BY DEF CallStep
<1>0. /\ call = [b \in Callers |-> call[b]]
      /\ a = "loop" => thread = "calling" \/ call["loop"] = <<"none", None>>
      /\ (~HasExit(mJobQueue) /\ thread # "left") \/ call["main"][1] \in {"wait", "gone"}
  BY DEF IInv, TypeInv, ServiceInv
<1>1. CASE evtimerAdd(a, e)
  <2>1. CASE a = "loop"
    BY <1>0, <1>1, <2>1 DEF evtimerAdd, Goto, At, ServiceInv, TimersAreServed, HasExit, Jobs
  <2>2. CASE a = "main"
    BY <1>0, <1>1, <2>2 DEF evtimerAdd, Goto, At, ServiceInv, TimersAreServed, HasExit, Jobs
  <2> QED BY <2>1, <2>2
<1>2. CASE addDispatchJob(a, e) \/ restartJob(a, e)
  <2>1. /\ addJob("dispatch") /\ thread' = thread /\ mEvent' = mEvent
        /\ call[a][1] \in {"job", "restartJob"} /\ call'[a][1] \in {"user", "add"}
        /\ \A b \in Callers : b # a => call'[b] = call[b]
    BY <1>0, <1>2 DEF addDispatchJob, restartJob, At, Goto, Return
  <2>2. /\ mJobQueue' \in Seq(Jobs) /\ mJobQueue' # <<>>
        /\ Head(mJobQueue') = (IF mJobQueue = <<>> THEN "dispatch" ELSE Head(mJobQueue))
        /\ HasExit(mJobQueue') => HasExit(mJobQueue)
    BY <2>1, DispatchAdded DEF ServiceInv
  <2>3. Pending' = Pending
    BY <2>1 DEF Pending
  <2>4. CASE a = "loop"
    <3>1. thread = "calling"
      BY <2>1, <2>4 DEF ServiceInv
    <3> QED BY <2>1, <2>2, <2>4, <3>1 DEF ServiceInv, TimersAreServed, HasExit, Jobs
  <2>5. CASE a = "main"
    <3>1. thread # "left" /\ ~HasExit(mJobQueue)
      BY <2>1, <2>5, <1>0
    <3>2. mJobQueue # <<>> => Head(mJobQueue) = "dispatch"
      <4> HAVE mJobQueue # <<>>
      <4>1. mJobQueue \in Seq(Jobs)
        BY DEF ServiceInv, Jobs
      <4> QED BY <4>1, <3>1, JobTaken DEF Jobs
    <3>3. Head(mJobQueue') = "dispatch"
      BY <2>2, <3>2
    <3>4. thread' \in {"idle", "awake", "asleep", "calling"}
      BY <2>1, <3>1 DEF ServiceInv
    <3>5. TimersAreServed'
      BY <2>2, <3>3, <3>4 DEF TimersAreServed
    <3>6. call'["loop"] = call["loop"]
      BY <2>1, <2>5
    <3> QED BY <2>1, <2>2, <3>1, <3>4, <3>5, <3>6 DEF ServiceInv, HasExit, Jobs
  <2> QED BY <2>4, <2>5
<1> QED BY <1>1, <1>2

\* The thread leaves the loop only when no timer is pending, and takes the exit job
\* only then.
LEMMA LoopStepService ==
  ASSUME IInv, ServiceInv, LoopStep \/ deleted
  PROVE  ServiceInv'
<1> USE DEF Callers
<1>0. call = [b \in Callers |-> call[b]]
  BY DEF IInv, TypeInv
<1>1. CASE getNextJob
  <2>1. /\ Tail(mJobQueue) \in Seq(Jobs) /\ Head(mJobQueue) \in Jobs
        /\ Head(mJobQueue) = "exit" \/ HasExit(Tail(mJobQueue)) => HasExit(mJobQueue)
    BY <1>1, JobTaken DEF getNextJob, ServiceInv
  <2>2. Pending' = Pending /\ call' = call /\ mJobQueue' = Tail(mJobQueue)
    BY <1>1 DEF getNextJob, Pending
  <2>3. CASE Head(mJobQueue) = "exit"
    <3>1. call["main"][1] \in {"wait", "gone"} /\ Pending = {}
      BY <1>1, <2>1, <2>3 DEF ServiceInv, TimersAreServed, getNextJob
    <3> QED BY <1>1, <2>1, <2>2, <2>3, <3>1 DEF ServiceInv, TimersAreServed, getNextJob
  <2>4. CASE Head(mJobQueue) # "exit"
    BY <1>1, <2>1, <2>2, <2>4 DEF ServiceInv, TimersAreServed, getNextJob
  <2> QED BY <2>3, <2>4
<1>2. CASE loopReturns
  <2>1. Pending' = {}
    BY <1>2 DEF loopReturns, Pending
  <2> QED BY <1>2, <2>1 DEF ServiceInv, TimersAreServed, loopReturns
<1>3. CASE sleep \/ wake \/ \E e \in TimerEvents : expire(e)
  BY <1>3 DEF ServiceInv, TimersAreServed, sleep, wake, expire
<1>4. CASE \E e \in TimerEvents : onEvTimer(e)
  <2>1. call'["main"] = call["main"] /\ thread' = "calling" /\ thread = "awake"
        /\ mJobQueue' = mJobQueue
    BY <1>0, <1>4 DEF onEvTimer, Goto
  <2> QED BY <2>1 DEF ServiceInv, TimersAreServed
<1>5. CASE deleted
  <2>1. /\ call'["loop"] = call["loop"] /\ call'["main"][1] = "gone"
        /\ call["main"][1] = "wait" /\ thread' = thread /\ mJobQueue' = mJobQueue
    BY <1>0, <1>5 DEF deleted, Goto, At
  <2>2. Pending' = Pending
    BY <1>5 DEF deleted, Pending
  <2> QED BY <2>1, <2>2 DEF ServiceInv, TimersAreServed
<1> QED BY <1>1, <1>2, <1>3, <1>4, <1>5 DEF LoopStep

\* Calls that take events out of the base, or leave them there.
LEMMA NothingNewService ==
  ASSUME ServiceInv, Pending' \subseteq Pending, NEW a \in Callers,
         call = [b \in Callers |-> call[b]], call[a][1] \notin {"none", "job", "wait", "gone"},
         \A b \in Callers : b # a => call'[b] = call[b],
         UNCHANGED <<thread, mJobQueue>>
  PROVE  ServiceInv'
<1> USE DEF Callers
<1>1. CASE a = "main"
  BY <1>1 DEF ServiceInv, TimersAreServed
<1>2. CASE a = "loop"
  BY <1>2 DEF ServiceInv, TimersAreServed
<1> QED BY <1>1, <1>2

\* ~Timer()'s exit job comes last.
LEMMA DeleteTimerService ==
  ASSUME IInv, ServiceInv, deleteTimer
  PROVE  ServiceInv'
<1> USE DEF Callers
<1>1. /\ call["main"][1] = "user" /\ call'["main"][1] = "wait" /\ call'["loop"] = call["loop"]
      /\ thread' = thread
  BY DEF deleteTimer, At, Goto, IInv, TypeInv
<1>2. Pending' = Pending
  BY DEF deleteTimer, Pending
<1>3. /\ mJobQueue' \in Seq(Jobs)
      /\ mJobQueue # <<>> => mJobQueue' # <<>> /\ Head(mJobQueue') = Head(mJobQueue)
  BY ExitAdded DEF deleteTimer, ServiceInv
<1>4. TimersAreServed'
  BY <1>1, <1>2, <1>3 DEF ServiceInv, TimersAreServed
<1> QED BY <1>1, <1>3, <1>4 DEF ServiceInv

LEMMA UserStepService ==
  ASSUME IInv, ServiceInv, UserStep \/ CallbackReturns
  PROVE  ServiceInv'
<1> USE DEF Callers
<1>0. call = [b \in Callers |-> call[b]] /\ mEvent = [e \in TimerEvents |-> mEvent[e]]
  BY DEF IInv, TypeInv
<1>1. CASE \E a \in Callers, e \in TimerEvents : create(a, e)
  <2>0. PICK a \in Callers, e \in TimerEvents : create(a, e)
    BY <1>1
  <2>1. Pending' = Pending
    BY <2>0 DEF create, Pending
  <2>2. /\ call[a][1] = "user" /\ UNCHANGED <<thread, mJobQueue>>
        /\ \A b \in Callers : b # a => call'[b] = call[b]
    BY <1>0, <2>0 DEF create, MayCall, Goto
  <2> QED BY <1>0, <2>1, <2>2, NothingNewService
<1>2. CASE \E a \in Callers, e \in TimerEvents : restart(a, e) \/ destroy(a, e)
  <2>0. PICK a \in Callers, e \in TimerEvents : restart(a, e) \/ destroy(a, e)
    BY <1>2
  <2>1. Pending' \subseteq Pending
    BY <1>0, <2>0 DEF restart, removeEvent, destroy, Pending
  <2>2. /\ call[a][1] = "user" /\ UNCHANGED <<thread, mJobQueue>>
        /\ \A b \in Callers : b # a => call'[b] = call[b]
    BY <1>0, <2>0 DEF restart, removeEvent, destroy, MayCall, At, Return, Goto
  <2> QED BY <1>0, <2>1, <2>2, NothingNewService
<1>3. CASE deleteTimer
  BY <1>3, DeleteTimerService
<1>4. CASE \E e \in TimerEvents : callbackReturns(e)
  BY <1>0, <1>4 DEF callbackReturns, At, Goto, ServiceInv, TimersAreServed
<1> QED BY <1>1, <1>2, <1>3, <1>4 DEF UserStep, CallbackReturns

LEMMA StatStepService ==
  ASSUME IInv, ServiceInv,
         construct \/ getRSS \/ destructDeleteEvent \/ destructDeleteTimer \/ onTimerEvent
  PROVE  ServiceInv'
<1> USE TheTimerEvent DEF Callers
<1>0. call = [b \in Callers |-> call[b]] /\ mEvent = [e \in TimerEvents |-> mEvent[e]]
  BY DEF IInv, TypeInv
<1>1. CASE construct
  BY <1>1, UserStepService DEF construct, UserStep
<1>2. CASE getRSS \/ clear \/ stat2proc \/ destructDeleteEvent
  BY <1>2 DEF getRSS, clear, stat2proc, destructDeleteEvent, vars, ServiceInv,
     TimersAreServed, Pending
<1>3. CASE destructDeleteTimer
  BY <1>3, DeleteTimerService DEF destructDeleteTimer
<1>4. CASE restartTimer
  <2>1. Pending' \subseteq Pending
    BY <1>0, <1>4 DEF restartTimer, removeEvent, Pending
  <2>2. /\ call["loop"][1] = "user" /\ UNCHANGED <<thread, mJobQueue>>
        /\ \A b \in Callers : b # "loop" => call'[b] = call[b]
    BY <1>0, <1>4 DEF restartTimer, InOnTimerEvent, removeEvent, At, Goto
  <2> QED BY <1>0, <2>1, <2>2, NothingNewService
<1>5. CASE onTimerEventReturns
  BY <1>5, UserStepService DEF onTimerEventReturns, CallbackReturns
<1> QED BY <1>1, <1>2, <1>3, <1>4, <1>5 DEF onTimerEvent

LEMMA NextService == IInv /\ ServiceInv /\ [StatNext]_allVars => ServiceInv'
<1> SUFFICES ASSUME IInv, ServiceInv, [StatNext]_allVars PROVE ServiceInv'
  OBVIOUS
<1>1. CASE UNCHANGED allVars
  BY <1>1 DEF allVars, vars, ServiceInv, TimersAreServed, Pending
<1>2. CASE construct \/ getRSS \/ destructDeleteEvent \/ destructDeleteTimer \/ onTimerEvent
  BY <1>2, StatStepService
<1>3. CASE Loop \/ Deleted
  BY <1>3, LoopStepService DEF Loop, Deleted, SharedStep
<1>4. CASE \E a \in Callers : Called(a)
  BY <1>4, CallStepService DEF Called, SharedStep
<1>5. CASE Direct(Next)
  BY <1>5, CallStepService, UserStepService, LoopStepService DEF Direct, Next
<1> QED BY <1>1, <1>2, <1>3, <1>4, <1>5 DEF StatNext

\* No timer is forgotten by a loop that ends whenever none is pending: one that is
\* added from another thread as the loop ends, or by a callback behind the exit job,
\* has a loop or a job of its own (timer.cpp: create_, restart, _timerRoutine).  This
\* is the safety behind TimersFire.
THEOREM NoTimerIsForgotten == StatSpec => []TimersAreServed
<1>1. ServiceInv => TimersAreServed
  BY DEF ServiceInv
<1> QED BY <1>1, InitIInv, NextIInv, InitService, NextService, PTL DEF StatSpec
=============================================================================
