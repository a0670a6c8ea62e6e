-------------------------- MODULE ThreadPoolProofs --------------------------
(***************************************************************************)
(* The safety of ThreadPool.tla for any number of threads and any finite   *)
(* set of jobs.  IInv, below, is inductive relative to TypeOK; it ties the *)
(* permits and the handle of each thread to the places where the owner and *)
(* the thread are, and the exit jobs to their order in the queue.          *)
(***************************************************************************)
EXTENDS ThreadPool, FiniteSetTheorems, TLAPS
-----------------------------------------------------------------------------
(* The inductive invariant *)

Constructing == opc \in {"new", "assign", "startwait"}
AllExitsAdded == opc \in {"delwait", "delfree", "destroyed"}

\* How far the owner has come with thread t.
NotCreated(t) == Constructing /\ (t > idx \/ (t = idx /\ opc = "new"))
Assigned(t)   == Constructing => t < idx \/ (t = idx /\ opc = "startwait")
HasStarted(t) == Constructing => t < idx
Joined(t) == \/ opc = "delwait" /\ t < idx
             \/ opc = "delfree" /\ t <= idx
             \/ opc = "destroyed"
Freed(t)  == (opc \in {"delwait", "delfree"} /\ t < idx) \/ opc = "destroyed"

\* The permits, the handle and the base of a thread follow from where the
\* owner and the thread are.
Permits(t) ==
    (IF tpc[t] \in {"none", "starting", "s_notify"} \/ HasStarted(t) THEN 0 ELSE 1)
  + (IF tpc[t] \in {"e_unlock", "gone"} /\ ~Joined(t) THEN 1 ELSE 0)

Handle(t) ==
    IF ~Assigned(t) THEN "null"
    ELSE IF Freed(t) THEN "deleted"
    ELSE IF tpc[t] \in {"e_notify", "e_unlock", "gone"} THEN "detached" ELSE "joinable"

ThreadLife(t) ==
    /\ tpc[t] = "none" <=> NotCreated(t)
    /\ tpc[t] \in {"none", "starting", "s_notify", "s_unlock"} => ~HasStarted(t)
    /\ tpc[t] \in {"running"} \cup Exiting => ~Constructing
    /\ Joined(t) => tpc[t] = "gone"
    /\ mSemaphore[t] = Permits(t)
    /\ mThread[t] = Handle(t)
    /\ mEventBase[t] =
          IF mBase /\ tpc[t] \in {"s_notify", "s_unlock", "loop", "waiting",
                                  "running", "leaving"}
          THEN "live" ELSE "NULL"

LifeInv ==
    /\ Constructing => mJobQueue = <<>>
    /\ \A t \in Threads : ThreadLife(t)

\* What a thread holds, which exit jobs exist, and the order of the queue:
\* late jobs at its end, and an exit job behind every other one.
HeldInv ==
    \A t \in Threads :
        /\ tpc[t] = "running" => job[t] \in Jobs
        /\ tpc[t] \in Exiting => job[t] \in ExitJobs
        /\ tpc[t] \notin {"running"} \cup Exiting => job[t] = NoJob

ExitAdded(e) == AllExitsAdded \/ (opc = "exitjob" /\ e < idx)

ExitInv ==
    /\ opc = "open" => idx = 1
    /\ \A e \in ExitJobs :
          ExitAdded(e) <=> e \in Queued \/ \E t \in Threads : job[t] = e

LateInv ==
    /\ late # {} => AllExitsAdded
    /\ late \subseteq Queued
    /\ \A k, m \in DOMAIN mJobQueue :
          mJobQueue[k] \in late /\ mJobQueue[m] \notin late => m < k
    /\ AllExitsAdded =>
          \A k \in DOMAIN mJobQueue : mJobQueue[k] \notin late =>
              \E m \in DOMAIN mJobQueue : m >= k /\ mJobQueue[m] \in ExitJobs

IInv == LifeInv /\ HeldInv /\ JobInOnePlace /\ ExitInv /\ LateInv
-----------------------------------------------------------------------------
(* Facts about the queue *)

\* What push_back does to a queue.
LEMMA AppendFacts ==
    ASSUME NEW S, NEW q \in Seq(S), NEW x \in S
    PROVE  /\ Append(q, x) \in Seq(S)
           /\ Len(q) \in Nat /\ Len(Append(q, x)) = Len(q) + 1
           /\ DOMAIN q = 1 .. Len(q) /\ DOMAIN Append(q, x) = 1 .. Len(q) + 1
           /\ \A k \in 1 .. Len(q) : Append(q, x)[k] = q[k]
           /\ Append(q, x)[Len(q) + 1] = x
  OBVIOUS

\* What at(0) and pop_front do to a queue that is not empty.
LEMMA TailFacts ==
    ASSUME NEW S, NEW q \in Seq(S), q # <<>>
    PROVE  /\ Tail(q) \in Seq(S)
           /\ Len(q) \in Nat /\ Len(q) >= 1 /\ Len(Tail(q)) = Len(q) - 1
           /\ DOMAIN q = 1 .. Len(q) /\ DOMAIN Tail(q) = 1 .. Len(q) - 1
           /\ \A k \in 1 .. Len(q) - 1 : Tail(q)[k] = q[k + 1]
           /\ Head(q) = q[1] /\ Head(q) \in S
  OBVIOUS
-----------------------------------------------------------------------------
(* Type correctness *)

\* The constructor starts from a well-typed state.
LEMMA InitType == Init => TypeOK
  BY CountIsPositive DEF Init, TypeOK, Threads, OwnerLabels, ThreadLabels, HandleStates

\* The owner's loop index stays among the threads.
LEMMA IndexFacts ==
    ASSUME idx \in Threads, NEW a, NEW b, NextIndex(a, b)
    PROVE  idx' \in Threads /\ opc' \in {a, b}
  BY CountIsPositive DEF NextIndex, Threads

\* The queue and the threads after addJob.
LEMMA PushBackFacts ==
    ASSUME TypeOK, NEW j \in Jobs \cup ExitJobs, PushBack(j)
    PROVE  mJobQueue' \in Seq(Jobs \cup ExitJobs) /\ tpc' \in [Threads -> ThreadLabels]
  BY AppendFacts DEF PushBack, Waiting, TypeOK, ThreadLabels

\* Every step of the owner, of a thread, of a client and of a job is well typed.
LEMMA NextType == TypeOK /\ HeldInv /\ [Next]_vars => TypeOK'
<1> SUFFICES ASSUME TypeOK, HeldInv, [Next]_vars PROVE TypeOK'
  OBVIOUS
<1> USE DEF TypeOK, Goto, ownerVars, threadVars
<1>1. CASE UNCHANGED vars
  BY <1>1 DEF vars
<1>2. CASE CreateThread
  BY <1>2 DEF CreateThread, OwnerLabels, ThreadLabels
<1>3. CASE AssignHandle
  BY <1>3 DEF AssignHandle, OwnerLabels, HandleStates
<1>4. CASE StartWait
  BY <1>4, IndexFacts DEF StartWait, Wait, OwnerLabels
<1>5. CASE Destroy
  BY <1>5 DEF Destroy, OwnerLabels
<1>6. CASE AddExitJob
  BY <1>6, IndexFacts, PushBackFacts DEF AddExitJob, OwnerLabels, Threads, ExitJobs
<1>7. CASE DeleteWait
  BY <1>7 DEF DeleteWait, Wait, OwnerLabels
<1>8. CASE DeleteThread
  BY <1>8, IndexFacts DEF DeleteThread, OwnerLabels, HandleStates
<1>9. ASSUME NEW j \in Jobs, ClientAddJob(j) PROVE TypeOK'
  BY <1>9, PushBackFacts DEF ClientAddJob
<1>10. ASSUME NEW t \in Threads PROVE
          /\ ThreadInit(t) => TypeOK'
          /\ NotifyStart(t) => TypeOK'
          /\ NotifyStartReturn(t) => TypeOK'
  <2>1. ThreadInit(t) => TypeOK'
    BY DEF ThreadInit, ThreadLabels
  <2>2. NotifyStart(t) => TypeOK'
    BY DEF NotifyStart, ThreadLabels
  <2>3. NotifyStartReturn(t) => TypeOK'
    BY DEF NotifyStartReturn, ThreadLabels
  <2> QED BY <2>1, <2>2, <2>3
<1>11. ASSUME NEW t \in Threads PROVE
          /\ GetNextJob(t) => TypeOK'
          /\ ConditionWait(t) => TypeOK'
          /\ SpuriousWakeup(t) => TypeOK'
          /\ FinishJob(t) => TypeOK'
          /\ \A j \in Jobs : JobAddJob(t, j) => TypeOK'
  <2>1. GetNextJob(t) => TypeOK'
    BY TailFacts DEF GetNextJob, ThreadLabels
  <2>2. ConditionWait(t) => TypeOK'
    BY DEF ConditionWait, ThreadLabels
  <2>3. SpuriousWakeup(t) => TypeOK'
    BY DEF SpuriousWakeup, ThreadLabels
  <2>4. FinishJob(t) => TypeOK'
    BY DEF FinishJob, ThreadLabels, HeldInv
  <2>5. \A j \in Jobs : JobAddJob(t, j) => TypeOK'
    BY PushBackFacts DEF JobAddJob
  <2> QED BY <2>1, <2>2, <2>3, <2>4, <2>5
<1>12. ASSUME NEW t \in Threads PROVE
          /\ ThreadDeInit(t) => TypeOK'
          /\ Detach(t) => TypeOK'
          /\ NotifyExit(t) => TypeOK'
          /\ NotifyExitReturn(t) => TypeOK'
  <2>1. ThreadDeInit(t) => TypeOK'
    BY DEF ThreadDeInit, ThreadLabels
  <2>2. Detach(t) => TypeOK'
    BY DEF Detach, ThreadLabels, HandleStates
  <2>3. NotifyExit(t) => TypeOK'
    BY DEF NotifyExit, ThreadLabels
  <2>4. NotifyExitReturn(t) => TypeOK'
    BY DEF NotifyExitReturn, ThreadLabels
  <2> QED BY <2>1, <2>2, <2>3, <2>4
<1> QED
  BY <1>1, <1>2, <1>3, <1>4, <1>5, <1>6, <1>7, <1>8, <1>9, <1>10, <1>11, <1>12
  DEF Next, OwnerStep, ThreadStep
-----------------------------------------------------------------------------
(* The life of the threads *)

\* Nothing has been created yet.
LEMMA InitLife == Init => LifeInv
  BY CountIsPositive
  DEF Init, LifeInv, ThreadLife, Constructing, NotCreated, Assigned, HasStarted, Joined, Freed,
      Permits, Handle, Exiting, Threads

\* addJob leaves the life of every thread alone: a woken thread is still in
\* threadGetNextJob_.
LEMMA PushBackLife ==
    ASSUME TypeOK, LifeInv, NEW j, PushBack(j), ~Constructing, ~Constructing',
           UNCHANGED <<mThread, mSemaphore, mEventBase>>, NEW t \in Threads,
           Joined(t)' = Joined(t), Freed(t)' = Freed(t)
    PROVE  ThreadLife(t)'
  BY DEF PushBack, Waiting, LifeInv, ThreadLife, TypeOK, Constructing, NotCreated, Assigned,
     HasStarted, Permits, Handle, Exiting

\* The owner creates, starts, waits for and deletes the threads in order, and
\* each thread notifies twice.
LEMMA NextLife == TypeOK /\ TypeOK' /\ LifeInv /\ [Next]_vars => LifeInv'
<1> SUFFICES ASSUME TypeOK, TypeOK', LifeInv, [Next]_vars PROVE LifeInv'
  OBVIOUS
<1>q. ASSUME NEW t \in Threads PROVE t \in Int /\ idx \in Int /\ idx' \in Int /\ uiCount \in Int
                                     /\ t >= 1 /\ t <= uiCount
  BY CountIsPositive DEF Threads, TypeOK
<1> USE DEF ownerVars, threadVars
<1>1. CASE UNCHANGED vars
  BY <1>1 DEF vars, LifeInv, ThreadLife, Constructing, NotCreated, Assigned, HasStarted, Joined, Freed,
     Permits, Handle
<1>2. CASE CreateThread
  BY <1>2, <1>q DEF LifeInv, CreateThread, Goto, TypeOK, ThreadLife, Constructing,
     NotCreated, Assigned, HasStarted, Joined, Freed, Permits, Handle, Exiting
<1>3. CASE AssignHandle
  BY <1>3, <1>q DEF LifeInv, AssignHandle, TypeOK, ThreadLife, Constructing,
     NotCreated, Assigned, HasStarted, Joined, Freed, Permits, Handle, Exiting
<1>4. CASE StartWait
  BY <1>4, <1>q DEF LifeInv, StartWait, Wait, NextIndex, TypeOK, ThreadLife, Constructing,
     NotCreated, Assigned, HasStarted, Joined, Freed, Permits, Handle, Exiting
<1>5. CASE Destroy
  BY <1>5, <1>q DEF LifeInv, Destroy, TypeOK, ThreadLife, Constructing,
     NotCreated, Assigned, HasStarted, Joined, Freed, Permits, Handle, Exiting
<1>6. CASE AddExitJob
  <2>1. ~Constructing /\ ~Constructing'
    BY <1>6 DEF AddExitJob, NextIndex, Constructing
  <2>2. ASSUME NEW t \in Threads PROVE Joined(t)' = Joined(t) /\ Freed(t)' = Freed(t)
    BY <1>6, <1>q DEF AddExitJob, NextIndex, Joined, Freed
  <2> QED
    BY <1>6, <2>1, <2>2, PushBackLife DEF LifeInv, AddExitJob
<1>7. CASE DeleteWait
  BY <1>7, <1>q DEF LifeInv, DeleteWait, Wait, TypeOK, ThreadLife, Constructing,
     NotCreated, Assigned, HasStarted, Joined, Freed, Permits, Handle, Exiting
<1>8. CASE DeleteThread
  BY <1>8, <1>q DEF LifeInv, DeleteThread, NextIndex, TypeOK, ThreadLife, Constructing,
     NotCreated, Assigned, HasStarted, Joined, Freed, Permits, Handle, Exiting
<1>9. ASSUME NEW j \in Jobs, ClientAddJob(j) PROVE LifeInv'
  <2>1. ~Constructing /\ ~Constructing'
    BY <1>9 DEF ClientAddJob, Constructing
  <2>2. ASSUME NEW t \in Threads PROVE Joined(t)' = Joined(t) /\ Freed(t)' = Freed(t)
    BY <1>9 DEF ClientAddJob, Joined, Freed
  <2> QED
    BY <1>9, <2>1, <2>2, PushBackLife DEF LifeInv, ClientAddJob
<1>10. ASSUME NEW u \in Threads, NEW j \in Jobs, JobAddJob(u, j) PROVE LifeInv'
  <2>1. ~Constructing /\ ~Constructing'
    BY <1>10 DEF JobAddJob, Constructing, LifeInv, ThreadLife
  <2>2. ASSUME NEW t \in Threads PROVE Joined(t)' = Joined(t) /\ Freed(t)' = Freed(t)
    BY <1>10 DEF JobAddJob, Joined, Freed
  <2> QED
    BY <1>10, <2>1, <2>2, PushBackLife DEF LifeInv, JobAddJob
<1>11. ASSUME NEW u \in Threads PROVE
          /\ ThreadInit(u) => LifeInv'
          /\ NotifyStart(u) => LifeInv'
          /\ NotifyStartReturn(u) => LifeInv'
  <2> USE <1>q DEF LifeInv, Goto, TypeOK, ThreadLife, Constructing,
          NotCreated, Assigned, HasStarted, Joined, Freed, Permits, Handle, Exiting
  <2>1. ThreadInit(u) => LifeInv'
    BY BaseIsBoolean DEF ThreadInit
  <2>2. NotifyStart(u) => LifeInv'
    BY DEF NotifyStart
  <2>3. NotifyStartReturn(u) => LifeInv'
    BY DEF NotifyStartReturn
  <2> QED BY <2>1, <2>2, <2>3
<1>12. ASSUME NEW u \in Threads PROVE
          /\ GetNextJob(u) => LifeInv'
          /\ ConditionWait(u) => LifeInv'
          /\ SpuriousWakeup(u) => LifeInv'
          /\ FinishJob(u) => LifeInv'
  <2> USE <1>q DEF LifeInv, Goto, TypeOK, ThreadLife, Constructing,
          NotCreated, Assigned, HasStarted, Joined, Freed, Permits, Handle, Exiting
  <2>1. GetNextJob(u) => LifeInv'
    BY DEF GetNextJob
  <2>2. ConditionWait(u) => LifeInv'
    BY DEF ConditionWait
  <2>3. SpuriousWakeup(u) => LifeInv'
    BY DEF SpuriousWakeup
  <2>4. FinishJob(u) => LifeInv'
    BY DEF FinishJob
  <2> QED BY <2>1, <2>2, <2>3, <2>4
<1>13. ASSUME NEW u \in Threads PROVE
          /\ ThreadDeInit(u) => LifeInv'
          /\ Detach(u) => LifeInv'
          /\ NotifyExit(u) => LifeInv'
          /\ NotifyExitReturn(u) => LifeInv'
  <2> USE <1>q DEF LifeInv, Goto, TypeOK, ThreadLife, Constructing,
          NotCreated, Assigned, HasStarted, Joined, Freed, Permits, Handle, Exiting
  <2>1. ThreadDeInit(u) => LifeInv'
    BY DEF ThreadDeInit
  <2>2. Detach(u) => LifeInv'
    BY DEF Detach
  <2>3. NotifyExit(u) => LifeInv'
    BY DEF NotifyExit
  <2>4. NotifyExitReturn(u) => LifeInv'
    BY DEF NotifyExitReturn
  <2> QED BY <2>1, <2>2, <2>3, <2>4
<1> QED
  BY <1>1, <1>2, <1>3, <1>4, <1>5, <1>6, <1>7, <1>8, <1>9, <1>10, <1>11, <1>12, <1>13
  DEF Next, OwnerStep, ThreadStep
-----------------------------------------------------------------------------
(* The jobs *)

\* Membership in the queue and in the set of running jobs.
LEMMA SetFacts ==
    /\ \A x : x \in Queued <=> \E k \in DOMAIN mJobQueue : mJobQueue[k] = x
    /\ \A x : x \in Running <=> \E t \in Threads : tpc[t] = "running" /\ job[t] = x
  BY DEF Queued, Running

\* The queue is finite and holds jobs and exit jobs.
LEMMA QueueFacts ==
    ASSUME TypeOK
    PROVE  /\ DOMAIN mJobQueue = 1 .. Len(mJobQueue) /\ Len(mJobQueue) \in Nat
           /\ Queued \subseteq Jobs \cup ExitJobs
<1>1. /\ DOMAIN mJobQueue = 1 .. Len(mJobQueue) /\ Len(mJobQueue) \in Nat
      /\ \A k \in 1 .. Len(mJobQueue) : mJobQueue[k] \in Jobs \cup ExitJobs
  BY DEF TypeOK
<1> QED
  BY <1>1 DEF Queued

\* addJob adds one job to the queue and leaves every thread with its job.
LEMMA PushBackJobs ==
    ASSUME TypeOK, NEW j \in Jobs \cup ExitJobs, PushBack(j)
    PROVE  /\ Queued' = Queued \cup {j}
           /\ \A t \in Threads : tpc'[t] = tpc[t] \/ (tpc[t] = "waiting" /\ tpc'[t] = "loop")
<1>1. Queued' = Queued \cup {j}
  <2>1. mJobQueue \in Seq(Jobs \cup ExitJobs) /\ mJobQueue' = Append(mJobQueue, j)
    BY DEF TypeOK, PushBack
  <2>2. /\ DOMAIN mJobQueue = 1 .. Len(mJobQueue) /\ Len(mJobQueue) \in Nat
        /\ DOMAIN mJobQueue' = 1 .. Len(mJobQueue) + 1
        /\ mJobQueue'[Len(mJobQueue) + 1] = j
        /\ \A n \in 1 .. Len(mJobQueue) : mJobQueue'[n] = mJobQueue[n]
    BY <2>1, AppendFacts
  <2>3. \A n \in 1 .. Len(mJobQueue) : n \in 1 .. Len(mJobQueue) + 1
    BY <2>2
  <2>4. \A n \in 1 .. Len(mJobQueue) + 1 : n \in 1 .. Len(mJobQueue) \/ n = Len(mJobQueue) + 1
    BY <2>2
  <2>5. Len(mJobQueue) + 1 \in 1 .. Len(mJobQueue) + 1
    BY <2>2
  <2> QED
    BY <2>2, <2>3, <2>4, <2>5 DEF Queued
<1>2. \A t \in Threads : tpc'[t] = tpc[t] \/ (tpc[t] = "waiting" /\ tpc'[t] = "loop")
  BY DEF PushBack, Waiting, TypeOK
<1> QED BY <1>1, <1>2

\* Taking the first job takes it out of the queue.
LEMMA PopJobs ==
    ASSUME TypeOK, JobInOnePlace, mJobQueue # <<>>, mJobQueue' = Tail(mJobQueue)
    PROVE  Head(mJobQueue) \in Queued /\ Queued' = Queued \ {Head(mJobQueue)}
<1>1. /\ DOMAIN mJobQueue = 1 .. Len(mJobQueue) /\ Len(mJobQueue) \in Nat \ {0}
      /\ DOMAIN mJobQueue' = 1 .. Len(mJobQueue) - 1
      /\ \A k \in 1 .. Len(mJobQueue) - 1 : mJobQueue'[k] = mJobQueue[k + 1]
      /\ Head(mJobQueue) = mJobQueue[1]
  BY TailFacts DEF TypeOK
<1>2. Head(mJobQueue) \in Queued
  BY <1>1 DEF Queued
<1>3. ASSUME NEW x \in Queued' PROVE x \in Queued /\ x # Head(mJobQueue)
  <2>1. PICK k \in 1 .. Len(mJobQueue) - 1 : x = mJobQueue[k + 1]
    BY <1>1, <1>3 DEF Queued
  <2>2. k + 1 \in DOMAIN mJobQueue /\ 1 \in DOMAIN mJobQueue /\ k + 1 # 1
    BY <1>1
  <2> QED
    BY <1>1, <2>1, <2>2 DEF Queued, JobInOnePlace
<1>4. ASSUME NEW x \in Queued, x # Head(mJobQueue) PROVE x \in Queued'
  <2>1. PICK k \in 1 .. Len(mJobQueue) : x = mJobQueue[k]
    BY <1>1, <1>4 DEF Queued
  <2>2. k # 1
    BY <1>1, <1>4, <2>1
  <2>3. k - 1 \in DOMAIN mJobQueue' /\ (k - 1) + 1 = k
    BY <1>1, <2>2
  <2>4. mJobQueue'[k - 1] = x
    BY <1>1, <2>1, <2>3
  <2> QED
    BY <2>3, <2>4 DEF Queued
<1> QED
  BY <1>2, <1>3, <1>4

\* No thread holds a job when the pool is constructed.
LEMMA InitJobs == Init => HeldInv /\ JobInOnePlace /\ ExitInv /\ LateInv
<1> SUFFICES ASSUME Init PROVE HeldInv /\ JobInOnePlace /\ ExitInv /\ LateInv
  OBVIOUS
<1>1. HeldInv /\ Queued = {} /\ DOMAIN mJobQueue = {} /\ Running = {}
  BY DEF Init, HeldInv, Queued, Running, Exiting
<1>2. JobInOnePlace
  BY <1>1 DEF Init, JobInOnePlace
<1>3. ExitInv
  BY <1>1, JobsAreJobs DEF Init, ExitInv, ExitAdded, AllExitsAdded
<1>4. LateInv
  BY <1>1 DEF Init, LateInv, AllExitsAdded
<1> QED BY <1>1, <1>2, <1>3, <1>4

\* A thread holds a job from threadGetNextJob_ to the deletion of the job.
LEMMA NextHeld == TypeOK /\ HeldInv /\ [Next]_vars => HeldInv'
<1> SUFFICES ASSUME TypeOK, HeldInv, [Next]_vars PROVE HeldInv'
  OBVIOUS
<1> USE DEF ownerVars, threadVars
<1>a. ASSUME NEW j \in Jobs \cup ExitJobs, PushBack(j), UNCHANGED job PROVE HeldInv'
  BY <1>a, PushBackJobs DEF HeldInv, Exiting
<1>1. CASE UNCHANGED vars
  BY <1>1 DEF vars, HeldInv
<1>2. CASE CreateThread
  BY <1>2 DEF CreateThread, Goto, TypeOK, HeldInv, Exiting
<1>3. CASE AssignHandle \/ StartWait \/ Destroy \/ DeleteWait \/ DeleteThread
  BY <1>3 DEF AssignHandle, StartWait, Destroy, DeleteWait, DeleteThread, HeldInv
<1>4. CASE AddExitJob
  BY <1>4, <1>a DEF AddExitJob, TypeOK, Threads, ExitJobs
<1>5. ASSUME NEW j \in Jobs, ClientAddJob(j) PROVE HeldInv'
  BY <1>5, <1>a DEF ClientAddJob
<1>6. ASSUME NEW t \in Threads, NEW j \in Jobs, JobAddJob(t, j) PROVE HeldInv'
  BY <1>6, <1>a DEF JobAddJob
<1>7. ASSUME NEW t \in Threads, GetNextJob(t) PROVE HeldInv'
  <2>1. Head(mJobQueue) \in Jobs \cup ExitJobs
    BY <1>7, TailFacts DEF GetNextJob, TypeOK
  <2> QED
    BY <1>7, <2>1 DEF GetNextJob, Goto, TypeOK, HeldInv, Exiting
<1>8. ASSUME NEW t \in Threads, FinishJob(t) PROVE HeldInv'
  BY <1>8 DEF FinishJob, Goto, TypeOK, HeldInv, Exiting
<1>9. ASSUME NEW t \in Threads,
             \/ ThreadInit(t) \/ NotifyStart(t) \/ NotifyStartReturn(t)
             \/ ConditionWait(t) \/ SpuriousWakeup(t)
      PROVE  HeldInv'
  BY <1>9 DEF ThreadInit, NotifyStart, NotifyStartReturn, ConditionWait, SpuriousWakeup,
     Goto, TypeOK, HeldInv, Exiting
<1>10. ASSUME NEW t \in Threads,
             ThreadDeInit(t) \/ Detach(t) \/ NotifyExit(t) \/ NotifyExitReturn(t)
      PROVE  HeldInv'
  BY <1>10 DEF ThreadDeInit, Detach, NotifyExit, NotifyExitReturn, Goto, TypeOK,
     HeldInv, Exiting
<1> QED
  BY <1>1, <1>2, <1>3, <1>4, <1>5, <1>6, <1>7, <1>8, <1>9, <1>10
  DEF Next, OwnerStep, ThreadStep

\* The steps that move no job: neither the queue, nor a thread's job, nor the
\* set of running jobs changes.
Quiet == UNCHANGED <<mJobQueue, job, finished, late>> /\ Running' = Running

\* Only addJob, threadGetNextJob_ and runJob move jobs.
LEMMA JobMoves ==
    ASSUME TypeOK, [Next]_vars
    PROVE  \/ Quiet
           \/ AddExitJob
           \/ \E j \in Jobs : ClientAddJob(j)
           \/ \E t \in Threads : \E j \in Jobs : JobAddJob(t, j)
           \/ \E t \in Threads : GetNextJob(t) \/ FinishJob(t)
<1> USE DEF ownerVars, threadVars
<1>a. ASSUME NEW t \in Threads, NEW from, NEW to, Goto(t, from, to), job' = job,
             from # "running", to # "running"
      PROVE  Running' = Running
  BY <1>a DEF Goto, TypeOK, Running
<1>b. ASSUME tpc' = tpc, job' = job PROVE Running' = Running
  BY <1>b DEF Running
<1>1. CASE UNCHANGED vars
  BY <1>1, <1>b DEF vars, Quiet
<1>2. CASE CreateThread
  BY <1>2, <1>a DEF CreateThread, Quiet, TypeOK
<1>3. CASE AssignHandle \/ StartWait \/ Destroy \/ DeleteWait \/ DeleteThread
  BY <1>3, <1>b DEF AssignHandle, StartWait, Destroy, DeleteWait, DeleteThread, Quiet
<1>4. ASSUME NEW t \in Threads,
             \/ ThreadInit(t) \/ NotifyStart(t) \/ NotifyStartReturn(t)
             \/ ConditionWait(t) \/ SpuriousWakeup(t)
             \/ ThreadDeInit(t) \/ Detach(t) \/ NotifyExit(t) \/ NotifyExitReturn(t)
      PROVE  Quiet
  BY <1>4, <1>a DEF ThreadInit, NotifyStart, NotifyStartReturn, ConditionWait,
     SpuriousWakeup, ThreadDeInit, Detach, NotifyExit, NotifyExitReturn, Quiet
<1> QED
  BY <1>1, <1>2, <1>3, <1>4 DEF Next, OwnerStep, ThreadStep

\* A job that addJob is called with is nowhere in the pool.
Fresh(j) == j \notin Queued /\ j \notin finished /\ \A t \in Threads : job[t] # j

\* ClientAddJob and JobAddJob are given a job that is nowhere in the pool.
LEMMA FreshJob ==
    ASSUME TypeOK, HeldInv, NEW j \in Jobs, j \notin Added
    PROVE  Fresh(j)
<1>1. ASSUME NEW t \in Threads, job[t] = j PROVE FALSE
  <2>1. tpc[t] = "running"
    BY <1>1, JobsAreJobs DEF HeldInv
  <2> QED
    BY <1>1, <2>1, SetFacts DEF Added
<1> QED
  BY <1>1 DEF Fresh, Added

\* The exit job that the destructor adds next is nowhere in the pool.
LEMMA FreshExit ==
    ASSUME TypeOK, ExitInv, opc = "exitjob"
    PROVE  Fresh(idx) /\ idx \in ExitJobs
<1>1. idx \in ExitJobs /\ idx \in Int
  BY CountIsPositive DEF TypeOK, Threads, ExitJobs
<1>2. ~ExitAdded(idx)
  BY <1>1 DEF ExitAdded, AllExitsAdded
<1> QED
  BY <1>1, <1>2, JobsAreJobs DEF ExitInv, Fresh, TypeOK

\* addJob of a fresh job puts it in the queue and nowhere else.
LEMMA PushBackPlace ==
    ASSUME TypeOK, JobInOnePlace, NEW j \in Jobs \cup ExitJobs, Fresh(j), PushBack(j),
           UNCHANGED <<job, finished>>
    PROVE  JobInOnePlace' /\ Running' = Running
<1>1. /\ Queued' = Queued \cup {j}
      /\ \A t \in Threads : tpc'[t] = "running" <=> tpc[t] = "running"
  BY PushBackJobs
<1>2. Running' = Running
  BY <1>1 DEF Running
<1>3. ASSUME NEW k \in DOMAIN mJobQueue', NEW m \in DOMAIN mJobQueue',
             mJobQueue'[k] = mJobQueue'[m]
      PROVE  k = m
  <2>1. /\ mJobQueue \in Seq(Jobs \cup ExitJobs) /\ mJobQueue' = Append(mJobQueue, j)
    BY DEF TypeOK, PushBack
  <2>2. /\ DOMAIN mJobQueue = 1 .. Len(mJobQueue) /\ Len(mJobQueue) \in Nat
        /\ DOMAIN mJobQueue' = 1 .. Len(mJobQueue) + 1
        /\ mJobQueue'[Len(mJobQueue) + 1] = j
        /\ \A n \in 1 .. Len(mJobQueue) : mJobQueue'[n] = mJobQueue[n]
    BY <2>1, AppendFacts
  <2>3. \A n \in 1 .. Len(mJobQueue) : mJobQueue[n] # j
    BY <2>2 DEF Fresh, Queued
  <2> QED
    BY <1>3, <2>2, <2>3 DEF JobInOnePlace
<1>4. job' = job /\ finished' = finished
  OBVIOUS
<1>5. Queued' \cap {job'[t] : t \in Threads} = {}
  BY <1>1, <1>4 DEF JobInOnePlace, Fresh
<1>6. finished' \cap (Queued' \cup Running') = {}
  BY <1>1, <1>2, <1>4 DEF JobInOnePlace, Fresh
<1>7. \A t, u \in Threads : job'[t] = job'[u] /\ job'[t] # NoJob => t = u
  BY <1>4 DEF JobInOnePlace
<1> QED
  BY <1>2, <1>3, <1>5, <1>6, <1>7 DEF JobInOnePlace

\* No step puts a job in two places.
LEMMA NextPlace ==
    ASSUME TypeOK, HeldInv, JobInOnePlace, ExitInv, [Next]_vars
    PROVE  JobInOnePlace'
<1>1. CASE Quiet
  BY <1>1 DEF Quiet, JobInOnePlace, Queued
<1>2. CASE AddExitJob
  BY <1>2, FreshExit, PushBackPlace DEF AddExitJob
<1>3. ASSUME NEW j \in Jobs, ClientAddJob(j) PROVE JobInOnePlace'
  BY <1>3, FreshJob, PushBackPlace DEF ClientAddJob
<1>4. ASSUME NEW t \in Threads, NEW j \in Jobs, JobAddJob(t, j) PROVE JobInOnePlace'
  BY <1>4, FreshJob, PushBackPlace DEF JobAddJob
<1>5. ASSUME NEW t \in Threads, GetNextJob(t) PROVE JobInOnePlace'
  <2>1. /\ mJobQueue # <<>> /\ mJobQueue' = Tail(mJobQueue)
        /\ job' = [job EXCEPT ![t] = Head(mJobQueue)]
        /\ finished' = finished
    BY <1>5 DEF GetNextJob
  <2>2. Head(mJobQueue) \in Queued /\ Queued' = Queued \ {Head(mJobQueue)}
    BY <2>1, PopJobs
  <2>3. \A u \in Threads : job'[u] = IF u = t THEN Head(mJobQueue) ELSE job[u]
    BY <2>1 DEF TypeOK
  <2>4. \A k, m \in DOMAIN mJobQueue' : mJobQueue'[k] = mJobQueue'[m] => k = m
    <3>1. /\ DOMAIN mJobQueue = 1 .. Len(mJobQueue) /\ Len(mJobQueue) \in Nat
          /\ DOMAIN mJobQueue' = 1 .. Len(mJobQueue) - 1
          /\ \A k \in 1 .. Len(mJobQueue) - 1 : mJobQueue'[k] = mJobQueue[k + 1]
      BY <2>1, TailFacts DEF TypeOK
    <3>2. \A k \in 1 .. Len(mJobQueue) - 1 : k + 1 \in DOMAIN mJobQueue
      BY <3>1
    <3> QED
      BY <3>1, <3>2 DEF JobInOnePlace
  <2>5. \A u, v \in Threads : job'[u] = job'[v] /\ job'[u] # NoJob => u = v
    BY <2>2, <2>3 DEF JobInOnePlace
  <2>6. Queued' \cap {job'[u] : u \in Threads} = {}
    BY <2>2, <2>3 DEF JobInOnePlace
  <2>7. \A x \in Running' : x \in Running \/ x = Head(mJobQueue)
    BY <1>5, <2>3 DEF GetNextJob, Goto, TypeOK, Running
  <2>8. finished' \cap (Queued' \cup Running') = {}
    BY <2>1, <2>2, <2>7 DEF JobInOnePlace
  <2> QED
    BY <2>4, <2>5, <2>6, <2>8 DEF JobInOnePlace
<1>6. ASSUME NEW t \in Threads, FinishJob(t) PROVE JobInOnePlace'
  <2>1. /\ tpc[t] = "running" /\ finished' = finished \cup {job[t]}
        /\ mJobQueue' = mJobQueue /\ Queued' = Queued
        /\ \A u \in Threads : job'[u] = IF u = t THEN NoJob ELSE job[u]
        /\ \A u \in Threads : tpc'[u] = IF u = t THEN "loop" ELSE tpc[u]
    BY <1>6 DEF FinishJob, Goto, TypeOK, Queued
  <2>2. job[t] \in Jobs /\ job[t] # NoJob
    BY <2>1, JobsAreJobs DEF HeldInv
  <2>3. job[t] \notin Running' /\ Running' \subseteq Running
    BY <2>1, <2>2 DEF Running, JobInOnePlace
  <2>4. job[t] \notin Queued
    BY DEF JobInOnePlace
  <2>5. NoJob \notin Queued
    BY JobsAreJobs, QueueFacts
  <2> QED
    BY <2>1, <2>2, <2>3, <2>4, <2>5 DEF JobInOnePlace
<1> QED
  BY JobMoves, <1>1, <1>2, <1>3, <1>4, <1>5, <1>6

\* The exit jobs that have been added, before and after a step.
LEMMA ExitAddedStep ==
    ASSUME TypeOK, LifeInv, ExitInv, [Next]_vars
    PROVE  /\ opc' = "open" => idx' = 1
           /\ AllExitsAdded => AllExitsAdded'
           /\ AllExitsAdded' => AllExitsAdded \/ AddExitJob
           /\ \A e \in ExitJobs :
                 ExitAdded(e)' <=> ExitAdded(e) \/ (AddExitJob /\ e = idx)
<1>q. /\ idx \in Int /\ uiCount \in Int /\ idx <= uiCount
      /\ \A e \in ExitJobs : e \in Int /\ e <= uiCount /\ 1 <= e
  BY CountIsPositive DEF TypeOK, Threads, ExitJobs
<1> USE DEF ExitAdded, AllExitsAdded, ownerVars
<1>1. CASE UNCHANGED <<opc, idx>>
  <2>1. ~AddExitJob
    BY <1>1, <1>q DEF AddExitJob, NextIndex
  <2> QED
    BY <1>1, <2>1 DEF ExitInv
<1>2. CASE CreateThread
  BY <1>2 DEF CreateThread, AddExitJob
<1>3. CASE AssignHandle
  BY <1>3 DEF AssignHandle, AddExitJob
<1>4. CASE StartWait
  BY <1>4 DEF StartWait, NextIndex, AddExitJob
<1>5. CASE Destroy
  BY <1>5, <1>q DEF Destroy, ExitInv, AddExitJob
<1>6. CASE AddExitJob
  BY <1>6, <1>q DEF AddExitJob, NextIndex
<1>7. CASE DeleteWait
  BY <1>7 DEF DeleteWait, AddExitJob
<1>8. CASE DeleteThread
  BY <1>8 DEF DeleteThread, NextIndex, AddExitJob
<1>9. CASE \/ \E j \in Jobs : ClientAddJob(j)
           \/ \E t \in Threads :
                 ThreadStep(t) \/ SpuriousWakeup(t) \/ \E j \in Jobs : JobAddJob(t, j)
  <2>1. UNCHANGED <<opc, idx>>
    BY <1>9 DEF ClientAddJob, SpuriousWakeup, JobAddJob, ThreadStep, ThreadInit, NotifyStart,
       NotifyStartReturn, GetNextJob, ConditionWait, FinishJob, ThreadDeInit, Detach,
       NotifyExit, NotifyExitReturn
  <2> QED
    BY <1>1, <2>1
<1>10. CASE UNCHANGED vars
  BY <1>1, <1>10 DEF vars
<1> QED
  BY <1>2, <1>3, <1>4, <1>5, <1>6, <1>7, <1>8, <1>9, <1>10 DEF Next, OwnerStep

\* An exit job that has been added is in the queue or has ended a thread.
LEMMA NextExit ==
    ASSUME TypeOK, LifeInv, HeldInv, JobInOnePlace, ExitInv, [Next]_vars
    PROVE  ExitInv'
<1>a. /\ opc' = "open" => idx' = 1
      /\ \A e \in ExitJobs : ExitAdded(e)' <=> ExitAdded(e) \/ (AddExitJob /\ e = idx)
  BY ExitAddedStep
<1>b. idx \in ExitJobs
  BY DEF TypeOK, Threads, ExitJobs
<1>1. CASE AddExitJob
  <2>1. Queued' = Queued \cup {idx} /\ job' = job
    BY <1>1, <1>b, PushBackJobs DEF AddExitJob
  <2> QED
    BY <1>1, <1>a, <2>1 DEF ExitInv
<1>2. ASSUME ~AddExitJob, NEW j \in Jobs, PushBack(j), job' = job PROVE ExitInv'
  <2>1. Queued' = Queued \cup {j} /\ j \notin ExitJobs
    BY <1>2, PushBackJobs, JobsAreJobs
  <2> QED
    BY <1>2, <1>a, <2>1 DEF ExitInv
<1>3. CASE ~AddExitJob /\ Quiet
  BY <1>3, <1>a DEF Quiet, ExitInv, Queued
<1>4. ASSUME ~AddExitJob, NEW t \in Threads, GetNextJob(t) PROVE ExitInv'
  <2>1. /\ Head(mJobQueue) \in Queued /\ Queued' = Queued \ {Head(mJobQueue)}
        /\ tpc[t] = "loop"
        /\ \A u \in Threads : job'[u] = IF u = t THEN Head(mJobQueue) ELSE job[u]
    BY <1>4, PopJobs DEF GetNextJob, Goto, TypeOK
  <2>2. job[t] \notin ExitJobs
    BY <2>1, JobsAreJobs DEF HeldInv, Exiting
  <2> QED
    BY <1>4, <1>a, <2>1, <2>2 DEF ExitInv
<1>5. ASSUME ~AddExitJob, NEW t \in Threads, FinishJob(t) PROVE ExitInv'
  <2>1. /\ Queued' = Queued /\ tpc[t] = "running"
        /\ \A u \in Threads : job'[u] = IF u = t THEN NoJob ELSE job[u]
    BY <1>5 DEF FinishJob, Goto, TypeOK, Queued
  <2>2. job[t] \notin ExitJobs /\ NoJob \notin ExitJobs
    BY <2>1, JobsAreJobs DEF HeldInv
  <2> QED
    BY <1>5, <1>a, <2>1, <2>2 DEF ExitInv
<1> QED
  BY JobMoves, <1>1, <1>2, <1>3, <1>4, <1>5 DEF ClientAddJob, JobAddJob

\* There are as many exit jobs as threads: once all of them have been taken,
\* every thread has taken one.
LEMMA AllTaken ==
    ASSUME TypeOK, \A e \in ExitJobs : \E t \in Threads : job[t] = e
    PROVE  \A t \in Threads : job[t] \in ExitJobs
<1> DEFINE S == {t \in Threads : job[t] \in ExitJobs}
           f == [t \in S |-> job[t]]
<1>1. IsFiniteSet(Threads) /\ ExitJobs = Threads
  BY CountIsPositive, FS_Interval DEF Threads, ExitJobs
<1>2. f \in Surjection(S, ExitJobs)
  BY DEF Surjection
<1>3. IsFiniteSet(S) /\ Cardinality(S) <= Cardinality(Threads)
                    /\ (Cardinality(Threads) = Cardinality(S) => Threads = S)
  BY <1>1, FS_Subset
<1>4. Cardinality(ExitJobs) <= Cardinality(S)
  BY <1>2, <1>3, FS_Surjection
<1>5. Cardinality(S) \in Nat /\ Cardinality(Threads) \in Nat
  BY <1>1, <1>3, FS_CardinalityType
<1>6. Threads = S
  BY <1>1, <1>3, <1>4, <1>5
<1> QED
  BY <1>6

\* A thread that asks for a job never finds a late one: the exit jobs ahead of
\* it are one for each thread.
LEMMA HeadNotLate ==
    ASSUME TypeOK, HeldInv, ExitInv, LateInv, NEW t \in Threads, tpc[t] = "loop",
           mJobQueue # <<>>
    PROVE  Head(mJobQueue) \notin late
<1> SUFFICES ASSUME Head(mJobQueue) \in late PROVE FALSE
  OBVIOUS
<1>1. /\ DOMAIN mJobQueue = 1 .. Len(mJobQueue) /\ Len(mJobQueue) \in Nat \ {0}
      /\ Head(mJobQueue) = mJobQueue[1]
  BY TailFacts DEF TypeOK
<1>2. \A m \in DOMAIN mJobQueue : mJobQueue[m] \in late
  BY <1>1 DEF LateInv
<1>3. \A e \in ExitJobs : e \notin Queued
  BY <1>2, JobsAreJobs DEF TypeOK, Queued
<1>4. \A e \in ExitJobs : ExitAdded(e)
  BY DEF LateInv, ExitAdded
<1>5. \A e \in ExitJobs : \E u \in Threads : job[u] = e
  BY <1>3, <1>4 DEF ExitInv
<1>6. job[t] \in ExitJobs
  BY <1>5, AllTaken
<1> QED
  BY <1>6, JobsAreJobs DEF HeldInv, Exiting

\* A new job goes behind all others: it is an exit job, or it counts as late
\* when the last exit job has been added.
LEMMA PushBackLate ==
    ASSUME TypeOK, LateInv, NEW j \in Jobs \cup ExitJobs, Fresh(j), PushBack(j),
           late' = late \/ late' = late \cup {j},
           AllExitsAdded => AllExitsAdded' /\ j \in late',
           ~AllExitsAdded => late' = late,
           AllExitsAdded' => AllExitsAdded \/ j \in ExitJobs
    PROVE  LateInv'
<1>1. /\ mJobQueue \in Seq(Jobs \cup ExitJobs) /\ mJobQueue' = Append(mJobQueue, j)
  BY DEF TypeOK, PushBack
<1> DEFINE n == Len(mJobQueue)
<1>2. /\ DOMAIN mJobQueue = 1 .. n /\ n \in Nat
      /\ DOMAIN mJobQueue' = 1 .. n + 1
      /\ mJobQueue'[n + 1] = j
      /\ \A k \in 1 .. n : mJobQueue'[k] = mJobQueue[k]
  BY <1>1, AppendFacts
<1>3. Queued' = Queued \cup {j} /\ j \notin Queued /\ j \notin late
  BY PushBackJobs DEF Fresh, LateInv
<1>4. (late' # {} => AllExitsAdded') /\ late' \subseteq Queued'
  BY <1>3 DEF LateInv
<1>5. \A k \in 1 .. n : mJobQueue'[k] \in late' <=> mJobQueue[k] \in late
  BY <1>2, <1>3 DEF Queued
<1> HIDE DEF n
<1>6. \A k \in 1 .. n + 1 : k \in 1 .. n \/ k = n + 1
  BY <1>2
<1>7. ASSUME NEW k \in DOMAIN mJobQueue', NEW m \in DOMAIN mJobQueue',
             mJobQueue'[k] \in late', mJobQueue'[m] \notin late'
      PROVE  m < k
  <2>1. CASE k \in 1 .. n /\ m \in 1 .. n
    BY <1>2, <1>5, <1>7, <2>1 DEF LateInv
  <2>2. CASE k = n + 1
    BY <1>2, <1>7, <2>2
  <2>3. CASE k \in 1 .. n /\ m = n + 1
    BY <1>2, <1>5, <1>7, <2>3 DEF LateInv
  <2> QED
    BY <1>2, <1>6, <1>7, <2>1, <2>2, <2>3
<1>8. ASSUME AllExitsAdded', NEW k \in DOMAIN mJobQueue', mJobQueue'[k] \notin late'
      PROVE  \E m \in DOMAIN mJobQueue' : m >= k /\ mJobQueue'[m] \in ExitJobs
  <2>1. CASE ~AllExitsAdded
    BY <1>2, <1>8, <2>1
  <2>2. CASE AllExitsAdded
    <3>1. k \in 1 .. n /\ mJobQueue[k] \notin late
      BY <1>2, <1>5, <1>6, <1>8, <2>2
    <3>2. PICK m \in 1 .. n : m >= k /\ mJobQueue[m] \in ExitJobs
      BY <1>2, <2>2, <3>1 DEF LateInv
    <3>3. m \in 1 .. n + 1
      BY <1>2
    <3> QED
      BY <1>2, <3>2, <3>3
  <2> QED
    BY <2>1, <2>2
<1> QED
  BY <1>4, <1>7, <1>8 DEF LateInv

\* Late jobs stay in the queue, behind the exit jobs.
LEMMA NextLate ==
    ASSUME TypeOK, LifeInv, HeldInv, JobInOnePlace, ExitInv, LateInv, [Next]_vars
    PROVE  LateInv'
<1>a. /\ AllExitsAdded => AllExitsAdded'
      /\ AllExitsAdded' => AllExitsAdded \/ AddExitJob
  BY ExitAddedStep
<1>1. CASE AddExitJob
  BY <1>1, <1>a, FreshExit, PushBackLate DEF AddExitJob, AllExitsAdded
<1>2. ASSUME ~AddExitJob, NEW j \in Jobs, ClientAddJob(j) PROVE LateInv'
  BY <1>2, <1>a, FreshJob, PushBackLate DEF ClientAddJob, AllExitsAdded
<1>3. ASSUME ~AddExitJob, NEW t \in Threads, NEW j \in Jobs, JobAddJob(t, j)
      PROVE  LateInv'
  <2>1. opc # "destroyed"
    BY <1>3 DEF JobAddJob, LifeInv, ThreadLife, Joined
  <2> QED
    BY <1>3, <1>a, <2>1, FreshJob, PushBackLate DEF JobAddJob, AllExitsAdded
<1>4. CASE ~AddExitJob /\ UNCHANGED <<mJobQueue, late>>
  BY <1>4, <1>a DEF LateInv, Queued
<1>5. ASSUME ~AddExitJob, NEW t \in Threads, GetNextJob(t) PROVE LateInv'
  <2> DEFINE n == Len(mJobQueue)
  <2>1. mJobQueue # <<>> /\ mJobQueue' = Tail(mJobQueue) /\ late' = late
    BY <1>5 DEF GetNextJob
  <2>2. /\ DOMAIN mJobQueue = 1 .. n /\ n \in Nat
        /\ DOMAIN mJobQueue' = 1 .. n - 1
        /\ \A k \in 1 .. n - 1 : mJobQueue'[k] = mJobQueue[k + 1]
    BY <2>1, TailFacts DEF TypeOK
  <2>3. late' \subseteq Queued'
    BY <1>5, <2>1, PopJobs, HeadNotLate DEF GetNextJob, Goto, LateInv
  <2> HIDE DEF n
  <2>4. \A k \in 1 .. n - 1 : k + 1 \in 1 .. n
    BY <2>2
  <2>5. ASSUME NEW k \in DOMAIN mJobQueue', NEW m \in DOMAIN mJobQueue',
               mJobQueue'[k] \in late', mJobQueue'[m] \notin late'
        PROVE  m < k
    <3>1. m + 1 < k + 1
      BY <2>1, <2>2, <2>4, <2>5 DEF LateInv
    <3> QED
      BY <2>2, <3>1
  <2>6. ASSUME AllExitsAdded', NEW k \in DOMAIN mJobQueue', mJobQueue'[k] \notin late'
        PROVE  \E m \in DOMAIN mJobQueue' : m >= k /\ mJobQueue'[m] \in ExitJobs
    <3>1. PICK m \in 1 .. n : m >= k + 1 /\ mJobQueue[m] \in ExitJobs
      BY <1>5, <1>a, <2>1, <2>2, <2>4, <2>6 DEF LateInv
    <3>2. m - 1 \in 1 .. n - 1 /\ m - 1 >= k /\ (m - 1) + 1 = m
      BY <2>2, <3>1
    <3>3. mJobQueue'[m - 1] = mJobQueue[m]
      BY <2>2, <3>2
    <3> QED
      BY <2>2, <3>1, <3>2, <3>3
  <2> QED
    BY <1>5, <1>a, <2>1, <2>3, <2>5, <2>6 DEF LateInv
<1> QED
  BY JobMoves, <1>1, <1>2, <1>3, <1>4, <1>5 DEF Quiet, FinishJob
-----------------------------------------------------------------------------
(* The sleeping threads *)

\* Looping is a finite set of threads.
LEMMA LoopingFinite ==
    /\ IsFiniteSet(Looping) /\ Cardinality(Looping) \in Nat
    /\ IsFiniteSet(Looping') /\ Cardinality(Looping') \in Nat
<1>1. IsFiniteSet(Threads)
  BY CountIsPositive, FS_Interval DEF Threads
<1>2. Looping \subseteq Threads /\ Looping' \subseteq Threads
  BY DEF Looping
<1> QED
  BY <1>1, <1>2, FS_Subset, FS_CardinalityType

\* One more thread on its way to the queue pays for one more job.
LEMMA MoreLooping ==
    ASSUME TypeOK, NoStrandedJob, NEW t, t \notin Looping, Looping' = Looping \cup {t},
           Waiting' # {} => Waiting # {},
           Len(mJobQueue') \in {Len(mJobQueue), Len(mJobQueue) + 1}
    PROVE  NoStrandedJob'
<1>1. Cardinality(Looping') = Cardinality(Looping) + 1
  BY LoopingFinite, FS_AddElement
<1> QED
  BY <1>1, LoopingFinite, QueueFacts DEF NoStrandedJob

\* notify_one wakes a thread for each new job as long as any sleeps.
LEMMA PushBackNotStranded ==
    ASSUME TypeOK, NoStrandedJob, NEW j \in Jobs \cup ExitJobs, PushBack(j)
    PROVE  NoStrandedJob'
<1>1. Len(mJobQueue') = Len(mJobQueue) + 1
  BY AppendFacts DEF PushBack, TypeOK
<1>2. CASE Waiting = {} /\ UNCHANGED tpc
  BY <1>2 DEF NoStrandedJob, Waiting
<1>3. ASSUME NEW t \in Waiting, tpc' = [tpc EXCEPT ![t] = "loop"] PROVE NoStrandedJob'
  <2>1. t \notin Looping /\ Looping' = Looping \cup {t}
    BY <1>3 DEF Looping, Waiting, TypeOK
  <2> QED
    BY <1>1, <1>3, <2>1, MoreLooping
<1> QED
  BY <1>2, <1>3 DEF PushBack

\* A job is taken by a thread that was on its way to it.
LEMMA NextNotStranded ==
    ASSUME TypeOK, NoStrandedJob, [Next]_vars
    PROVE  NoStrandedJob'
<1> USE DEF ownerVars, threadVars
<1>a. ASSUME NEW t \in Threads, NEW from, NEW to, Goto(t, from, to), mJobQueue' = mJobQueue,
             from \notin {"loop", "waiting"}, to \notin {"loop", "waiting"}
      PROVE  NoStrandedJob'
  <2>1. Looping' = Looping /\ Waiting' = Waiting
    BY <1>a DEF Goto, TypeOK, Looping, Waiting
  <2> QED
    BY <1>a, <2>1 DEF NoStrandedJob
<1>b. ASSUME NEW t \in Threads, NEW from, Goto(t, from, "loop"), mJobQueue' = mJobQueue,
             from # "loop"
      PROVE  NoStrandedJob'
  <2>1. /\ t \notin Looping /\ Looping' = Looping \cup {t}
        /\ Waiting' # {} => Waiting # {}
    BY <1>b DEF Goto, TypeOK, Looping, Waiting
  <2> QED
    BY <1>b, <2>1, MoreLooping
<1>c. ASSUME tpc' = tpc, mJobQueue' = mJobQueue PROVE NoStrandedJob'
  BY <1>c DEF NoStrandedJob, Looping, Waiting
<1>1. CASE UNCHANGED vars
  BY <1>1, <1>c DEF vars
<1>2. CASE CreateThread
  BY <1>2, <1>a DEF CreateThread, TypeOK
<1>3. CASE AssignHandle \/ StartWait \/ Destroy \/ DeleteWait \/ DeleteThread
  BY <1>3, <1>c DEF AssignHandle, StartWait, Destroy, DeleteWait, DeleteThread
<1>4. CASE AddExitJob
  BY <1>4, PushBackNotStranded DEF AddExitJob, TypeOK, Threads, ExitJobs
<1>5. ASSUME NEW j \in Jobs, ClientAddJob(j) PROVE NoStrandedJob'
  BY <1>5, PushBackNotStranded DEF ClientAddJob
<1>6. ASSUME NEW t \in Threads, NEW j \in Jobs, JobAddJob(t, j) PROVE NoStrandedJob'
  BY <1>6, PushBackNotStranded DEF JobAddJob
<1>7. ASSUME NEW t \in Threads,
             \/ ThreadInit(t) \/ NotifyStart(t)
             \/ ThreadDeInit(t) \/ Detach(t) \/ NotifyExit(t) \/ NotifyExitReturn(t)
      PROVE  NoStrandedJob'
  BY <1>7, <1>a DEF ThreadInit, NotifyStart, ThreadDeInit, Detach, NotifyExit, NotifyExitReturn
<1>8. ASSUME NEW t \in Threads,
             NotifyStartReturn(t) \/ SpuriousWakeup(t) \/ FinishJob(t)
      PROVE  NoStrandedJob'
  BY <1>8, <1>b DEF NotifyStartReturn, SpuriousWakeup, FinishJob
<1>9. ASSUME NEW t \in Threads, ConditionWait(t) PROVE NoStrandedJob'
  BY <1>9, LoopingFinite DEF ConditionWait, NoStrandedJob
<1>10. ASSUME NEW t \in Threads, GetNextJob(t) PROVE NoStrandedJob'
  <2>1. /\ t \in Looping /\ Looping' = Looping \ {t} /\ Waiting' = Waiting
    BY <1>10 DEF GetNextJob, Goto, TypeOK, Looping, Waiting
  <2>2. Len(mJobQueue') = Len(mJobQueue) - 1 /\ Len(mJobQueue) \in Nat
    BY <1>10, TailFacts DEF GetNextJob, TypeOK
  <2>3. Cardinality(Looping') = Cardinality(Looping) - 1
    BY <2>1, LoopingFinite, FS_RemoveElement
  <2> QED
    BY <2>1, <2>2, <2>3, LoopingFinite DEF NoStrandedJob
<1> QED
  BY <1>1, <1>2, <1>3, <1>4, <1>5, <1>6, <1>7, <1>8, <1>9, <1>10
  DEF Next, OwnerStep, ThreadStep
-----------------------------------------------------------------------------
(* The theorems *)

FullInv == TypeOK /\ IInv

\* The constructor establishes the inductive invariant.
LEMMA InitFull == Init => FullInv
  BY InitType, InitLife, InitJobs DEF FullInv, IInv

\* Every step of the pool preserves the inductive invariant.
LEMMA NextFull == FullInv /\ [Next]_vars => FullInv'
<1> SUFFICES ASSUME TypeOK, IInv, [Next]_vars PROVE TypeOK' /\ IInv'
  BY DEF FullInv
<1> USE DEF IInv
<1>1. TypeOK'
  BY NextType
<1>2. LifeInv'
  BY <1>1, NextLife
<1>3. HeldInv'
  BY NextHeld
<1>4. JobInOnePlace'
  BY NextPlace
<1>5. ExitInv'
  BY NextExit
<1>6. LateInv'
  BY NextLate
<1> QED BY <1>1, <1>2, <1>3, <1>4, <1>5, <1>6

\* ThreadPool: IInv holds in every reachable state.
THEOREM Invariance == Spec => []FullInv
  BY InitFull, NextFull, PTL DEF Spec

\* ThreadPool: the state is well typed, for any number of threads and jobs.
THEOREM TypeCorrect == Spec => []TypeOK
<1>1. FullInv => TypeOK
  BY DEF FullInv
<1> QED
  BY Invariance, <1>1, PTL

\* ThreadPool: ~Thread frees a thread's handle and semaphore only after the
\* thread has touched them for the last time.
THEOREM DeleteIsSafe == Spec => []NoUseAfterDelete
<1>1. FullInv => NoUseAfterDelete
  <2> SUFFICES ASSUME FullInv, NEW t \in Threads, mThread[t] = "deleted"
               PROVE  tpc[t] = "gone"
    BY DEF NoUseAfterDelete
  <2>1. Joined(t)
    BY CountIsPositive DEF FullInv, IInv, LifeInv, ThreadLife, Handle, Freed, Joined, TypeOK, Threads
  <2> QED
    BY <2>1 DEF FullInv, IInv, LifeInv, ThreadLife
<1> QED
  BY Invariance, <1>1, PTL

\* ThreadPool: detach() and the deletion of a std::thread never meet a handle
\* in the wrong state.
THEOREM HandlesAreSafe == Spec => []HandleSafety
<1>1. FullInv => HandleSafety
  <2> SUFFICES ASSUME FullInv PROVE HandleSafety
    OBVIOUS
  <2> USE DEF FullInv, IInv, LifeInv, ThreadLife, Handle
  <2>1. ASSUME NEW t \in Threads, tpc[t] = "detach" PROVE mThread[t] = "joinable"
    <3>1. ~Constructing /\ ~Joined(t)
      BY <2>1 DEF Exiting
    <3>2. Assigned(t) /\ ~Freed(t)
      BY <3>1, CountIsPositive DEF Assigned, Freed, Joined, TypeOK, Threads
    <3> QED
      BY <2>1, <3>2
  <2>2. ASSUME opc = "delfree" PROVE mThread[idx] = "detached"
    <3>1. idx \in Threads /\ Joined(idx) /\ Assigned(idx) /\ ~Freed(idx)
      BY <2>2, CountIsPositive DEF Joined, Assigned, Freed, Constructing, TypeOK, Threads
    <3> QED
      BY <3>1
  <2> QED
    BY <2>1, <2>2 DEF HandleSafety
<1> QED
  BY Invariance, <1>1, PTL

\* ThreadPool: a job that runs is passed a live event base, and a thread that
\* has left has freed its own.
THEOREM BasesAreLive == Spec => []BaseLiveWhileUsed
<1>1. FullInv => BaseLiveWhileUsed
  BY DEF FullInv, IInv, LifeInv, ThreadLife, BaseLiveWhileUsed
<1> QED
  BY Invariance, <1>1, PTL

\* ThreadPool: no job is ever in two places, whoever adds and takes jobs.
THEOREM JobsRunOnce == Spec => []JobInOnePlace
<1>1. FullInv => JobInOnePlace
  BY DEF FullInv, IInv
<1> QED
  BY Invariance, <1>1, PTL

\* ThreadPool: no thread sleeps while a job waits for it.
THEOREM JobsNotStranded == Spec => []NoStrandedJob
<1>1. Init => NoStrandedJob
  BY DEF Init, NoStrandedJob, Waiting
<1>2. FullInv /\ NoStrandedJob /\ [Next]_vars => NoStrandedJob'
  BY NextNotStranded DEF FullInv
<1> QED
  BY Invariance, <1>1, <1>2, PTL DEF Spec

\* Once the destructor has returned, every exit job has ended one thread.
LEMMA ExitsAllTaken ==
    ASSUME FullInv, opc = "destroyed"
    PROVE  {job[t] : t \in Threads} = ExitJobs
<1>1. \A t \in Threads : job[t] \in ExitJobs
  BY DEF FullInv, IInv, LifeInv, ThreadLife, Joined, HeldInv, Exiting
<1>2. IsFiniteSet(Threads) /\ ExitJobs = Threads
  BY CountIsPositive, FS_Interval DEF Threads, ExitJobs
<1>3. ASSUME NEW e \in ExitJobs, \A t \in Threads : job[t] # e PROVE FALSE
  <2> DEFINE T == ExitJobs \ {e}
             f == [t \in Threads |-> job[t]]
  <2>1. IsFiniteSet(T) /\ Cardinality(T) = Cardinality(Threads) - 1
    BY <1>2, FS_RemoveElement
  <2>2. Cardinality(Threads) \in Nat
    BY <1>2, FS_CardinalityType
  <2>3. Cardinality(T) < Cardinality(Threads)
    BY <2>1, <2>2
  <2>4. f \in [Threads -> T]
    BY <1>1, <1>3
  <2> HIDE DEF T, f
  <2>5. \E x, y \in Threads : x # y /\ f[x] = f[y]
    BY <1>2, <2>1, <2>3, <2>4, FS_PigeonHole
  <2> QED
    BY <1>1, <2>5, JobsAreJobs DEF f, FullInv, IInv, JobInOnePlace
<1> QED
  BY <1>1, <1>3

\* ThreadPool: every exit job ends one thread, every thread ends by one.
THEOREM ExitsMatchThreads == Spec => []OneExitEach
<1>1. FullInv => OneExitEach
  BY ExitsAllTaken, JobsAreJobs DEF FullInv, IInv, HeldInv, OneExitEach, Exiting
<1> QED
  BY Invariance, <1>1, PTL

\* What is left in the queue when the destructor has returned.
LEMMA DoneWhenDestroyed == FullInv => DestroyedMeansDone
<1> SUFFICES ASSUME FullInv, opc = "destroyed" PROVE Queued = late /\ Running = {}
  BY DEF DestroyedMeansDone
<1>1. Running = {}
  BY DEF FullInv, IInv, LifeInv, ThreadLife, Joined, Running
<1>2. ASSUME NEW k \in DOMAIN mJobQueue, mJobQueue[k] \notin late PROVE FALSE
  <2>1. PICK m \in DOMAIN mJobQueue : mJobQueue[m] \in ExitJobs
    BY <1>2 DEF FullInv, IInv, LateInv, AllExitsAdded
  <2>2. mJobQueue[m] \in Queued /\ mJobQueue[m] \in {job[t] : t \in Threads}
    BY <2>1, ExitsAllTaken DEF Queued
  <2> QED
    BY <2>2 DEF FullInv, IInv, JobInOnePlace
<1> QED
  BY <1>1, <1>2 DEF FullInv, IInv, LateInv, Queued

\* ThreadPool: when the destructor returns, exactly the jobs that were added
\* after the last exit job are left in the queue, and nothing runs.
THEOREM NothingLost == Spec => []DestroyedMeansDone
  BY Invariance, DoneWhenDestroyed, PTL
-----------------------------------------------------------------------------
(* The pool implements JobService *)

\* Which jobs are ahead of which.
InFront(x, y) == \E k, m \in DOMAIN mJobQueue : k < m /\ mJobQueue[k] = x /\ mJobQueue[m] = y

LEMMA AheadFacts ==
    /\ \A x, y : <<x, y>> \in Ahead <=> x \in Pending /\ y \in Pending /\ InFront(x, y)
    /\ Ahead \subseteq Pending \X Pending
  BY DEF Ahead, InFront

\* Two sets of pairs that have the same pairs are equal.
LEMMA SamePairs ==
    ASSUME NEW A, NEW B, NEW S, NEW T, A \subseteq S \X S, B \subseteq T \X T,
           \A x, y : <<x, y>> \in A <=> <<x, y>> \in B
    PROVE  A = B
<1>1. \A p \in A : \E x, y : p = <<x, y>>
  OBVIOUS
<1>2. \A p \in B : \E x, y : p = <<x, y>>
  OBVIOUS
<1> QED
  BY <1>1, <1>2

\* A job at the end of the queue is behind all the others.
LEMMA PushBackFront ==
    ASSUME TypeOK, NEW j \in Jobs \cup ExitJobs, j \notin Queued, PushBack(j)
    PROVE  \A x, y : InFront(x, y)' <=> InFront(x, y) \/ (x \in Queued /\ y = j)
<1> DEFINE n == Len(mJobQueue)
<1>1. /\ mJobQueue \in Seq(Jobs \cup ExitJobs) /\ mJobQueue' = Append(mJobQueue, j)
  BY DEF TypeOK, PushBack
<1>2. /\ DOMAIN mJobQueue = 1 .. n /\ n \in Nat
      /\ DOMAIN mJobQueue' = 1 .. n + 1
      /\ mJobQueue'[n + 1] = j
      /\ \A k \in 1 .. n : mJobQueue'[k] = mJobQueue[k]
  BY <1>1, AppendFacts
<1> HIDE DEF n
<1>3. \A k \in 1 .. n + 1 : k \in 1 .. n \/ k = n + 1
  BY <1>2
<1>4. \A k \in 1 .. n : k \in 1 .. n + 1 /\ k < n + 1
  BY <1>2
<1> TAKE x, y
<1>5. ASSUME InFront(x, y)' PROVE InFront(x, y) \/ (x \in Queued /\ y = j)
  <2>1. PICK k, m \in 1 .. n + 1 : k < m /\ mJobQueue'[k] = x /\ mJobQueue'[m] = y
    BY <1>2, <1>5 DEF InFront
  <2>2. k \in 1 .. n
    BY <1>2, <2>1
  <2> QED
    BY <1>2, <1>3, <2>1, <2>2 DEF InFront, Queued
<1>6. ASSUME InFront(x, y) PROVE InFront(x, y)'
  BY <1>2, <1>4, <1>6 DEF InFront
<1>7. ASSUME x \in Queued, y = j PROVE InFront(x, y)'
  <2>1. PICK k \in 1 .. n : mJobQueue[k] = x
    BY <1>2, <1>7 DEF Queued
  <2>2. /\ k \in DOMAIN mJobQueue' /\ n + 1 \in DOMAIN mJobQueue' /\ k < n + 1
        /\ mJobQueue'[k] = x /\ mJobQueue'[n + 1] = y
    BY <1>2, <1>7, <2>1
  <2> QED
    BY <2>2 DEF InFront
<1> QED
  BY <1>5, <1>6, <1>7

\* An exit job, or a job that comes too late, is not a pending job.
LEMMA PushBackUnseen ==
    ASSUME TypeOK, NEW j \in Jobs \cup ExitJobs, j \notin Queued, PushBack(j),
           late' = late \/ late' = late \cup {j}, j \in ExitJobs \cup late'
    PROVE  Pending' = Pending /\ Ahead' = Ahead
<1>1. Queued' = Queued \cup {j}
  BY PushBackJobs
<1>2. Pending' = Pending
  BY <1>1 DEF Pending
<1>3. \A x, y : <<x, y>> \in Ahead' <=> x \in Pending' /\ y \in Pending' /\ InFront(x, y)'
  BY DEF Ahead, InFront
<1>4. Ahead' \subseteq Pending' \X Pending'
  BY DEF Ahead
<1>5. j \notin Pending
  BY DEF Pending
<1>6. \A x, y : <<x, y>> \in Ahead' <=> <<x, y>> \in Ahead
  BY <1>2, <1>3, <1>5, AheadFacts, PushBackFront
<1> QED
  BY <1>2, <1>4, <1>6, AheadFacts, SamePairs

\* A job that comes in time is the last of the pending jobs.
LEMMA PushBackSeen ==
    ASSUME TypeOK, NEW j \in Jobs, j \notin Queued, PushBack(j), late' = late, j \notin late
    PROVE  /\ Pending' = Pending \cup {j}
           /\ Ahead' = Ahead \cup (Pending \X {j})
<1>1. Queued' = Queued \cup {j}
  BY PushBackJobs
<1>2. Pending' = Pending \cup {j} /\ j \notin Pending /\ Pending \subseteq Queued
  BY <1>1, JobsAreJobs DEF Pending
<1>3. \A x, y : <<x, y>> \in Ahead' <=> x \in Pending' /\ y \in Pending' /\ InFront(x, y)'
  BY DEF Ahead, InFront
<1>4. Ahead' \subseteq Pending' \X Pending'
  BY DEF Ahead
<1>5. \A x, y : InFront(x, y) => x \in Queued /\ y \in Queued
  BY DEF InFront, Queued
<1> DEFINE B == Ahead \cup (Pending \X {j})
<1>6. \A x, y : <<x, y>> \in B <=> <<x, y>> \in Ahead \/ (x \in Pending /\ y = j)
  OBVIOUS
<1>7. B \subseteq Pending' \X Pending'
  BY <1>2, AheadFacts
<1> HIDE DEF B
<1>8. \A x, y : InFront(x, y)' <=> InFront(x, y) \/ (x \in Queued /\ y = j)
  BY PushBackFront
<1>9. \A x, y : <<x, y>> \in Ahead' <=> <<x, y>> \in B
  BY <1>2, <1>3, <1>5, <1>6, <1>8, AheadFacts
<1>10. Ahead' = B
  BY <1>4, <1>7, <1>9, SamePairs
<1> QED
  BY <1>2, <1>10 DEF B

\* Nothing is ahead of the first job, and the others keep their order without it.
LEMMA PopFront ==
    ASSUME TypeOK, JobInOnePlace, mJobQueue # <<>>, mJobQueue' = Tail(mJobQueue), late' = late
    PROVE  /\ Pending' = Pending \ {Head(mJobQueue)}
           /\ \A x : ~InFront(x, Head(mJobQueue))
           /\ Ahead' = Ahead \cap (Pending' \X Pending')
<1> DEFINE n == Len(mJobQueue)
           h == Head(mJobQueue)
<1>1. /\ DOMAIN mJobQueue = 1 .. n /\ n \in Nat \ {0}
      /\ DOMAIN mJobQueue' = 1 .. n - 1
      /\ \A k \in 1 .. n - 1 : mJobQueue'[k] = mJobQueue[k + 1]
      /\ h = mJobQueue[1]
  BY TailFacts DEF TypeOK
<1>2. Queued' = Queued \ {h}
  BY PopJobs
<1> HIDE DEF n, h
<1>3. Pending' = Pending \ {h}
  BY <1>2 DEF Pending
<1>4. ASSUME NEW x, InFront(x, h) PROVE FALSE
  <2>1. PICK k, m \in 1 .. n : k < m /\ mJobQueue[m] = h
    BY <1>1, <1>4 DEF InFront
  <2>2. m = 1
    BY <1>1, <2>1 DEF JobInOnePlace
  <2> QED
    BY <1>1, <2>1, <2>2
<1>5. ASSUME NEW x, NEW y, InFront(x, y)' PROVE InFront(x, y)
  <2>1. PICK k, m \in 1 .. n - 1 : k < m /\ mJobQueue'[k] = x /\ mJobQueue'[m] = y
    BY <1>1, <1>5 DEF InFront
  <2>2. /\ k + 1 \in 1 .. n /\ m + 1 \in 1 .. n /\ k + 1 < m + 1
        /\ mJobQueue[k + 1] = x /\ mJobQueue[m + 1] = y
    BY <1>1, <2>1
  <2> QED
    BY <1>1, <2>2 DEF InFront
<1>6. ASSUME NEW x, NEW y, InFront(x, y), x # h PROVE InFront(x, y)'
  <2>1. PICK k, m \in 1 .. n : k < m /\ mJobQueue[k] = x /\ mJobQueue[m] = y
    BY <1>1, <1>6 DEF InFront
  <2>2. k # 1
    BY <1>1, <1>6, <2>1
  <2>3. /\ k - 1 \in 1 .. n - 1 /\ m - 1 \in 1 .. n - 1 /\ k - 1 < m - 1
        /\ (k - 1) + 1 = k /\ (m - 1) + 1 = m
    BY <1>1, <2>1, <2>2
  <2>4. mJobQueue'[k - 1] = x /\ mJobQueue'[m - 1] = y
    BY <1>1, <2>1, <2>3
  <2> QED
    BY <1>1, <2>3, <2>4 DEF InFront
<1>7. \A x, y : <<x, y>> \in Ahead' <=> x \in Pending' /\ y \in Pending' /\ InFront(x, y)'
  BY DEF Ahead, InFront
<1>8. Ahead' \subseteq Pending' \X Pending'
  BY DEF Ahead
<1> DEFINE B == Ahead \cap (Pending' \X Pending')
<1>9. /\ \A x, y : <<x, y>> \in B <=> <<x, y>> \in Ahead /\ x \in Pending' /\ y \in Pending'
      /\ B \subseteq Pending' \X Pending'
  OBVIOUS
<1> HIDE DEF B
<1>10. \A x, y : <<x, y>> \in Ahead' <=> <<x, y>> \in B
  BY <1>3, <1>5, <1>6, <1>7, <1>9, AheadFacts
<1>11. Ahead' = B
  BY <1>8, <1>9, <1>10, SamePairs
<1> QED
  BY <1>3, <1>4, <1>11 DEF B, h

\* A thread that asks for a job runs none, so that at most the others do.
LEMMA RoomToRun ==
    ASSUME TypeOK, NEW t \in Threads, tpc[t] # "running"
    PROVE  Cardinality(Running) < uiCount
<1> DEFINE S == {u \in Threads : tpc[u] = "running"}
           f == [u \in S |-> job[u]]
<1>1. IsFiniteSet(Threads) /\ Cardinality(Threads) = uiCount
  BY CountIsPositive, FS_Interval DEF Threads
<1>2. IsFiniteSet(Threads \ {t}) /\ Cardinality(Threads \ {t}) = uiCount - 1
  BY <1>1, FS_RemoveElement
<1>3. S \in SUBSET (Threads \ {t})
  OBVIOUS
<1>4. IsFiniteSet(S) /\ Cardinality(S) <= uiCount - 1
  BY <1>2, <1>3, FS_Subset
<1>5. f \in Surjection(S, Running)
  BY DEF Surjection, Running
<1> HIDE DEF S, f
<1>6. IsFiniteSet(Running) /\ Cardinality(Running) <= Cardinality(S)
  BY <1>4, <1>5, FS_Surjection
<1>7. Cardinality(Running) \in Nat /\ Cardinality(S) \in Nat
  BY <1>4, <1>6, FS_CardinalityType
<1> QED
  BY <1>4, <1>6, <1>7, CountIsPositive

\* A step that moves no job is invisible, or closes the pool when it is empty.
LEMMA QuietRefines ==
    ASSUME DestroyedMeansDone', [Next]_vars, Quiet, ~AddExitJob
    PROVE  JS!Next \/ UNCHANGED JS!vars
<1>1. Pending' = Pending /\ Ahead' = Ahead /\ finished' = finished /\ late' = late
  BY DEF Quiet, Pending, Ahead, Queued
<1>2. Running' = Running
  BY DEF Quiet
<1>3. CASE DeleteThread /\ opc' = "destroyed"
  <2>1. Phase = "closing" /\ Phase' = "closed"
    BY <1>3 DEF DeleteThread, Phase
  <2>2. Queued' = late' /\ Running' = {}
    BY <1>3 DEF DestroyedMeansDone
  <2>3. Pending' = {}
    BY <2>2 DEF Pending
  <2> QED
    BY <1>1, <1>2, <2>1, <2>2, <2>3 DEF JS!Next, JS!Shut
<1>4. CASE ~(DeleteThread /\ opc' = "destroyed")
  <2>1. Phase' = Phase
    <3>1. opc' = opc => Phase' = Phase
      BY DEF Phase
    <3>2. CASE UNCHANGED vars
      BY <3>1, <3>2 DEF vars
    <3>3. CASE OwnerStep \/ Destroy
      BY <1>4, <3>1, <3>3 DEF OwnerStep, CreateThread, AssignHandle, StartWait, DeleteWait,
         DeleteThread, Destroy, NextIndex, Phase
    <3>4. ASSUME NEW j \in Jobs, ClientAddJob(j) PROVE Phase' = Phase
      BY <3>1, <3>4 DEF ClientAddJob, ownerVars
    <3>5. ASSUME NEW t \in Threads,
                 ThreadStep(t) \/ SpuriousWakeup(t) \/ \E j \in Jobs : JobAddJob(t, j)
          PROVE  Phase' = Phase
      BY <3>1, <3>5 DEF ThreadStep, ThreadInit, NotifyStart, NotifyStartReturn, GetNextJob,
         ConditionWait, FinishJob, ThreadDeInit, Detach, NotifyExit, NotifyExitReturn,
         SpuriousWakeup, JobAddJob, ownerVars
    <3> QED
      BY <3>2, <3>3, <3>4, <3>5 DEF Next
  <2> QED
    BY <1>1, <1>2, <2>1 DEF JS!vars
<1> QED
  BY <1>3, <1>4

\* addJob accepts a job, or drops it when it comes after the last exit job.
LEMMA AddJobRefines ==
    ASSUME FullInv, NEW j \in Jobs, j \notin Added, PushBack(j),
           UNCHANGED <<opc, job, finished>>, opc \notin {"new", "assign", "startwait", "destroyed"},
           late' = IF opc \in {"delwait", "delfree"} THEN late \cup {j} ELSE late
    PROVE  JS!Next
<1>1. Fresh(j) /\ TypeOK /\ JobInOnePlace
  BY FreshJob DEF FullInv, IInv
<1>2. Running' = Running
  BY <1>1, PushBackPlace
<1>3. j \notin Queued /\ j \notin finished /\ j \notin Running /\ j \notin late
  BY <1>1 DEF Fresh, Added, FullInv, IInv, LateInv
<1>4. j \notin JS!Known /\ Phase' = Phase
  BY <1>3 DEF JS!Known, Pending, Phase
<1>5. CASE opc \in {"delwait", "delfree"}
  <2>1. Pending' = Pending /\ Ahead' = Ahead
    BY <1>1, <1>3, <1>5, PushBackUnseen
  <2>2. Phase = "closing"
    BY <1>5 DEF Phase
  <2> QED
    BY <1>2, <1>4, <1>5, <2>1, <2>2 DEF JS!Next, JS!Drop
<1>6. CASE opc \notin {"delwait", "delfree"}
  <2>1. Pending' = Pending \cup {j} /\ Ahead' = Ahead \cup (Pending \X {j})
    BY <1>1, <1>3, <1>6, PushBackSeen
  <2>2. Phase = "open"
    BY <1>6 DEF Phase
  <2> QED
    BY <1>2, <1>4, <1>6, <2>1, <2>2 DEF JS!Next, JS!Accept
<1> QED
  BY <1>5, <1>6

\* threadGetNextJob_ starts the job that is ahead of all others; an exit job is
\* not one of them.
LEMMA GetNextJobRefines ==
    ASSUME FullInv, NEW t \in Threads, GetNextJob(t)
    PROVE  JS!Next \/ UNCHANGED JS!vars
<1> DEFINE h == Head(mJobQueue)
<1>1. TypeOK /\ JobInOnePlace /\ HeldInv
  BY DEF FullInv, IInv
<1>2. /\ mJobQueue # <<>> /\ mJobQueue' = Tail(mJobQueue) /\ tpc[t] = "loop"
      /\ tpc' = [tpc EXCEPT ![t] = IF h \in ExitJobs THEN "leaving" ELSE "running"]
      /\ job' = [job EXCEPT ![t] = h]
      /\ UNCHANGED <<opc, finished, late>>
  BY DEF GetNextJob, Goto, ownerVars
<1>3. h \in Jobs \cup ExitJobs /\ h \in Queued
  BY <1>1, <1>2, TailFacts, PopJobs DEF TypeOK
<1>4. h \notin late
  BY <1>2, HeadNotLate DEF FullInv, IInv
<1> HIDE DEF h
<1>5. /\ Pending' = Pending \ {h} /\ (\A x : ~InFront(x, h))
      /\ Ahead' = Ahead \cap (Pending' \X Pending')
  BY <1>1, <1>2, PopFront DEF h
<1>6. Phase' = Phase
  BY <1>2 DEF Phase
<1>7. tpc \in [Threads -> ThreadLabels] /\ DOMAIN job = Threads
  BY <1>1 DEF TypeOK
<1>8. CASE h \in ExitJobs
  <2>1. Pending' = Pending
    BY <1>5, <1>8 DEF Pending
  <2>2. Ahead' = Ahead
    BY <1>5, <2>1, AheadFacts
  <2>3. Running' = Running
    BY <1>2, <1>7, <1>8 DEF Running
  <2> QED
    BY <1>2, <1>6, <2>1, <2>2, <2>3 DEF JS!vars
<1>9. CASE h \notin ExitJobs
  <2>1. h \in Pending /\ h \in Jobs
    BY <1>3, <1>4, <1>9 DEF Pending
  <2>2. \A i \in Pending : <<i, h>> \notin Ahead
    BY <1>5, AheadFacts
  <2>3. Cardinality(Running) < uiCount
    BY <1>1, <1>2, RoomToRun
  <2>4. Running' = Running \cup {h}
    BY <1>2, <1>7, <1>9 DEF Running
  <2>5. JS!Cardinality(Running) = Cardinality(Running)
    BY DEF JS!Cardinality, Cardinality
  <2>6. JS!Start(h)
    BY <1>2, <1>5, <1>6, <2>1, <2>2, <2>3, <2>4, <2>5 DEF JS!Start
  <2> QED
    BY <2>1, <2>6 DEF JS!Next
<1> QED
  BY <1>8, <1>9

\* runJob finishes the job of its thread.
LEMMA FinishJobRefines ==
    ASSUME FullInv, NEW t \in Threads, FinishJob(t)
    PROVE  JS!Next
<1>1. /\ tpc[t] = "running" /\ tpc' = [tpc EXCEPT ![t] = "loop"]
      /\ finished' = finished \cup {job[t]} /\ job' = [job EXCEPT ![t] = NoJob]
      /\ UNCHANGED <<mJobQueue, opc, late>>
  BY DEF FinishJob, Goto, ownerVars
<1>2. /\ tpc \in [Threads -> ThreadLabels] /\ DOMAIN job = Threads /\ job[t] \in Jobs
      /\ \A u \in Threads : job[u] = job[t] => u = t
  BY <1>1, JobsAreJobs DEF FullInv, IInv, TypeOK, HeldInv, JobInOnePlace
<1>3. job[t] \in Running
  BY <1>1 DEF Running
<1>4. Running' = Running \ {job[t]}
  BY <1>1, <1>2 DEF Running
<1>5. Pending' = Pending /\ Ahead' = Ahead /\ Phase' = Phase
  BY <1>1 DEF Pending, Ahead, Queued, Phase
<1>6. JS!Finish(job[t])
  BY <1>1, <1>3, <1>4, <1>5 DEF JS!Finish
<1> QED
  BY <1>2, <1>6 DEF JS!Next

\* The last exit job closes the pool to new jobs.
LEMMA AddExitJobRefines ==
    ASSUME FullInv, AddExitJob
    PROVE  JS!Next \/ UNCHANGED JS!vars
<1>1. TypeOK /\ JobInOnePlace /\ Fresh(idx) /\ idx \in ExitJobs
  BY FreshExit DEF FullInv, IInv, AddExitJob
<1>2. PushBack(idx) /\ UNCHANGED <<job, finished, late>> /\ opc = "exitjob"
  BY DEF AddExitJob
<1>3. Pending' = Pending /\ Ahead' = Ahead
  BY <1>1, <1>2, PushBackUnseen DEF Fresh
<1>4. Running' = Running
  BY <1>1, <1>2, PushBackPlace
<1>5. opc' = "exitjob" \/ opc' = "delwait"
  BY DEF AddExitJob, NextIndex
<1>6. Phase = "open" /\ (opc' = "exitjob" => Phase' = "open") /\ (opc' = "delwait" => Phase' = "closing")
  BY <1>2 DEF Phase
<1> QED
  BY <1>2, <1>3, <1>4, <1>5, <1>6 DEF JS!Next, JS!Close, JS!vars

\* Every step of the pool is a step of JobService, or invisible in it.
LEMMA NextRefines ==
    ASSUME FullInv, DestroyedMeansDone', [Next]_vars
    PROVE  JS!Next \/ UNCHANGED JS!vars
<1>1. CASE AddExitJob
  BY <1>1, AddExitJobRefines
<1>2. CASE Quiet /\ ~AddExitJob
  BY <1>2, QuietRefines
<1>3. ASSUME NEW j \in Jobs, ClientAddJob(j) PROVE JS!Next
  <2>1. late' = IF opc \in {"delwait", "delfree"} THEN late \cup {j} ELSE late
    BY <1>3 DEF ClientAddJob
  <2> QED
    BY <1>3, <2>1, AddJobRefines DEF ClientAddJob, ownerVars
<1>4. ASSUME NEW t \in Threads, NEW j \in Jobs, JobAddJob(t, j) PROVE JS!Next
  <2>1. opc \notin {"new", "assign", "startwait", "destroyed"}
    BY <1>4 DEF JobAddJob, FullInv, IInv, LifeInv, ThreadLife, Joined, Constructing
  <2> QED
    BY <1>4, <2>1, AddJobRefines DEF JobAddJob, ownerVars
<1>5. ASSUME NEW t \in Threads, GetNextJob(t) PROVE JS!Next \/ UNCHANGED JS!vars
  BY <1>5, GetNextJobRefines
<1>6. ASSUME NEW t \in Threads, FinishJob(t) PROVE JS!Next
  BY <1>6, FinishJobRefines
<1> QED
  BY <1>1, <1>2, <1>3, <1>4, <1>5, <1>6, JobMoves DEF FullInv

\* The pool that is being constructed is an open JobService without jobs.
LEMMA InitRefines == Init => JS!Init
<1> SUFFICES ASSUME Init PROVE JS!Init
  OBVIOUS
<1>1. Queued = {} /\ Running = {}
  BY DEF Init, Queued, Running
<1>2. Pending = {} /\ Ahead = {}
  BY <1>1 DEF Pending, Ahead
<1> QED
  BY <1>1, <1>2 DEF Init, JS!Init, Phase

\* ThreadPool: the pool implements JobService, for any number of threads and any
\* jobs: jobs start in the order in which they were added, each once, no more at a
\* time than there are threads; the pool is closed only when all have finished,
\* and only the jobs added after the last exit job are dropped.
THEOREM PoolRefinesJobService == Spec => JS!Spec
<1>1. FullInv /\ DestroyedMeansDone' /\ [Next]_vars => [JS!Next]_(JS!vars)
  BY NextRefines
<1> QED
  BY <1>1, Invariance, NothingLost, InitRefines, PTL DEF Spec, JS!Spec
=============================================================================
