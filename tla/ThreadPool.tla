----------------------------- MODULE ThreadPool -----------------------------
(***************************************************************************)
(* class ThreadPool (src/thread-pool.cpp) and the class Thread it is made  *)
(* of (src/thread.cpp): the owner that constructs and destroys the pool,   *)
(* its uiCount threads, and the clients and jobs that add jobs.            *)
(*                                                                         *)
(* What runs under ThreadPool::mMutex is one step: addJob() as a whole,    *)
(* and one turn of the loop of threadGetNextJob_(), which ends with a job  *)
(* or inside mCondition.wait.  Thread::mSemaphore is the counting          *)
(* semaphore that Semaphore.tla is shown to implement; of its notify(),    *)
(* what happens between the increment and the unlock is kept apart from    *)
(* the return, because the owner may delete the Thread in between.         *)
(***************************************************************************)
EXTENDS Integers, Sequences, FiniteSets

CONSTANTS uiCount,   \* number of threads
          mBase,     \* do the threads own a libevent base?
          Jobs,      \* the ThreadJob objects; each is added at most once
          NoJob      \* the null pointer

Threads  == 1 .. uiCount
ExitJobs == 1 .. uiCount   \* the ThreadExitJob objects of the destructor

ASSUME CountIsPositive == uiCount \in Nat \ {0}
ASSUME BaseIsBoolean == mBase \in BOOLEAN
ASSUME JobsAreJobs == NoJob \notin Jobs /\ NoJob \notin ExitJobs /\ Jobs \cap ExitJobs = {}
ASSUME JobsFinite == IsFiniteSet(Jobs)

VARIABLES mJobQueue,   \* the deque of jobs
          opc, idx,    \* the owner's statement and loop index
          tpc,         \* tpc[t]: the statement of thread t
          job,         \* job[t]: the job thread t took last, NoJob if deleted
          mThread,     \* mThread[t]: state of the std::thread object
          mSemaphore,  \* mSemaphore[t]: permits
          mEventBase,  \* mEventBase[t]: "NULL" or "live"
          finished,    \* jobs run to completion and deleted
          late         \* jobs added after the last exit job

ownerVars  == <<opc, idx>>
threadVars == <<mThread, mSemaphore, mEventBase>>
vars == <<mJobQueue, opc, idx, tpc, job, threadVars, finished, late>>

Goto(t, from, to) == tpc[t] = from /\ tpc' = [tpc EXCEPT ![t] = to]

Waiting == {t \in Threads : tpc[t] = "waiting"}
Looping == {t \in Threads : tpc[t] = "loop"}
Queued  == {mJobQueue[k] : k \in DOMAIN mJobQueue}
Running == {job[t] : t \in {u \in Threads : tpc[u] = "running"}}

Init ==
    /\ mJobQueue = <<>>
    /\ opc = "new" /\ idx = 1
    /\ tpc = [t \in Threads |-> "none"]
    /\ job = [t \in Threads |-> NoJob]
    /\ mThread = [t \in Threads |-> "null"]
    /\ mSemaphore = [t \in Threads |-> 0]
    /\ mEventBase = [t \in Threads |-> "NULL"]
    /\ finished = {} /\ late = {}

\* The loops of the owner over its threads: the next index, or the statement
\* that follows the loop.
NextIndex(again, after) ==
    IF idx < uiCount THEN opc' = again /\ idx' = idx + 1
                     ELSE opc' = after /\ idx' = 1

\* Mutant: the semaphore increments outside its lock.
WaitUnlocked(t) ==
    mSemaphore[t] > 0 /\ mSemaphore' = [mSemaphore EXCEPT ![t] = @ - 1]

\* A returned semaphore wait: there is a permit, and nobody is inside the
\* semaphore's critical section.
Wait(t) ==
    /\ mSemaphore[t] > 0
    /\ tpc[t] \notin {"s_unlock", "e_unlock"}
    /\ mSemaphore' = [mSemaphore EXCEPT ![t] = @ - 1]
-----------------------------------------------------------------------------
(* ThreadPool::ThreadPool, createThreads and Thread::start *)

\* new std::thread(Thread::threadFunc, this): the thread may run from here on,
\* before its handle is stored.
CreateThread ==
    /\ opc = "new"
    /\ Goto(idx, "none", "starting")
    /\ opc' = "assign"
    /\ UNCHANGED <<mJobQueue, idx, job, threadVars, finished, late>>

AssignHandle ==
    /\ opc = "assign"
    /\ mThread' = [mThread EXCEPT ![idx] = "joinable"]
    /\ opc' = "startwait"
    /\ UNCHANGED <<mJobQueue, idx, tpc, job, mSemaphore, mEventBase, finished, late>>

\* Mutant: start() does not wait for the thread.
StartNoWait ==
    /\ opc = "startwait"
    /\ NextIndex("new", "open")
    /\ UNCHANGED <<mJobQueue, tpc, job, mThread, mSemaphore, mEventBase, finished, late>>

StartWait ==
    /\ opc = "startwait"
    /\ Wait(idx)
    /\ NextIndex("new", "open")
    /\ UNCHANGED <<mJobQueue, tpc, job, mThread, mEventBase, finished, late>>
-----------------------------------------------------------------------------
(* ThreadPool::addJob *)

\* Mutant: addJob forgets notify_one.
PushBackSilently(j) == mJobQueue' = Append(mJobQueue, j) /\ UNCHANGED tpc

\* push_back and notify_one: some thread blocked in mCondition.wait, if there
\* is one, goes back to the loop.
PushBack(j) ==
    /\ mJobQueue' = Append(mJobQueue, j)
    /\ \/ Waiting = {} /\ UNCHANGED tpc
       \/ \E t \in Waiting : tpc' = [tpc EXCEPT ![t] = "loop"]

\* A job is new until it is added; it is added once, for it is deleted after
\* it has run.
Added == Queued \cup Running \cup finished

ClientAddJob(j) ==
    /\ opc = "open"
    /\ j \notin Added
    /\ PushBack(j)
    /\ UNCHANGED <<ownerVars, job, threadVars, finished, late>>

\* A running job may add another one at any time, also while the destructor
\* is under way.
JobAddJob(t, j) ==
    /\ tpc[t] = "running"
    /\ j \notin Added
    /\ PushBack(j)
    /\ late' = IF opc \in {"delwait", "delfree"} THEN late \cup {j} ELSE late
    /\ UNCHANGED <<ownerVars, job, threadVars, finished>>
-----------------------------------------------------------------------------
(* Thread::run, Thread::runJob and ThreadPool::threadGetNextJob_ *)

ThreadInit(t) ==
    /\ Goto(t, "starting", "s_notify")
    /\ mEventBase' = [mEventBase EXCEPT ![t] = IF mBase THEN "live" ELSE "NULL"]
    /\ UNCHANGED <<mJobQueue, ownerVars, job, mThread, mSemaphore, finished, late>>

NotifyStart(t) ==
    /\ Goto(t, "s_notify", "s_unlock")
    /\ mSemaphore' = [mSemaphore EXCEPT ![t] = @ + 1]
    /\ UNCHANGED <<mJobQueue, ownerVars, job, mThread, mEventBase, finished, late>>

NotifyStartReturn(t) ==
    /\ Goto(t, "s_unlock", "loop")
    /\ UNCHANGED <<mJobQueue, ownerVars, job, threadVars, finished, late>>

\* Mutant: the job is read but not removed in the same critical section.
GetJobTwice(t) ==
    /\ mJobQueue # <<>>
    /\ Goto(t, "loop", IF Head(mJobQueue) \in ExitJobs THEN "leaving" ELSE "running")
    /\ job' = [job EXCEPT ![t] = Head(mJobQueue)]
    /\ UNCHANGED <<mJobQueue, ownerVars, threadVars, finished, late>>

\* Mutant: the newest job is taken first.
GetLastJob(t) ==
    LET n == Len(mJobQueue) IN
    /\ n > 0
    /\ Goto(t, "loop", IF mJobQueue[n] \in ExitJobs THEN "leaving" ELSE "running")
    /\ job' = [job EXCEPT ![t] = mJobQueue[n]]
    /\ mJobQueue' = SubSeq(mJobQueue, 1, n - 1)
    /\ UNCHANGED <<ownerVars, threadVars, finished, late>>

GetNextJob(t) ==
    /\ mJobQueue # <<>>
    /\ Goto(t, "loop", IF Head(mJobQueue) \in ExitJobs THEN "leaving" ELSE "running")
    /\ job' = [job EXCEPT ![t] = Head(mJobQueue)]
    /\ mJobQueue' = Tail(mJobQueue)
    /\ UNCHANGED <<ownerVars, threadVars, finished, late>>

ConditionWait(t) ==
    /\ mJobQueue = <<>>
    /\ Goto(t, "loop", "waiting")
    /\ UNCHANGED <<mJobQueue, ownerVars, job, threadVars, finished, late>>

SpuriousWakeup(t) ==
    /\ Goto(t, "waiting", "loop")
    /\ UNCHANGED <<mJobQueue, ownerVars, job, threadVars, finished, late>>

\* job->routine returns and runJob deletes the job.
FinishJob(t) ==
    /\ Goto(t, "running", "loop")
    /\ finished' = finished \cup {job[t]}
    /\ job' = [job EXCEPT ![t] = NoJob]
    /\ UNCHANGED <<mJobQueue, ownerVars, threadVars, late>>

\* The exit job is deleted (job[t] keeps naming it, as the reason why t left)
\* and the event base is freed.
ThreadDeInit(t) ==
    /\ Goto(t, "leaving", "detach")
    /\ mEventBase' = [mEventBase EXCEPT ![t] = "NULL"]
    /\ UNCHANGED <<mJobQueue, ownerVars, job, mThread, mSemaphore, finished, late>>

Detach(t) ==
    /\ Goto(t, "detach", "e_notify")
    /\ mThread' = [mThread EXCEPT ![t] = "detached"]
    /\ UNCHANGED <<mJobQueue, ownerVars, job, mSemaphore, mEventBase, finished, late>>

NotifyExit(t) ==
    /\ Goto(t, "e_notify", "e_unlock")
    /\ mSemaphore' = [mSemaphore EXCEPT ![t] = @ + 1]
    /\ UNCHANGED <<mJobQueue, ownerVars, job, mThread, mEventBase, finished, late>>

NotifyExitReturn(t) ==
    /\ Goto(t, "e_unlock", "gone")
    /\ UNCHANGED <<mJobQueue, ownerVars, job, threadVars, finished, late>>
-----------------------------------------------------------------------------
(* ThreadPool::~ThreadPool and Thread::~Thread *)

\* The owner decides to delete the pool.
Destroy ==
    /\ opc = "open"
    /\ opc' = "exitjob"
    /\ UNCHANGED <<mJobQueue, idx, tpc, job, threadVars, finished, late>>

\* Mutant: exit jobs overtake the jobs in the queue.
AddExitFirst ==
    /\ opc = "exitjob"
    /\ mJobQueue' = <<idx>> \o mJobQueue
    /\ \/ Waiting = {} /\ UNCHANGED tpc
       \/ \E t \in Waiting : tpc' = [tpc EXCEPT ![t] = "loop"]
    /\ NextIndex("exitjob", "delwait")
    /\ UNCHANGED <<job, threadVars, finished, late>>

\* Mutant: one exit job too few.
AddExitSkipLast ==
    /\ opc = "exitjob"
    /\ IF idx < uiCount THEN PushBack(idx) ELSE UNCHANGED <<mJobQueue, tpc>>
    /\ NextIndex("exitjob", "delwait")
    /\ UNCHANGED <<job, threadVars, finished, late>>

AddExitJob ==
    /\ opc = "exitjob"
    /\ PushBack(idx)
    /\ NextIndex("exitjob", "delwait")
    /\ UNCHANGED <<job, threadVars, finished, late>>

DeleteWait ==
    /\ opc = "delwait"
    /\ Wait(idx)
    /\ opc' = "delfree"
    /\ UNCHANGED <<mJobQueue, idx, tpc, job, mThread, mEventBase, finished, late>>

\* SAFE_DELETE(mThread) and the end of ~Thread.
DeleteThread ==
    /\ opc = "delfree"
    /\ mThread' = [mThread EXCEPT ![idx] = "deleted"]
    /\ NextIndex("delwait", "destroyed")
    /\ UNCHANGED <<mJobQueue, tpc, job, mSemaphore, mEventBase, finished, late>>
-----------------------------------------------------------------------------
OwnerStep ==
    \/ CreateThread \/ AssignHandle \/ StartWait
    \/ AddExitJob \/ DeleteWait \/ DeleteThread

ThreadStep(t) ==
    \/ ThreadInit(t) \/ NotifyStart(t) \/ NotifyStartReturn(t)
    \/ GetNextJob(t) \/ ConditionWait(t) \/ FinishJob(t)
    \/ ThreadDeInit(t) \/ Detach(t) \/ NotifyExit(t) \/ NotifyExitReturn(t)

Next ==
    \/ OwnerStep \/ Destroy
    \/ \E j \in Jobs : ClientAddJob(j)
    \/ \E t \in Threads :
          ThreadStep(t) \/ SpuriousWakeup(t) \/ \E j \in Jobs : JobAddJob(t, j)

Spec == Init /\ [][Next]_vars

\* The scheduler runs every thread that can run, and job routines return.
\* Nobody is obliged to add a job or to delete the pool.
FairSpec ==
    /\ Spec
    /\ WF_vars(OwnerStep)
    /\ \A t \in Threads : WF_vars(ThreadStep(t))
-----------------------------------------------------------------------------
OwnerLabels  == {"new", "assign", "startwait", "open", "exitjob", "delwait",
                 "delfree", "destroyed"}
ThreadLabels == {"none", "starting", "s_notify", "s_unlock", "loop", "waiting",
                 "running", "leaving", "detach", "e_notify", "e_unlock", "gone"}
HandleStates == {"null", "joinable", "detached", "deleted"}
Exiting      == {"leaving", "detach", "e_notify", "e_unlock", "gone"}

\* The types of the state.
TypeOK ==
    /\ mJobQueue \in Seq(Jobs \cup ExitJobs)
    /\ opc \in OwnerLabels
    /\ idx \in Threads
    /\ tpc \in [Threads -> ThreadLabels]
    /\ job \in [Threads -> Jobs \cup ExitJobs \cup {NoJob}]
    /\ mThread \in [Threads -> HandleStates]
    /\ mSemaphore \in [Threads -> Nat]
    /\ mEventBase \in [Threads -> {"NULL", "live"}]
    /\ finished \subseteq Jobs /\ late \subseteq Jobs

\* ~Thread frees the Thread and its semaphore only when the thread will never
\* touch them again: not while it runs jobs, nor inside the last notify().
NoUseAfterDelete ==
    \A t \in Threads : mThread[t] = "deleted" => tpc[t] = "gone"

\* mThread->detach() finds a stored, joinable handle, and SAFE_DELETE(mThread)
\* a detached one (deleting a joinable std::thread calls std::terminate).
HandleSafety ==
    /\ \A t \in Threads : tpc[t] = "detach" => mThread[t] = "joinable"
    /\ opc = "delfree" => mThread[idx] = "detached"

\* A job of a pool with event bases always runs on a live base, and a thread
\* that has left has freed its base.
BaseLiveWhileUsed ==
    \A t \in Threads :
        /\ mBase /\ tpc[t] = "running" => mEventBase[t] = "live"
        /\ tpc[t] = "gone" => mEventBase[t] = "NULL"

\* A job is in the queue, with one thread, or finished, and there only once.
JobInOnePlace ==
    /\ \A k, m \in DOMAIN mJobQueue : mJobQueue[k] = mJobQueue[m] => k = m
    /\ \A t, u \in Threads : job[t] = job[u] /\ job[t] # NoJob => t = u
    /\ Queued \cap {job[t] : t \in Threads} = {}
    /\ finished \cap (Queued \cup Running) = {}

\* No wake-up is lost: while a thread sleeps in mCondition.wait there are at
\* least as many threads on their way to the queue as there are jobs in it.
NoStrandedJob == Waiting # {} => Len(mJobQueue) <= Cardinality(Looping)

\* A job added before the last exit job is never lost: when the destructor
\* returns the queue holds only jobs that were added later, and none of those
\* has run.  (They are leaked.)
DestroyedMeansDone == opc = "destroyed" => Queued = late /\ Running = {}

\* Every exit job ends one thread, and every thread ends by one exit job.
OneExitEach ==
    /\ \A t \in Threads : tpc[t] \in Exiting <=> job[t] \in ExitJobs
    /\ opc = "destroyed" => {job[t] : t \in Threads} = ExitJobs

\* The destructor of the pool returns, provided that routines return.
DestructorReturns == (opc = "exitjob") ~> (opc = "destroyed")

\* The jobs in the queue that will run, and which of them are ahead of which.
Pending == Queued \ (ExitJobs \cup late)
Ahead == {p \in Pending \X Pending :
             \E k, m \in DOMAIN mJobQueue :
                k < m /\ mJobQueue[k] = p[1] /\ mJobQueue[m] = p[2]}

\* The pool takes jobs until the last exit job is in the queue.
Phase == CASE opc \in {"delwait", "delfree"} -> "closing"
           [] opc = "destroyed" -> "closed"
           [] OTHER -> "open"

\* The pool implements JobService: in the order of the queue, each job once,
\* and closed only when all it has taken has finished.
JS == INSTANCE JobService
        WITH Width    <- uiCount,
             pending  <- Pending,
             ahead    <- Ahead,
             running  <- Running,
             dropped  <- late,
             phase    <- Phase

ImplementsJobService == JS!FairSpec
=============================================================================
