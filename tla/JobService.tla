----------------------------- MODULE JobService -----------------------------
(***************************************************************************)
(* What a thread pool promises the code that hands it jobs: jobs start in  *)
(* the order in which they were added, each one once, at most Width at a   *)
(* time; once the pool is closing it takes no further job, finishes the    *)
(* ones it has taken, and only then is closed.  A job added while the pool *)
(* is closing is dropped: it never runs.  ThreadPool.tla implements this.  *)
(***************************************************************************)
EXTENDS Naturals, FiniteSets

CONSTANTS Jobs, Width

VARIABLES pending,   \* jobs taken and not started
          ahead,     \* the pairs of pending jobs whose first was taken first
          running,   \* jobs whose routine is executing
          finished,  \* jobs whose routine has returned
          dropped,   \* jobs added too late
          phase      \* "open", "closing" or "closed"

vars == <<pending, ahead, running, finished, dropped, phase>>

Init ==
    /\ pending = {} /\ ahead = {}
    /\ running = {} /\ finished = {} /\ dropped = {}
    /\ phase = "open"

Known == pending \cup running \cup finished \cup dropped

Accept(j) ==
    /\ phase = "open"
    /\ j \notin Known
    /\ pending' = pending \cup {j}
    /\ ahead' = ahead \cup (pending \X {j})
    /\ UNCHANGED <<running, finished, dropped, phase>>

Drop(j) ==
    /\ phase = "closing"
    /\ j \notin Known
    /\ dropped' = dropped \cup {j}
    /\ UNCHANGED <<pending, ahead, running, finished, phase>>

\* The job that no other one is ahead of.
Start(j) ==
    /\ j \in pending
    /\ \A i \in pending : <<i, j>> \notin ahead
    /\ Cardinality(running) < Width
    /\ running' = running \cup {j}
    /\ pending' = pending \ {j}
    /\ ahead' = ahead \cap (pending' \X pending')
    /\ UNCHANGED <<finished, dropped, phase>>

Finish(j) ==
    /\ j \in running
    /\ running' = running \ {j}
    /\ finished' = finished \cup {j}
    /\ UNCHANGED <<pending, ahead, dropped, phase>>

Close ==
    /\ phase = "open"
    /\ phase' = "closing"
    /\ UNCHANGED <<pending, ahead, running, finished, dropped>>

Shut ==
    /\ phase = "closing"
    /\ pending = {} /\ running = {}
    /\ phase' = "closed"
    /\ UNCHANGED <<pending, ahead, running, finished, dropped>>

Next ==
    \/ \E j \in Jobs : Accept(j) \/ Drop(j) \/ Start(j) \/ Finish(j)
    \/ Close \/ Shut

Spec == Init /\ [][Next]_vars

\* Jobs are started while there is room, routines return, and a closing
\* pool closes.
FairSpec ==
    /\ Spec
    /\ WF_vars(\E j \in Jobs : Start(j)) /\ WF_vars(Shut)
    /\ \A j \in Jobs : WF_vars(Finish(j))
=============================================================================
