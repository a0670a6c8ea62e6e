------------------------- MODULE CountingSemaphore -------------------------
(***************************************************************************)
(* What a counting semaphore promises its callers: notify() adds a permit, *)
(* wait() returns only by taking one, try_wait() takes one or is refused   *)
(* at a moment when there is none.  Every operation takes effect in one    *)
(* step between its call and its return.  Semaphore.tla, the translation   *)
(* of the mutex and condition variable code, implements this module.       *)
(***************************************************************************)
EXTENDS Naturals

CONSTANT Procs

VARIABLES permits,  \* permits nobody has taken
          op        \* op[p]: how far p's current operation has come

vars == <<permits, op>>

OpStates == {"idle", "notify", "notified", "wait", "try", "acquired", "refused"}

Init == permits = 0 /\ op = [p \in Procs |-> "idle"]

Call(p, what) ==
    /\ op[p] = "idle"
    /\ op' = [op EXCEPT ![p] = what]
    /\ UNCHANGED permits

Post(p) ==
    /\ op[p] = "notify"
    /\ permits' = permits + 1
    /\ op' = [op EXCEPT ![p] = "notified"]

Take(p) ==
    /\ op[p] \in {"wait", "try"}
    /\ permits > 0
    /\ permits' = permits - 1
    /\ op' = [op EXCEPT ![p] = "acquired"]

Refuse(p) ==
    /\ op[p] = "try"
    /\ permits = 0
    /\ op' = [op EXCEPT ![p] = "refused"]
    /\ UNCHANGED permits

Return(p) ==
    /\ op[p] \in {"notified", "acquired", "refused"}
    /\ op' = [op EXCEPT ![p] = "idle"]
    /\ UNCHANGED permits

Next ==
    \E p \in Procs :
        \/ \E what \in {"notify", "wait", "try"} : Call(p, what)
        \/ Post(p) \/ Take(p) \/ Refuse(p) \/ Return(p)

Spec == Init /\ [][Next]_vars
============================================================================
