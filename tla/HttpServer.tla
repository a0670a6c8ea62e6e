----------------------------- MODULE HttpServer -----------------------------
(***************************************************************************)
(* HttpServer and HttpThread (http/server/http-server.cpp,                 *)
(* http-thread.cpp): one event base per thread, all of them accepting on   *)
(* one shared socket, a queue of jobs that first make each thread run its  *)
(* loop and then make it exit.                                             *)
(*                                                                         *)
(* External, as the code uses it: libevent without evthread_use_pthreads.  *)
(* event_base_loopexit from another thread leaves an active event in the   *)
(* base and wakes nobody; the loop sees it when it next comes round, and   *)
(* does not sleep while one is there.  A loop that sleeps wakes up when    *)
(* the shared socket has a connection to accept or a request arrives on a  *)
(* connection it has accepted; a connection wakes any of the loops that    *)
(* listen.  Every evhttp_bound_socket closes the shared descriptor when it *)
(* is freed.  The Thread's own life is ThreadPool.tla's: start() returns   *)
(* when init() is done, the destructor when deinit() is.                   *)
(***************************************************************************)
EXTENDS Integers, Sequences, FiniteSets

CONSTANTS Counts,      \* the numbers of threads the constructor may be given
          Clients      \* remote clients: one connection with one request each

ASSUME CountsArePositive == Counts \subseteq Nat \ {0}

VARIABLES
    uiCount,    \* the number of threads
    owner,      \* <<statement, thread>> of the constructor and the destructor
    thread,     \* thread[t]: what thread t is doing
    mJobQueue,
    handler,    \* handler[t]: its OnRequest: "null", "set" (not bound), "bound"
    exitEvent,  \* the threads whose base holds an active loopexit event
    evhttp,     \* the threads whose evhttp accepts on the shared socket
    socket,     \* the shared descriptor: "none", "open", "closed"
    backlog,    \* connections that nobody has accepted yet
    conn,       \* conn[c]: how far client c has come
    by,         \* by[c]: the thread that accepted c, 0 before
    late        \* clients that connected since the handlers were last set and bound

sockets == <<evhttp, socket>>
vars == <<uiCount, owner, thread, mJobQueue, handler, exitEvent, sockets, backlog, conn, by, late>>

Threads == 1..uiCount
\* The connections that the destructor makes to its own port.
Wakes == {<<"wake", i>> : i \in Threads}

Init ==
    /\ uiCount \in Counts
    /\ owner = <<"create", 1>>
    /\ thread = [t \in Threads |-> "none"]
    /\ mJobQueue = <<>>
    /\ handler = [t \in Threads |-> "null"]
    /\ exitEvent = {}
    /\ evhttp = {} /\ socket = "none"
    /\ backlog = <<>>
    /\ conn = [c \in Clients |-> "out"]
    /\ by = [c \in Clients |-> 0]
    /\ late = {}

addJob(job) == mJobQueue' = Append(mJobQueue, job)
\* The loop over the threads: the same statement for the next one, or the next.
Following(here, i, there) == IF i < uiCount THEN <<here, i + 1>> ELSE <<there, 1>>
----------------------------------------------------------------------------
(* HttpServer(): createThreads() *)

\* init(): the first thread binds the socket, the others accept on its descriptor.
init(i) ==
    /\ evhttp' = evhttp \cup {i}
    /\ socket' = IF socket = "none" THEN "open" ELSE socket

\* new HttpThread, start() up to the end of init(), and the job that runs the loop.
CreateThread(i) ==
    /\ owner = <<"create", i>>
    /\ thread' = [thread EXCEPT ![i] = "idle"]
    /\ init(i)
    /\ addJob("dispatch")
    /\ owner' = Following("create", i, "set")
    /\ UNCHANGED <<handler, exitEvent, backlog, conn, by, late>>

\* onRequest(...) sets the function, .bind(this) the object.
SetHandler(i) ==
    /\ owner = <<"set", i>>
    /\ handler' = [handler EXCEPT ![i] = "set"]
    /\ owner' = <<"bind", i>>
    /\ UNCHANGED <<thread, mJobQueue, exitEvent, sockets, backlog, conn, by, late>>

\* Mutant: the object is bound for the first thread only.
BindFirst(i) ==
    /\ owner = <<"bind", i>>
    /\ handler' = [handler EXCEPT ![i] = IF i = 1 THEN "bound" ELSE "set"]
    /\ owner' = Following("set", i, "live")
    /\ UNCHANGED <<thread, mJobQueue, exitEvent, sockets, backlog, conn, by, late>>

BindHandler(i) ==
    /\ owner = <<"bind", i>>
    /\ handler' = [handler EXCEPT ![i] = "bound"]
    /\ owner' = Following("set", i, "live")
    /\ UNCHANGED <<thread, mJobQueue, exitEvent, sockets, backlog, conn, by, late>>

\* HttpServer::onRequest() replaces the handler of every thread while the loops run:
\* the same two steps, between which a new function meets the old object.
onRequest ==
    /\ owner = <<"live", 1>>
    /\ owner' = <<"set", 1>>
    /\ late' = {}
    /\ UNCHANGED <<thread, mJobQueue, handler, exitEvent, sockets, backlog, conn, by>>
----------------------------------------------------------------------------
(* The threads *)

\* threadGetNextJob_() and _workerRoutine() up to the loop.
GetNextJob(t) ==
    /\ thread[t] = "idle" /\ mJobQueue # <<>>
    /\ thread' = [thread EXCEPT ![t] = IF Head(mJobQueue) = "dispatch" THEN "awake" ELSE "leaving"]
    /\ mJobQueue' = Tail(mJobQueue)
    /\ UNCHANGED <<owner, handler, exitEvent, sockets, backlog, conn, by, late>>

Requested(t) == {c \in Clients : by[c] = t /\ conn[c] = "requested"}
\* Connections with something to read or, after a reply, to write.
Ready(t) == {c \in Clients : by[c] = t /\ conn[c] \in {"requested", "replied"}}
\* epoll_wait has something for thread t.
Due(t) == (t \in evhttp /\ backlog # <<>>) \/ Ready(t) # {}

\* Nothing is active: the loop waits in epoll_wait, and stays there.
Sleep(t) ==
    /\ thread[t] = "awake" /\ t \notin exitEvent /\ ~Due(t)
    /\ thread' = [thread EXCEPT ![t] = "asleep"]
    /\ UNCHANGED <<owner, mJobQueue, handler, exitEvent, sockets, backlog, conn, by, late>>

\* epoll_wait returns; another thread may be faster to accept.
Wake(t) ==
    /\ thread[t] = "asleep" /\ Due(t)
    /\ thread' = [thread EXCEPT ![t] = "awake"]
    /\ UNCHANGED <<owner, mJobQueue, handler, exitEvent, sockets, backlog, conn, by, late>>

\* The listener's callback accepts a connection.
Accept(t) ==
    /\ thread[t] = "awake" /\ t \in evhttp /\ backlog # <<>>
    /\ backlog' = Tail(backlog)
    /\ IF Head(backlog) \in Wakes
         THEN UNCHANGED <<conn, by>>
         ELSE /\ conn' = [conn EXCEPT ![Head(backlog)] = "accepted"]
              /\ by' = [by EXCEPT ![Head(backlog)] = t]
    /\ UNCHANGED <<owner, thread, mJobQueue, handler, exitEvent, sockets, late>>

\* Mutant: the request is handled without a reply for a path without a route.
NoReply(t, c) ==
    /\ thread[t] = "awake" /\ c \in Requested(t)
    /\ \E routed \in BOOLEAN :
          conn' = [conn EXCEPT ![c] = IF routed THEN "replied" ELSE "dropped"]
    /\ UNCHANGED <<owner, thread, mJobQueue, handler, exitEvent, sockets, backlog, by, late>>

\* onRequestEvent(): the route's callback or send400BadRequest replies.  So does, it is
\* assumed, a handler of the owner's.
onRequestEvent == "replied"

\* OnRequest::fire(): without a handler nobody replies; a handler that is not bound
\* is called with whatever this_ happens to be.
fire(t) ==
    CASE handler[t] = "bound" -> onRequestEvent
      [] handler[t] = "set" -> "astray"
      [] OTHER -> "dropped"

\* onEvRequest(): the Request is made, handled and deleted.
onEvRequest(t, c) ==
    /\ thread[t] = "awake" /\ c \in Requested(t)
    /\ conn' = [conn EXCEPT ![c] = fire(t)]
    /\ UNCHANGED <<owner, thread, mJobQueue, handler, exitEvent, sockets, backlog, by, late>>

\* The reply is written: _onEvRequestComplete() gets the Request, deleted by now,
\* and reads its mThreadCtxt, which nothing then looks into: whatever it finds
\* there, it only writes a line of log.
onEvRequestComplete(t, c) ==
    /\ thread[t] = "awake" /\ by[c] = t /\ conn[c] = "replied"
    /\ conn' = [conn EXCEPT ![c] = "complete"]
    /\ UNCHANGED <<owner, thread, mJobQueue, handler, exitEvent, sockets, backlog, by, late>>

\* The loopexit event is processed: the loop ends, and the job with it.
LoopExit(t) ==
    /\ thread[t] = "awake" /\ t \in exitEvent
    /\ exitEvent' = exitEvent \ {t}
    /\ thread' = [thread EXCEPT ![t] = "idle"]
    /\ UNCHANGED <<owner, mJobQueue, handler, sockets, backlog, conn, by, late>>

\* deinit(): evhttp_del_accept_socket closes the descriptor, evhttp_free the
\* thread's connections; the connections in the backlog of a closed socket are
\* reset.  Thread::run frees the base.
Deinit(t) ==
    /\ thread[t] = "leaving"
    /\ evhttp' = evhttp \ {t}
    /\ socket' = "closed"
    /\ conn' = [c \in Clients |->
                  IF by[c] = t \/ \E i \in 1..Len(backlog) : backlog[i] = c THEN "reset" ELSE conn[c]]
    /\ backlog' = <<>>
    /\ exitEvent' = exitEvent \ {t}
    /\ thread' = [thread EXCEPT ![t] = "left"]
    /\ UNCHANGED <<owner, mJobQueue, handler, by, late>>
----------------------------------------------------------------------------
(* The clients *)

\* A client connects as soon as the socket listens, and then sends its request.
Connect(c) ==
    /\ conn[c] = "out" /\ socket = "open"
    /\ conn' = [conn EXCEPT ![c] = "connected"]
    /\ backlog' = Append(backlog, c)
    /\ late' = IF owner[1] \in {"create", "set", "bind"} THEN late ELSE late \cup {c}
    /\ UNCHANGED <<owner, thread, mJobQueue, handler, exitEvent, sockets, by>>

SendRequest(c) ==
    /\ conn[c] = "accepted"
    /\ conn' = [conn EXCEPT ![c] = "requested"]
    /\ UNCHANGED <<owner, thread, mJobQueue, handler, exitEvent, sockets, backlog, by, late>>
----------------------------------------------------------------------------
(* ~HttpServer() *)

Destroy ==
    /\ owner = <<"live", 1>>
    /\ owner' = <<"loopexit", 1>>
    /\ UNCHANGED <<thread, mJobQueue, handler, exitEvent, sockets, backlog, conn, by, late>>

\* event_base_loopexit.  The base of a thread that has left is gone, and
\* getEventBase() is NULL: that ends the process.
SendLoopExit(i) ==
    /\ owner = <<"loopexit", i>>
    /\ IF thread[i] = "left"
         THEN owner' = <<"fault", i>> /\ UNCHANGED exitEvent
         ELSE owner' = <<"connect", i>> /\ exitEvent' = exitEvent \cup {i}
    /\ UNCHANGED <<thread, mJobQueue, handler, sockets, backlog, conn, by, late>>

\* Mutant: no connection to wake the loop.
NoConnect(i) ==
    /\ owner = <<"connect", i>>
    /\ owner' = <<"exit", i>>
    /\ UNCHANGED <<thread, mJobQueue, handler, exitEvent, sockets, backlog, conn, by, late>>

\* connect() to the shared port, refused when the socket is closed.
ConnectSelf(i) ==
    /\ owner = <<"connect", i>>
    /\ backlog' = IF socket = "open" THEN Append(backlog, <<"wake", i>>) ELSE backlog
    /\ owner' = <<"exit", i>>
    /\ UNCHANGED <<thread, mJobQueue, handler, exitEvent, sockets, conn, by, late>>

AddExitJob(i) ==
    /\ owner = <<"exit", i>>
    /\ addJob("exit")
    /\ owner' = Following("loopexit", i, "delete")
    /\ UNCHANGED <<thread, handler, exitEvent, sockets, backlog, conn, by, late>>

\* ~Thread waits for the thread to leave.
DeleteThread(i) ==
    /\ owner = <<"delete", i>>
    /\ thread[i] = "left"
    /\ owner' = Following("delete", i, "gone")
    /\ UNCHANGED <<thread, mJobQueue, handler, exitEvent, sockets, backlog, conn, by, late>>
----------------------------------------------------------------------------
ThreadStep(t) ==
    /\ t \in Threads /\ UNCHANGED uiCount
    /\ \/ GetNextJob(t) \/ Sleep(t) \/ Wake(t) \/ Accept(t)
       \/ \E c \in Clients : onEvRequest(t, c) \/ onEvRequestComplete(t, c)
       \/ LoopExit(t) \/ Deinit(t)

OwnerStep ==
    /\ UNCHANGED uiCount
    /\ \E i \in Threads :
          \/ CreateThread(i) \/ SetHandler(i) \/ BindHandler(i)
          \/ SendLoopExit(i) \/ ConnectSelf(i) \/ AddExitJob(i) \/ DeleteThread(i)

\* What need not happen: clients that connect and send, the calls of the owner.
FreeStep ==
    /\ UNCHANGED uiCount
    /\ onRequest \/ Destroy \/ \E c \in Clients : Connect(c) \/ SendRequest(c)

Next == (\E t \in Threads : ThreadStep(t)) \/ OwnerStep \/ FreeStep

Spec == Init /\ [][Next]_vars

\* The threads and the owner run.
FairSpec ==
    /\ Spec
    /\ WF_vars(OwnerStep)
    /\ \A t \in UNION {1..n : n \in Counts} : WF_vars(ThreadStep(t))
----------------------------------------------------------------------------
(* Properties *)

\* The request of a client that connects while every handler is set and bound is
\* answered, and the answer goes out, whichever thread accepts it: it is not dropped
\* without a reply and does not go to an object that is not bound.  Excepted are a
\* server that is destroyed first, which resets the connection, and one whose
\* handlers the owner replaces meanwhile (createThreads, onRequest, onEvRequest).
Answered ==
    \A c \in Clients :
        (c \in late /\ conn[c] = "requested") ~> (conn[c] \in {"complete", "reset"} \/ c \notin late)

\* ~HttpServer() returns.
DestructorReturns == (owner[1] = "loopexit") ~> (owner[1] = "gone")

\* ~HttpServer() returns for a server of one thread: the connection that it makes
\* after event_base_loopexit is there to wake the loop.
OneThreadStops == (uiCount = 1 /\ owner[1] = "loopexit") ~> (owner[1] = "gone")
============================================================================
