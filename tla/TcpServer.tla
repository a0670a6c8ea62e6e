----------------------------- MODULE TcpServer -----------------------------
(***************************************************************************)
(* TcpListener (tcp-listener.cpp) and TcpServer (tcp-server.cpp).  The     *)
(* listener is a pool of one thread; its job arms a one-shot event on the  *)
(* listening socket and runs the event loop, and the callback of the event *)
(* accepts one connection and queues the next such job.  A connection is a *)
(* job of the worker pool: the worker that takes it runs its event loop    *)
(* until that connection has nothing left to wait for.  A local event is a *)
(* job too, and keeps its worker until its timer expires.                  *)
(*                                                                         *)
(* External, as the code uses them: ThreadPool is a FIFO of jobs           *)
(* (JobService.tla); libevent's event_base_dispatch returns when no event  *)
(* is pending; a bufferevent that has reported end of file or an error no  *)
(* longer waits for that direction.  The server is never destroyed: both   *)
(* destructors are empty.                                                  *)
(***************************************************************************)
EXTENDS Integers, Sequences, FiniteSetsExt

CONSTANTS Peers,     \* remote clients, each with one connection
          Locals,    \* the timers given to newLocalEvent
          Workers,   \* the threads of mWorkerPool (eight in start())
          MaxSent,   \* bound on the bytes that all peers send
          Nobody     \* no job, no client

ASSUME NamesDiffer == Nobody \notin Peers \cup Locals /\ Peers \cap Locals = {}
ASSUME SomeWorker == Workers # {} /\ MaxSent \in Nat

VARIABLES
    backlog,    \* connections the kernel has completed and nobody has accepted
    sent,       \* sent[c]: the number of bytes c has sent
    closed,     \* the peers that have closed their end
    listener,   \* the statement of the listener's thread
    accepted,   \* the connection the listener is handling, or None
    listenJobs, \* jobs in the queue of the listener's pool
    queued,     \* mWorkerPool's queue
    worker,     \* worker[w]: the job whose event loop w runs, or None
    read,       \* read[c]: the number of bytes handed to OnMessage
    output,     \* connections with a reply that is not written yet
    waits,      \* waits[c]: the directions c's bufferevent still waits for
    asked,      \* the local events handed to newLocalEvent
    fired,      \* the local events whose callback has been called
    calls       \* calls[c]: the callbacks made for c, in order

kernel == <<backlog, sent, closed>>
listening == <<listener, accepted, listenJobs>>
serving == <<worker, read, output, waits>>
locals == <<asked, fired>>
serverVars == <<kernel, listening, queued, serving, locals, calls>>

ServerInit ==
    /\ backlog = <<>>
    /\ sent = [c \in Peers |-> 0]
    /\ closed = {}
    /\ listener = "new"
    /\ accepted = Nobody
    /\ listenJobs = 0
    /\ queued = <<>>
    /\ worker = [w \in Workers |-> Nobody]
    /\ read = [c \in Peers |-> 0]
    /\ output = {}
    /\ waits = [c \in Peers |-> {}]
    /\ asked = {} /\ fired = {}
    /\ calls = [c \in Peers |-> <<>>]

Called(c, what) == calls' = [calls EXCEPT ![c] = Append(@, what)]
InQueue(j) == {i \in 1..Len(queued) : queued[i] = j}
ServedBy(j) == {w \in Workers : worker[w] = j}
\* c has reached the kernel; c has been accepted.
Reached(c) == c \in closed \/ sent[c] > 0 \/ \E i \in 1..Len(backlog) : backlog[i] = c
Accepted(c) == accepted = c \/ InQueue(c) # {} \/ ServedBy(c) # {} \/ calls[c] # <<>>
----------------------------------------------------------------------------
(* The peers and the kernel *)

\* The kernel completes a connection as soon as the socket listens.
Connect(c) ==
    /\ listener # "new"
    /\ ~Reached(c) /\ ~Accepted(c)
    /\ backlog' = Append(backlog, c)
    /\ UNCHANGED <<sent, closed, listening, queued, serving, locals, calls>>

Send(c) ==
    /\ Reached(c) \/ Accepted(c)
    /\ c \notin closed
    /\ MapThenSumSet(LAMBDA p : sent[p], Peers) < MaxSent
    /\ sent' = [sent EXCEPT ![c] = @ + 1]
    /\ UNCHANGED <<backlog, closed, listening, queued, serving, locals, calls>>

Close(c) ==
    /\ Reached(c) \/ Accepted(c)
    /\ c \notin closed
    /\ closed' = closed \cup {c}
    /\ UNCHANGED <<backlog, sent, listening, queued, serving, locals, calls>>
----------------------------------------------------------------------------
(* The listener *)

\* TcpListener::start(): the socket listens and the first job is queued.
ListenerStart == listener' = "idle" /\ listenJobs' = 1

\* TcpServer::start()
Start ==
    /\ listener = "new"
    /\ ListenerStart
    /\ UNCHANGED <<kernel, accepted, queued, serving, locals, calls>>

\* eventDispatch(): arm the event, run the loop.
eventDispatch ==
    /\ listener = "idle" /\ listenJobs > 0
    /\ listener' = "armed"
    /\ listenJobs' = listenJobs - 1
    /\ UNCHANGED <<kernel, accepted, queued, serving, locals, calls>>

\* acceptConnection() up to accept(): the event is one-shot.  Out of
\* descriptors, accept fails and the connection stays in the backlog.
acceptFails ==
    /\ listener = "armed" /\ backlog # <<>>
    /\ listener' = "rearm"
    /\ UNCHANGED <<kernel, accepted, listenJobs, queued, serving, locals, calls>>

acceptConnection ==
    /\ listener = "armed" /\ backlog # <<>>
    /\ accepted' = Head(backlog)
    /\ backlog' = Tail(backlog)
    /\ listener' = "handle"
    /\ UNCHANGED <<sent, closed, listenJobs, queued, serving, locals, calls>>

\* handleConnection(): the job first, then the callback.
handleConnection ==
    /\ listener = "handle"
    /\ queued' = Append(queued, accepted)
    /\ listener' = "callback"
    /\ UNCHANGED <<kernel, accepted, listenJobs, serving, locals, calls>>

connectionCallback ==
    /\ listener = "callback"
    /\ Called(accepted, "connection")
    /\ accepted' = Nobody
    /\ listener' = "rearm"
    /\ UNCHANGED <<kernel, listenJobs, queued, serving, locals>>

\* Mutant: the listener is armed again only after a connection was accepted.
rearmAccepted ==
    /\ listener = "rearm"
    /\ listenJobs' = IF backlog = <<>> THEN listenJobs + 1 ELSE listenJobs
    /\ listener' = "returning"
    /\ UNCHANGED <<kernel, accepted, queued, serving, locals, calls>>

\* The end of acceptConnection(): a job that arms the event again.
rearm ==
    /\ listener = "rearm"
    /\ listenJobs' = listenJobs + 1
    /\ listener' = "returning"
    /\ UNCHANGED <<kernel, accepted, queued, serving, locals, calls>>

\* No event is pending: event_base_dispatch returns and the job is done.
listenReturns ==
    /\ listener = "returning"
    /\ listener' = "idle"
    /\ UNCHANGED <<kernel, accepted, listenJobs, queued, serving, locals, calls>>
----------------------------------------------------------------------------
(* The workers *)

newLocalEvent(e) ==
    /\ listener # "new" /\ e \notin asked
    /\ asked' = asked \cup {e}
    /\ queued' = Append(queued, e)
    /\ UNCHANGED <<kernel, listening, serving, fired, calls>>

\* workerRoutine() or localEventRoutine() up to event_base_dispatch.
workerRoutine(w) ==
    /\ worker[w] = Nobody /\ queued # <<>>
    /\ worker' = [worker EXCEPT ![w] = Head(queued)]
    /\ queued' = Tail(queued)
    /\ waits' = IF Head(queued) \in Peers
                  THEN [waits EXCEPT ![Head(queued)] = {"read", "write"}] ELSE waits
    /\ UNCHANGED <<kernel, listening, read, output, locals, calls>>

\* _onRead, readMessage(): some of what has arrived.  The callback may reply.
readMessage(w, c) ==
    /\ worker[w] = c /\ "read" \in waits[c]
    /\ \E n \in (read[c] + 1)..sent[c] : read' = [read EXCEPT ![c] = n]
    /\ \E reply \in BOOLEAN : output' = IF reply THEN output \cup {c} ELSE output
    /\ Called(c, "message")
    /\ UNCHANGED <<kernel, listening, queued, worker, waits, locals>>

\* The reply is written.
written(w, c) ==
    /\ worker[w] = c /\ c \in output /\ "write" \in waits[c]
    /\ output' = output \ {c}
    /\ UNCHANGED <<kernel, listening, queued, worker, read, waits, locals, calls>>

\* Mutant: onError() frees the bufferevent, whatever the direction.
onErrorFrees(w, c, direction) ==
    /\ worker[w] = c /\ direction \in waits[c] /\ c \in closed
    /\ IF direction = "read" THEN read[c] = sent[c] ELSE c \in output
    /\ waits' = [waits EXCEPT ![c] = {}]
    /\ Called(c, "disconnect")
    /\ UNCHANGED <<kernel, listening, queued, worker, read, output, locals>>

\* _onError, onError(): end of file when everything has been read.  Writing to a
\* peer that has closed may fail as well: that calls onError too, the reply stays in
\* the buffer, and what the peer sent before it closed is still read.
onError(w, c, direction) ==
    /\ worker[w] = c /\ direction \in waits[c] /\ c \in closed
    /\ IF direction = "read" THEN read[c] = sent[c] ELSE c \in output
    /\ waits' = [waits EXCEPT ![c] = @ \ {direction}]
    /\ Called(c, "disconnect")
    /\ UNCHANGED <<kernel, listening, queued, worker, read, output, locals>>

\* c's bufferevent has an event in the base: to read, or to write what is there.
\* After a write error nothing is added for a reply, however long it lies there.
Pending(c) == "read" \in waits[c] \/ ("write" \in waits[c] /\ c \in output)

\* No event is pending: dispatch returns.
workerReturns(w) ==
    /\ worker[w] \in Peers
    /\ ~Pending(worker[w])
    /\ worker' = [worker EXCEPT ![w] = Nobody]
    /\ UNCHANGED <<kernel, listening, queued, read, output, waits, locals, calls>>

\* Mutant: localEventRoutine() does not add the timer, so dispatch returns.
neverAdded(w) ==
    /\ worker[w] \in Locals
    /\ worker' = [worker EXCEPT ![w] = Nobody]
    /\ UNCHANGED <<kernel, listening, queued, read, output, waits, locals, calls>>

\* onTimerExpiry(); the timer was the only event, so dispatch returns.
onTimerExpiry(w) ==
    /\ worker[w] \in Locals
    /\ fired' = fired \cup {worker[w]}
    /\ worker' = [worker EXCEPT ![w] = Nobody]
    /\ UNCHANGED <<kernel, listening, queued, read, output, waits, asked, calls>>
----------------------------------------------------------------------------
ListenerStep ==
    \/ eventDispatch \/ acceptConnection \/ handleConnection
    \/ connectionCallback \/ rearm \/ listenReturns

WorkerStep(w) ==
    \/ workerRoutine(w)
    \/ \E c \in Peers :
          readMessage(w, c) \/ written(w, c) \/ \E d \in {"read", "write"} : onError(w, c, d)
    \/ workerReturns(w) \/ onTimerExpiry(w)

ServerNext ==
    \/ \E c \in Peers : Connect(c) \/ Send(c) \/ Close(c)
    \/ \E e \in Locals : newLocalEvent(e)
    \/ Start \/ ListenerStep \/ acceptFails
    \/ \E w \in Workers : WorkerStep(w)

ServerSpec == ServerInit /\ [][ServerNext]_serverVars

\* The threads run, accept does not fail for ever (strong fairness: a failure
\* disarms the event, the next job arms it again), and a timer expires.  Peers
\* need not send or close.
FairServerSpec ==
    /\ ServerSpec
    /\ WF_serverVars(ListenerStep)
    /\ SF_serverVars(acceptConnection)
    /\ \A w \in Workers : WF_serverVars(WorkerStep(w))
----------------------------------------------------------------------------
\* Who has connection c: the kernel, acceptConnection(), the queue, or a worker.
Holders(c) ==
    {<<"backlog", i>> : i \in {i \in 1..Len(backlog) : backlog[i] = c}}
    \cup {<<"listener", i>> : i \in {i \in {1} : listener = "handle" /\ accepted = c}}
    \cup {<<"queue", i>> : i \in InQueue(c)}
    \cup {<<"worker", w>> : w \in ServedBy(c)}

\* Every byte has been handed to OnMessage, and OnDisconnect was called after the last.
Finished(c) ==
    /\ c \in closed /\ read[c] = sent[c]
    /\ \E i \in 1..Len(calls[c]) :
          /\ calls[c][i] = "disconnect"
          /\ \A j \in 1..Len(calls[c]) : j > i => calls[c][j] # "message"

\* On its way from the listener's thread through the queue to a worker a connection
\* is never dropped and never held twice, however accepts fail and callbacks
\* interleave; and its worker lets go of it only when all that the peer sent has been
\* handed over and its end was reported behind it, although a reply that cannot be
\* written reports a disconnect of its own while bytes are unread
\* (acceptConnection, handleConnection, workerRoutine, onError).
ServedToTheEnd ==
    \A c \in Peers : Reached(c) \/ Accepted(c) =>
        \/ \E h \in Holders(c) : Holders(c) = {h}
        \/ Holders(c) = {} /\ Finished(c)

\* A connection that reached the backlog is accepted, whatever the workers do and
\* however often accept fails (tcp-listener.cpp:70-81).  And if no peer keeps its
\* connection for ever, everyone who is queued gets a worker, and so does a local
\* event: nine connections on eight threads wait for the first to close
\* (tcp-server.cpp:151-176).
EveryoneServed ==
    /\ \A c \in Peers : backlog # <<>> /\ Head(backlog) = c ~> Accepted(c)
    /\ (\A c \in Peers : []<>(ServedBy(c) = {})) =>
          /\ \A c \in Peers : InQueue(c) # {} ~> ServedBy(c) # {}
          /\ \A e \in Locals : e \in asked ~> e \in fired
============================================================================
