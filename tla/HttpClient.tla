----------------------------- MODULE HttpClient -----------------------------
(***************************************************************************)
(* HttpClientImpl, HttpConnection and HttpRequest (http/client/*.cpp):     *)
(* requests to one host and port, from several threads, over connections   *)
(* that are kept for reuse, answered on the thread of the client's pool.   *)
(*                                                                         *)
(* getConnectionId() is the same for all connections of a client, so that  *)
(* mConnections holds at most one, the first, and mFree at most one id.    *)
(*                                                                         *)
(* External, as the code uses it: libevent's evhttp_connection, made       *)
(* without locks and freed on completion.  It queues requests, connects    *)
(* when it has one, calls each request's callback once, calls the close    *)
(* callback when a connection that was up goes down, and then frees itself *)
(* if no request is queued.  A loop runs in one thread at a time;          *)
(* event_base_dispatch returns at once in another.                         *)
(* Each call of libevent is one step: what a race inside one may do to the *)
(* base is left out.                                                       *)
(*                                                                         *)
(* Identities: the HttpConnection and the evhttp_connection that open()    *)
(* creates for request r are both called r.                                *)
(***************************************************************************)
EXTENDS Integers, Sequences, FiniteSets

CONSTANTS Requests,     \* HttpRequests, each used once
          Users,        \* the threads that make them
          Pool,         \* the thread of the client's pool
          None

ASSUME NoneIsNoRequest == None \notin Requests /\ None \notin Users
ASSUME NoneIsNoPair == None \notin Requests \X Requests
ASSUME PoolIsNoUser == Pool \notin Users /\ Pool # None

VARIABLES
    peerCloses,    \* whether the server closes connections, or may not be there
    user,          \* user[u]: <<statement, request>> of the thread u
    mMutex,        \* None, or the thread that is in open()
    mConnections,  \* the HttpConnection in the map, or None
    mFree,         \* whether the id is in the set
    connection,    \* connection[c]: the evhttp_connection of HttpConnection c, or None
    closecb,       \* closecb[v]: the HttpConnection to be told that v is closed
    link,          \* link[v]: "none", "down", "up", "freed"
    queue,         \* queue[v]: the requests that v has not completed
    context,       \* context[r]: the HttpConnection of request r, or None
    target,        \* target[r]: what getConnection() gave send() for r, None before
    jobs,          \* dispatch jobs that the pool's thread has not taken
    runner,        \* who runs the loop: None, Pool or a user
    closing,       \* the evhttp_connection whose response asked for a close, and its
                   \* request, between the close callback and the request's; or None
    done,          \* requests whose onLoad has been called
    halted         \* "no", "null" (a null connection was used), "freed" (one that was
                   \* freed), "self" (locked twice)

client == <<mConnections, mFree>>
evhttp == <<closecb, link, queue>>
requests == <<context, target, done>>
vars == <<peerCloses, user, mMutex, client, connection, evhttp, requests, jobs, runner, closing, halted>>

Init ==
    /\ peerCloses \in BOOLEAN
    /\ user = [u \in Users |-> <<"user", None>>]
    /\ mMutex = None
    /\ mConnections = None /\ mFree = FALSE
    /\ connection = [c \in Requests |-> None]
    /\ closecb = [v \in Requests |-> None]
    /\ link = [v \in Requests |-> "none"]
    /\ queue = [v \in Requests |-> <<>>]
    /\ context = [r \in Requests |-> None]
    /\ target = [r \in Requests |-> None]
    /\ jobs = 0 /\ runner = None
    /\ closing = None
    /\ done = {}
    /\ halted = "no"

Running == halted = "no"
Goto(u, where) == user' = [user EXCEPT ![u] = where]
\* An evhttp_connection that waits for something keeps the loop going: for the
\* connection to be made, a response, or a close.
Waiting == {v \in Requests : link[v] = "up" \/ (link[v] = "down" /\ queue[v] # <<>>)}
----------------------------------------------------------------------------
(* HttpRequest::open, HttpClientImpl::open *)

\* Mutant: a connection is used again whether it is free or not.
AnyConnection(r) == IF mConnections # None THEN mConnections ELSE r

\* The connection of the free id, or a new one.
ConnectionFor(r) == IF mFree THEN mConnections ELSE r

\* The lock, and the connection.  The map does not take a new one if it has one.
open(u, r) ==
    /\ Running /\ user[u] = <<"user", None>> /\ context[r] = None
    /\ mMutex = None
    /\ mMutex' = u
    /\ context' = [context EXCEPT ![r] = ConnectionFor(r)]
    /\ mConnections' = IF mConnections = None THEN r ELSE mConnections
    /\ Goto(u, <<"connect", r>>)
    /\ UNCHANGED <<mFree, connection, evhttp, target, jobs, runner, closing, done, halted>>

\* connect(): a connection that has its evhttp_connection runs the event loop first,
\* under the lock.
connectDispatch(u, r) ==
    /\ Running /\ user[u] = <<"connect", r>> /\ connection[context[r]] # None
    /\ IF runner = None
         THEN runner' = u /\ Goto(u, <<"loop", r>>)
         ELSE Goto(u, <<"connected", r>>) /\ UNCHANGED runner
    /\ UNCHANGED <<mMutex, client, connection, evhttp, context, target, jobs, closing, done, halted>>

connectNew(u, r) ==
    /\ Running /\ user[u] = <<"connect", r>> /\ connection[context[r]] = None
    /\ Goto(u, <<"connected", r>>)
    /\ UNCHANGED <<mMutex, client, connection, evhttp, context, target, jobs, runner, closing, done, halted>>

dispatchReturns(u, r) ==
    /\ Running /\ user[u] = <<"loop", r>> /\ Waiting = {} /\ closing = None
    /\ runner' = None
    /\ Goto(u, <<"connected", r>>)
    /\ UNCHANGED <<mMutex, client, connection, evhttp, context, target, jobs, closing, done, halted>>

\* The rest of connect() and of open(): a new evhttp_connection if there is none,
\* its close callback, busy, the id taken from the set, the lock given up.
opened(u, r) ==
    /\ Running /\ user[u] = <<"connected", r>>
    /\ LET c == context[r]
           new == connection[c] = None
           v == IF new THEN r ELSE connection[c]
       IN /\ connection' = [connection EXCEPT ![c] = v]
          /\ link' = IF new THEN [link EXCEPT ![v] = "down"] ELSE link
          /\ closecb' = [closecb EXCEPT ![v] = c]
    /\ mFree' = FALSE
    /\ mMutex' = None
    /\ Goto(u, <<"send", r>>)
    /\ UNCHANGED <<mConnections, queue, context, target, jobs, runner, closing, done, halted>>

\* HttpRequest::send: what the connection has now, read without the lock ...
getConnection(u, r) ==
    /\ Running /\ user[u] = <<"send", r>>
    /\ target' = [target EXCEPT ![r] = connection[context[r]]]
    /\ Goto(u, <<"make", r>>)
    /\ UNCHANGED <<mMutex, client, connection, evhttp, context, jobs, runner, closing, done, halted>>

\* ... and evhttp_make_request on it, which may be null, or freed in the meantime.
makeRequest(u, r) ==
    /\ Running /\ user[u] = <<"make", r>>
    /\ LET v == target[r] IN
       \/ /\ v # None => link[v] = "freed"
          /\ halted' = IF v = None THEN "null" ELSE "freed"
          /\ UNCHANGED <<queue, user>>
       \/ /\ v # None /\ link[v] # "freed"
          /\ queue' = [queue EXCEPT ![v] = Append(@, r)]
          /\ Goto(u, <<"job", r>>)
          /\ UNCHANGED halted
    /\ UNCHANGED <<mMutex, client, connection, closecb, link, context, target, jobs, runner, closing, done>>

\* Mutant: the loop is left to whoever runs it.
sendNoJob(u, r) ==
    /\ Running /\ user[u] = <<"job", r>>
    /\ Goto(u, <<"user", None>>)
    /\ UNCHANGED <<mMutex, client, connection, evhttp, context, target, jobs, runner, closing, done, halted>>

\* HttpConnection::send, HttpClientImpl::send: a job that dispatches the base.
sendJob(u, r) ==
    /\ Running /\ user[u] = <<"job", r>>
    /\ jobs' = jobs + 1
    /\ Goto(u, <<"user", None>>)
    /\ UNCHANGED <<mMutex, client, connection, evhttp, context, target, runner, closing, done, halted>>
----------------------------------------------------------------------------
(* The pool's thread *)

\* dispatch(): the loop, unless a user runs it.
dispatch ==
    /\ Running /\ jobs > 0 /\ runner # Pool
    /\ jobs' = jobs - 1
    /\ runner' = IF runner = None THEN Pool ELSE runner
    /\ UNCHANGED <<user, mMutex, client, connection, evhttp, context, target, closing, done, halted>>

loopReturns ==
    /\ Running /\ runner = Pool /\ Waiting = {} /\ closing = None
    /\ runner' = None
    /\ UNCHANGED <<user, mMutex, client, connection, evhttp, context, target, jobs, closing, done, halted>>
----------------------------------------------------------------------------
(* What happens in the loop *)

InLoop == Running /\ runner # None /\ closing = None
\* A callback of the loop needs the lock, which a user never gets if it
\* runs the loop itself, since open() holds it.
Locks(A) ==
    IF runner \in Users
      THEN halted' = "self" /\ UNCHANGED <<client, connection, link, queue, closing, done>>
      ELSE mMutex = None /\ A /\ UNCHANGED halted

\* Mutant: the connection is put into the set, but keeps its evhttp_connection.
closedNoReset(v) ==
    /\ mFree' = TRUE
    /\ UNCHANGED <<mConnections, connection>>

\* close(), for release(): busy no more, and the id is free.
close == mFree' = TRUE

\* HttpConnection::reset().
reset(c) == connection' = [connection EXCEPT ![c] = None]

\* evConnectionClosed(): whatever evhttp_connection it has by now is forgotten.
evConnectionClosed(v) ==
    /\ reset(closecb[v])
    /\ mFree' = TRUE
    /\ UNCHANGED mConnections

\* OnLoad::fire() with the HttpResponse of each of these requests.
onLoad(rs) == done' = done \cup rs

\* A connection that went down is tried again for the requests behind, or freed.
DownFor(v, rest) == link' = [link EXCEPT ![v] = IF rest = <<>> THEN "freed" ELSE "down"]

\* The connection is up, and the request is written.
Connected(v) ==
    /\ InLoop /\ link[v] = "down" /\ queue[v] # <<>>
    /\ link' = [link EXCEPT ![v] = "up"]
    /\ UNCHANGED <<user, mMutex, client, connection, closecb, queue, context, target, jobs, runner, closing, done, halted>>

\* evHttpReqDone() for a response: release(), that is close(), and onLoad.
\* event_base_loopbreak() at its end gets the base of the RequestContext, which nothing
\* sets: it is NULL, and the loop goes on.
evHttpReqDone(v) ==
    /\ queue' = [queue EXCEPT ![v] = Tail(@)]
    /\ close
    /\ onLoad({Head(queue[v])})
    /\ UNCHANGED <<mConnections, connection, link, closing>>

Response(v) ==
    /\ InLoop /\ link[v] = "up" /\ queue[v] # <<>>
    /\ Locks(evHttpReqDone(v))
    /\ UNCHANGED <<user, mMutex, closecb, context, target, jobs, runner>>

\* A response with "Connection: close": first the close callback ...
ResponseAndClose(v) ==
    /\ peerCloses
    /\ InLoop /\ link[v] = "up" /\ queue[v] # <<>>
    /\ Locks(/\ evConnectionClosed(v)
             /\ link' = [link EXCEPT ![v] = "down"]
             /\ closing' = <<v, Head(queue[v])>>
             /\ queue' = [queue EXCEPT ![v] = Tail(@)]
             /\ UNCHANGED done)
    /\ UNCHANGED <<user, mMutex, closecb, context, target, jobs, runner>>

\* ... then evHttpReqDone(), and what becomes of the evhttp_connection.
CloseDone ==
    /\ Running /\ closing # None /\ mMutex = None
    /\ close
    /\ onLoad({closing[2]})
    /\ DownFor(closing[1], queue[closing[1]])
    /\ closing' = None
    /\ UNCHANGED <<user, mMutex, mConnections, connection, closecb, queue, context, target, jobs, runner, halted>>

\* An idle connection is closed by the peer.
PeerClose(v) ==
    /\ peerCloses
    /\ InLoop /\ link[v] = "up" /\ queue[v] = <<>>
    /\ Locks(/\ evConnectionClosed(v)
             /\ DownFor(v, <<>>)
             /\ UNCHANGED <<queue, closing, done>>)
    /\ UNCHANGED <<user, mMutex, closecb, context, target, jobs, runner>>

\* A connection is closed by the peer before the response: the close callback, and
\* evHttpReqDone(NULL), which calls onLoad and releases nothing.  The requests behind
\* it are tried on a new connection.
PeerFails(v) ==
    /\ peerCloses
    /\ InLoop /\ link[v] = "up" /\ queue[v] # <<>>
    /\ Locks(/\ evConnectionClosed(v)
             /\ DownFor(v, Tail(queue[v]))
             /\ queue' = [queue EXCEPT ![v] = Tail(@)]
             /\ onLoad({Head(queue[v])})
             /\ UNCHANGED closing)
    /\ UNCHANGED <<user, mMutex, closecb, context, target, jobs, runner>>

\* The connection cannot be made: evHttpReqDone() for every request of it.
Refused(v) ==
    /\ peerCloses
    /\ InLoop /\ link[v] = "down" /\ queue[v] # <<>>
    /\ Locks(/\ queue' = [queue EXCEPT ![v] = <<>>]
             /\ close
             /\ onLoad({queue[v][i] : i \in 1..Len(queue[v])})
             /\ UNCHANGED <<mConnections, connection, link, closing>>)
    /\ UNCHANGED <<user, mMutex, closecb, context, target, jobs, runner>>
----------------------------------------------------------------------------
OpenStep ==
    /\ UNCHANGED peerCloses
    /\ \E u \in Users, r \in Requests : open(u, r)

UserStep(u) ==
    /\ UNCHANGED peerCloses
    /\ \E r \in Requests :
          \/ connectDispatch(u, r) \/ connectNew(u, r) \/ dispatchReturns(u, r) \/ opened(u, r)
          \/ getConnection(u, r) \/ makeRequest(u, r) \/ sendJob(u, r)

PoolStep == UNCHANGED peerCloses /\ (dispatch \/ loopReturns)

\* A connection is made or refused; a response, or the end of the connection.
Connecting(v) == UNCHANGED peerCloses /\ (Connected(v) \/ Refused(v))
Answering(v) == UNCHANGED peerCloses /\ (Response(v) \/ ResponseAndClose(v) \/ PeerFails(v))
Closing(v) == UNCHANGED peerCloses /\ PeerClose(v)
Closed == UNCHANGED peerCloses /\ CloseDone

Next ==
    \/ OpenStep \/ PoolStep \/ Closed
    \/ \E u \in Users : UserStep(u)
    \/ \E v \in Requests : Connecting(v) \/ Answering(v) \/ Closing(v)

Spec == Init /\ [][Next]_vars

\* The threads run, connections are made or refused, and the server answers or
\* closes.  Nobody has to open a request.
FairSpec ==
    /\ Spec
    /\ \A u \in Users : WF_vars(UserStep(u))
    /\ WF_vars(PoolStep)
    /\ SF_vars(Closed)
    /\ \A v \in Requests : SF_vars(Connecting(v)) /\ SF_vars(Answering(v))
----------------------------------------------------------------------------
(* Properties *)

\* Thread u is in open() for r, or has not sent r yet.
Opens(u, r) == user[u][1] \in {"connect", "loop", "connected"} /\ user[u][2] = r
Prepares(u, r) == Opens(u, r) \/ (user[u][1] \in {"send", "make"} /\ user[u][2] = r)
Sent(r) == context[r] # None /\ \A u \in Users : ~Prepares(u, r)
IsIn(r, s) == \E i \in 1..Len(s) : s[i] = r

\* If the server keeps connections open, none of the three faults can happen, though
\* send() uses what it read without a lock and connect() may run the loop under the
\* lock that the loop's callbacks take: no connection is null or freed when
\* evhttp_make_request gets it, and whoever runs the loop in open() has nothing to
\* call back for (HttpRequest::send, HttpConnection::connect).
OnlyClosesHurt == ~peerCloses => halted = "no"

\* Whatever the peer closes, and although a close callback comes before that of the
\* request that ended the connection: an HttpConnection does not refer to an
\* evhttp_connection that is freed, and a request for which evhttp_make_request has
\* returned is completed or waits in exactly one queue, that of one that is not freed
\* (evConnectionClosed, evHttpReqDone).  What send() has in its hand between
\* getConnection() and evhttp_make_request may be freed, but only by a peer that closes.
SentAreQueued ==
    /\ \A c \in Requests : connection[c] # None => link[connection[c]] # "freed"
    /\ \A r \in Requests : Sent(r) =>
          \/ r \in done
          \/ closing # None /\ closing[2] = r
          \/ \E v \in Requests :
                /\ link[v] # "freed" /\ IsIn(r, queue[v])
                /\ \A w \in Requests : IsIn(r, queue[w]) => w = v
    /\ OnlyClosesHurt

\* While something is awaited, somebody runs the loop, or a job is there to run it,
\* or a user is about to add one.
LoopCovered ==
    Waiting # {} => runner # None \/ jobs > 0 \/ \E u \in Users : user[u][1] = "job"

\* If the server keeps connections open, every request that was opened is answered,
\* although all connections share one id and busy ones are handed out (open, close).
RequestsComplete ==
    \A r \in Requests : (~peerCloses /\ context[r] # None) ~> (r \in done)
============================================================================
