--------------------------- MODULE NetworkProofs ---------------------------
(***************************************************************************)
(* For every number of requests and threads: a request that was sent is    *)
(* never lost, although evhttp_connections free themselves, and the loop   *)
(* is never left without someone to run it.                                *)
(*                                                                         *)
(* SentAreQueued needs to know that no HttpConnection refers to a freed    *)
(* evhttp_connection: the close callback, which is called before it is     *)
(* freed, goes to the one HttpConnection that refers to it.                *)
(*                                                                         *)
(* If the server keeps its connections open, send() never uses a null or   *)
(* freed one, and no thread locks twice.                                   *)
(*                                                                         *)
(* And for every number of peers, local events and workers of a TcpServer: *)
(* a connection is in one place on its way to its worker, and the worker   *)
(* leaves it only when all is read and its end was reported.               *)
(***************************************************************************)
EXTENDS HttpClient, TcpServer, TLAPS

TypeInv ==
    /\ user = [u \in Users |-> user[u]]
    /\ link \in [Requests -> {"none", "down", "up", "freed"}]
    /\ queue \in [Requests -> Seq(Requests)]
    /\ connection \in [Requests -> Requests \cup {None}]
    /\ closecb \in [Requests -> Requests \cup {None}]
    /\ context \in [Requests -> Requests \cup {None}]
    /\ target \in [Requests -> Requests \cup {None}]
    /\ mConnections \in Requests \cup {None}
    /\ mFree \in BOOLEAN
    /\ jobs \in Nat

\* A thread that is in open() has the lock, and its evhttp_connection does not exist.
OpeningInv ==
    /\ \A r \in Requests : context[r] = None => link[r] = "none"
    /\ \A r \in Requests : link[r] # "none" => mConnections # None
    /\ mFree => mConnections # None
    /\ \A u \in Users, r \in Requests :
          /\ Opens(u, r) => mMutex = u /\ link[r] = "none" /\ mConnections # None
          /\ Prepares(u, r) => context[r] # None
          /\ Prepares(u, r) =>
                \A w \in Users : Prepares(w, r) => w = u

\* An HttpConnection refers to an evhttp_connection that is there, and that will tell
\* it of its end; what send() got from it was there, but may have been freed.
RefersInv ==
    /\ \A c \in Requests : connection[c] # None =>
          link[connection[c]] \in {"down", "up"} /\ closecb[connection[c]] = c
    /\ \A r \in Requests : target[r] # None => link[target[r]] # "none"

\* Nobody refers to an evhttp_connection whose close callback was called.
ClosingInv ==
    closing # None =>
        /\ runner # None
        /\ closing[1] \in Requests /\ closing[2] \in Requests
        /\ link[closing[1]] = "down"
        /\ \A c \in Requests : connection[c] # closing[1]

\* Only an evhttp_connection that is there holds requests, and they were sent; none
\* is in two queues.
QueueInv ==
    /\ \A v \in Requests : link[v] \in {"none", "freed"} => queue[v] = <<>>
    /\ \A r, v \in Requests : IsIn(r, queue[v]) => Sent(r)
    /\ \A r, v, w \in Requests : IsIn(r, queue[v]) /\ IsIn(r, queue[w]) => v = w

\* A request that was sent is not forgotten.
SentInv ==
    \A r \in Requests : Sent(r) =>
        r \in done \/ (closing # None /\ closing[2] = r) \/ \E v \in Requests : IsIn(r, queue[v])

IInv == TypeInv /\ OpeningInv /\ RefersInv /\ ClosingInv /\ QueueInv /\ SentInv /\ LoopCovered
----------------------------------------------------------------------------
(* Queues *)

LEMMA InTail ==
  ASSUME NEW S, NEW s \in Seq(S), s # <<>>
  PROVE  /\ Head(s) \in S /\ Tail(s) \in Seq(S)
         /\ \A r : IsIn(r, s) <=> r = Head(s) \/ IsIn(r, Tail(s))
<1>1. Head(s) \in S /\ Tail(s) \in Seq(S) /\ Len(s) \in Nat \ {0}
  OBVIOUS
<1>2. ASSUME NEW r, IsIn(r, s) PROVE r = Head(s) \/ IsIn(r, Tail(s))
  <2> PICK i \in 1..Len(s) : s[i] = r
    BY <1>2 DEF IsIn
  <2>1. CASE i = 1
    BY <2>1
  <2>2. CASE i # 1
    <3>1. i - 1 \in 1..Len(Tail(s)) /\ Tail(s)[i - 1] = r
      BY <1>1, <2>2
    <3> QED BY <3>1 DEF IsIn
  <2> QED BY <2>1, <2>2
<1>3. ASSUME NEW r, r = Head(s) \/ IsIn(r, Tail(s)) PROVE IsIn(r, s)
  <2>1. CASE r = Head(s)
    BY <1>1, <2>1 DEF IsIn
  <2>2. CASE IsIn(r, Tail(s))
    <3> PICK i \in 1..Len(Tail(s)) : Tail(s)[i] = r
      BY <2>2 DEF IsIn
    <3>1. i + 1 \in 1..Len(s) /\ s[i + 1] = r
      BY <1>1
    <3> QED BY <3>1 DEF IsIn
  <2> QED BY <1>3, <2>1, <2>2
<1> QED BY <1>1, <1>2, <1>3

LEMMA InAppend ==
  ASSUME NEW S, NEW s \in Seq(S), NEW q \in S
  PROVE  /\ Append(s, q) \in Seq(S)
         /\ \A r : IsIn(r, Append(s, q)) <=> r = q \/ IsIn(r, s)
<1>1. Append(s, q) \in Seq(S) /\ Len(s) \in Nat /\ Len(Append(s, q)) = Len(s) + 1
  OBVIOUS
<1>2. \A i \in 1..Len(s) : Append(s, q)[i] = s[i]
  OBVIOUS
<1>3. Append(s, q)[Len(s) + 1] = q
  OBVIOUS
<1> QED BY <1>1, <1>2, <1>3 DEF IsIn

LEMMA InEmpty == \A r : ~IsIn(r, <<>>)
  BY DEF IsIn
----------------------------------------------------------------------------
(* Steps *)

\* open() takes the lock.
LEMMA OpenIInv ==
  ASSUME IInv, NEW u \in Users, NEW r \in Requests, open(u, r)
  PROVE  IInv'
<1> USE NoneIsNoRequest, NoneIsNoPair, PoolIsNoUser DEF IInv, TypeInv, open, ConnectionFor, client, evhttp, Goto
<1>m. user' = [w \in Users |-> user'[w]] /\ \A w \in Users : w # u => user'[w] = user[w]
  OBVIOUS
<1>s. \A q \in Requests : Sent(q)' <=> Sent(q)
  BY <1>m DEF OpeningInv, Sent, Prepares, Opens
<1>1. TypeInv'
  BY <1>m DEF OpeningInv
<1>2. OpeningInv'
  BY <1>m DEF OpeningInv, Prepares, Opens
<1>3. RefersInv'
  BY DEF RefersInv, OpeningInv, ClosingInv
<1>4. ClosingInv'
  BY DEF ClosingInv, RefersInv, OpeningInv
<1>5. QueueInv'
  BY <1>s DEF QueueInv, OpeningInv, RefersInv, ClosingInv
<1>6. SentInv'
  BY <1>s DEF SentInv, QueueInv
<1>7. LoopCovered'
  BY <1>m DEF LoopCovered, ClosingInv, QueueInv, OpeningInv, Waiting
<1> QED BY <1>1, <1>2, <1>3, <1>4, <1>5, <1>6, <1>7 DEF IInv

\* connect() runs the loop, or finds it running.
LEMMA DispatchIInv ==
  ASSUME IInv, NEW u \in Users, NEW r \in Requests, connectDispatch(u, r)
  PROVE  IInv'
<1> USE NoneIsNoRequest, NoneIsNoPair, PoolIsNoUser DEF IInv, TypeInv, connectDispatch, client, evhttp, Goto
<1>m. user' = [w \in Users |-> user'[w]] /\ \A w \in Users : w # u => user'[w] = user[w]
  OBVIOUS
<1>u. /\ user[u][1] = "connect" /\ user[u][2] = r
      /\ user'[u][1] \in {"loop", "connected"} /\ user'[u][2] = r
  OBVIOUS
<1>p. \A w \in Users, q \in Requests :
        (Opens(w, q)' <=> Opens(w, q)) /\ (Prepares(w, q)' <=> Prepares(w, q))
  BY <1>m, <1>u DEF Opens, Prepares
<1>s. \A q \in Requests : Sent(q)' <=> Sent(q)
  BY <1>p DEF Sent
<1>1. TypeInv'
  BY <1>m DEF OpeningInv
<1>2. OpeningInv'
  BY <1>p DEF OpeningInv
<1>3. RefersInv'
  BY DEF RefersInv, OpeningInv, ClosingInv
<1>4. ClosingInv'
  BY DEF ClosingInv, RefersInv, OpeningInv
<1>5. QueueInv'
  BY <1>s DEF QueueInv, OpeningInv, RefersInv, ClosingInv
<1>6. SentInv'
  BY <1>s DEF SentInv, QueueInv
<1>7. LoopCovered'
  BY <1>m DEF LoopCovered, ClosingInv, QueueInv, OpeningInv, Waiting
<1> QED BY <1>1, <1>2, <1>3, <1>4, <1>5, <1>6, <1>7 DEF IInv

\* connect() without an evhttp_connection.
LEMMA ConnectNewIInv ==
  ASSUME IInv, NEW u \in Users, NEW r \in Requests, connectNew(u, r)
  PROVE  IInv'
<1> USE NoneIsNoRequest, NoneIsNoPair, PoolIsNoUser DEF IInv, TypeInv, connectNew, client, evhttp, Goto
<1>m. user' = [w \in Users |-> user'[w]] /\ \A w \in Users : w # u => user'[w] = user[w]
  OBVIOUS
<1>u. /\ user[u][1] = "connect" /\ user[u][2] = r
      /\ user'[u][1] \in {"loop", "connected"} /\ user'[u][2] = r
  OBVIOUS
<1>p. \A w \in Users, q \in Requests :
        (Opens(w, q)' <=> Opens(w, q)) /\ (Prepares(w, q)' <=> Prepares(w, q))
  BY <1>m, <1>u DEF Opens, Prepares
<1>s. \A q \in Requests : Sent(q)' <=> Sent(q)
  BY <1>p DEF Sent
<1>1. TypeInv'
  BY <1>m DEF OpeningInv
<1>2. OpeningInv'
  BY <1>p DEF OpeningInv
<1>3. RefersInv'
  BY DEF RefersInv, OpeningInv, ClosingInv
<1>4. ClosingInv'
  BY DEF ClosingInv, RefersInv, OpeningInv
<1>5. QueueInv'
  BY <1>s DEF QueueInv, OpeningInv, RefersInv, ClosingInv
<1>6. SentInv'
  BY <1>s DEF SentInv, QueueInv
<1>7. LoopCovered'
  BY <1>m DEF LoopCovered, ClosingInv, QueueInv, OpeningInv, Waiting
<1> QED BY <1>1, <1>2, <1>3, <1>4, <1>5, <1>6, <1>7 DEF IInv

\* The loop that connect() ran returns.
LEMMA ReturnsIInv ==
  ASSUME IInv, NEW u \in Users, NEW r \in Requests, dispatchReturns(u, r)
  PROVE  IInv'
<1> USE NoneIsNoRequest, NoneIsNoPair, PoolIsNoUser DEF IInv, TypeInv, dispatchReturns, client, evhttp, Goto
<1>m. user' = [w \in Users |-> user'[w]] /\ \A w \in Users : w # u => user'[w] = user[w]
  OBVIOUS
<1>u. /\ user[u][1] = "loop" /\ user[u][2] = r
      /\ user'[u][1] \in {"loop", "connected"} /\ user'[u][2] = r
  OBVIOUS
<1>p. \A w \in Users, q \in Requests :
        (Opens(w, q)' <=> Opens(w, q)) /\ (Prepares(w, q)' <=> Prepares(w, q))
  BY <1>m, <1>u DEF Opens, Prepares
<1>s. \A q \in Requests : Sent(q)' <=> Sent(q)
  BY <1>p DEF Sent
<1>1. TypeInv'
  BY <1>m DEF OpeningInv
<1>2. OpeningInv'
  BY <1>p DEF OpeningInv
<1>3. RefersInv'
  BY DEF RefersInv, OpeningInv, ClosingInv
<1>4. ClosingInv'
  BY DEF ClosingInv, RefersInv, OpeningInv
<1>5. QueueInv'
  BY <1>s DEF QueueInv, OpeningInv, RefersInv, ClosingInv
<1>6. SentInv'
  BY <1>s DEF SentInv, QueueInv
<1>7. LoopCovered'
  BY <1>m DEF LoopCovered, ClosingInv, QueueInv, OpeningInv, Waiting
<1> QED BY <1>1, <1>2, <1>3, <1>4, <1>5, <1>6, <1>7 DEF IInv

\* A new evhttp_connection, or the one that is there.
LEMMA OpenedIInv ==
  ASSUME IInv, NEW u \in Users, NEW r \in Requests, opened(u, r)
  PROVE  IInv'
<1> USE NoneIsNoRequest, NoneIsNoPair, PoolIsNoUser DEF IInv, TypeInv, opened, client, evhttp, Goto
<1>m. user' = [w \in Users |-> user'[w]] /\ \A w \in Users : w # u => user'[w] = user[w]
  OBVIOUS
<1>u. user[u] = <<"connected", r>> /\ user'[u] = <<"send", r>>
  OBVIOUS
<1>w. \A w \in Users, q \in Requests : Opens(w, q) => w = u
  <2>1. Opens(u, r)
    BY <1>u DEF Opens
  <2> QED BY <2>1 DEF OpeningInv
<1>p. \A w \in Users, q \in Requests :
        ~Opens(w, q)' /\ (Prepares(w, q)' <=> Prepares(w, q))
  BY <1>m, <1>u, <1>w DEF Opens, Prepares
<1>s. \A q \in Requests : Sent(q)' <=> Sent(q)
  BY <1>p DEF Sent
<1>c. context[r] \in Requests /\ link[r] = "none" /\ mConnections # None
  BY DEF OpeningInv, Prepares, Opens
<1>n. CASE connection[context[r]] = None
  <2> connection' = [connection EXCEPT ![context[r]] = r] /\ link' = [link EXCEPT ![r] = "down"]
       /\ closecb' = [closecb EXCEPT ![r] = context[r]]
    BY <1>n
  <2> HIDE DEF opened
  <2> user[u] = <<"connected", r>> /\ user' = [user EXCEPT ![u] = <<"send", r>>]
       /\ mFree' = FALSE /\ mMutex' = None
       /\ UNCHANGED <<mConnections, queue, context, target, jobs, runner, closing, done, halted>>
    BY DEF opened
  <2>1. TypeInv'
    BY <1>m, <1>c DEF OpeningInv
  <2>2. OpeningInv'
    BY <1>p, <1>c DEF OpeningInv
  <2>3. RefersInv'
    BY <1>c DEF RefersInv, OpeningInv, ClosingInv
  <2>4. ClosingInv'
    BY <1>c DEF ClosingInv, RefersInv, OpeningInv
  <2>5. QueueInv'
    BY <1>s, <1>c DEF QueueInv, OpeningInv, RefersInv, ClosingInv
  <2>6. SentInv'
    BY <1>s, <1>c DEF SentInv, QueueInv
  <2>7. LoopCovered'
    BY <1>m, <1>c DEF LoopCovered, ClosingInv, QueueInv, OpeningInv, Waiting
  <2> QED BY <2>1, <2>2, <2>3, <2>4, <2>5, <2>6, <2>7 DEF IInv
<1>o. CASE connection[context[r]] # None
  <2> connection' = connection /\ link' = link
       /\ closecb' = [closecb EXCEPT ![connection[context[r]]] = context[r]]
    BY <1>o, <1>c
  <2> HIDE DEF opened
  <2> user[u] = <<"connected", r>> /\ user' = [user EXCEPT ![u] = <<"send", r>>]
       /\ mFree' = FALSE /\ mMutex' = None
       /\ UNCHANGED <<mConnections, queue, context, target, jobs, runner, closing, done, halted>>
    BY DEF opened
  <2>1. TypeInv'
    BY <1>m, <1>c DEF OpeningInv
  <2>2. OpeningInv'
    BY <1>p, <1>c DEF OpeningInv
  <2>3. RefersInv'
    BY <1>c DEF RefersInv, OpeningInv, ClosingInv
  <2>4. ClosingInv'
    BY <1>c DEF ClosingInv, RefersInv, OpeningInv
  <2>5. QueueInv'
    BY <1>s, <1>c DEF QueueInv, OpeningInv, RefersInv, ClosingInv
  <2>6. SentInv'
    BY <1>s, <1>c DEF SentInv, QueueInv
  <2>7. LoopCovered'
    BY <1>m, <1>c DEF LoopCovered, ClosingInv, QueueInv, OpeningInv, Waiting
  <2> QED BY <2>1, <2>2, <2>3, <2>4, <2>5, <2>6, <2>7 DEF IInv
<1> QED BY <1>n, <1>o

\* The job that runs the loop.
LEMMA SendJobIInv ==
  ASSUME IInv, NEW u \in Users, NEW r \in Requests, sendJob(u, r)
  PROVE  IInv'
<1> USE NoneIsNoRequest, NoneIsNoPair, PoolIsNoUser DEF IInv, TypeInv, sendJob, client, evhttp, Goto
<1>m. user' = [w \in Users |-> user'[w]] /\ \A w \in Users : w # u => user'[w] = user[w]
  OBVIOUS
<1>s. \A q \in Requests : Sent(q)' <=> Sent(q)
  BY <1>m DEF OpeningInv, Sent, Prepares, Opens
<1>1. TypeInv'
  BY <1>m DEF OpeningInv
<1>2. OpeningInv'
  BY <1>m DEF OpeningInv, Prepares, Opens
<1>3. RefersInv'
  BY DEF RefersInv, OpeningInv, ClosingInv
<1>4. ClosingInv'
  BY DEF ClosingInv, RefersInv, OpeningInv
<1>5. QueueInv'
  BY <1>s DEF QueueInv, OpeningInv, RefersInv, ClosingInv
<1>6. SentInv'
  BY <1>s DEF SentInv, QueueInv
<1>7. LoopCovered'
  BY <1>m DEF LoopCovered, ClosingInv, QueueInv, OpeningInv, Waiting
<1> QED BY <1>1, <1>2, <1>3, <1>4, <1>5, <1>6, <1>7 DEF IInv

\* The pool's thread.
LEMMA PoolIInv ==
  ASSUME IInv, dispatch \/ loopReturns
  PROVE  IInv'
<1> USE NoneIsNoRequest, NoneIsNoPair, PoolIsNoUser DEF IInv, TypeInv, dispatch, loopReturns, client, evhttp
<1>s. \A q \in Requests : Sent(q)' <=> Sent(q)
  BY DEF Sent, Prepares, Opens
<1>1. TypeInv'
  BY DEF OpeningInv
<1>2. OpeningInv'
  BY DEF OpeningInv, Prepares, Opens
<1>3. RefersInv'
  BY DEF RefersInv, OpeningInv, ClosingInv
<1>4. ClosingInv'
  BY DEF ClosingInv, RefersInv, OpeningInv
<1>5. QueueInv'
  BY <1>s DEF QueueInv, OpeningInv, RefersInv, ClosingInv
<1>6. SentInv'
  BY <1>s DEF SentInv, QueueInv
<1>7. LoopCovered'
  BY DEF LoopCovered, ClosingInv, QueueInv, OpeningInv, Waiting
<1> QED BY <1>1, <1>2, <1>3, <1>4, <1>5, <1>6, <1>7 DEF IInv

\* A step that changes none of all this: one that ends in a halt.
LEMMA SameIInv ==
  ASSUME IInv, UNCHANGED <<user, mMutex, client, connection, evhttp, requests, jobs, runner, closing>>
  PROVE  IInv'
  BY DEF IInv, TypeInv, OpeningInv, RefersInv, ClosingInv, QueueInv, SentInv, LoopCovered, Waiting,
     Sent, Prepares, Opens, client, evhttp, requests

\* send() takes what the connection has.
LEMMA GetConnectionIInv ==
  ASSUME IInv, NEW u \in Users, NEW r \in Requests, getConnection(u, r)
  PROVE  IInv'
<1> USE NoneIsNoRequest, NoneIsNoPair, PoolIsNoUser DEF IInv, TypeInv, getConnection, client, evhttp, Goto
<1>m. user' = [w \in Users |-> user'[w]] /\ \A w \in Users : w # u => user'[w] = user[w]
  OBVIOUS
<1>u. user[u] = <<"send", r>> /\ user'[u] = <<"make", r>>
  OBVIOUS
<1>p. \A w \in Users, q \in Requests :
        (Opens(w, q)' <=> Opens(w, q)) /\ (Prepares(w, q)' <=> Prepares(w, q))
  BY <1>m, <1>u DEF Opens, Prepares
<1>s. \A q \in Requests : Sent(q)' <=> Sent(q)
  BY <1>p DEF Sent
<1>c. context[r] \in Requests
  <2>1. Prepares(u, r)
    BY <1>u DEF Prepares
  <2> QED BY <2>1 DEF OpeningInv
<1>1. TypeInv'
  BY <1>m, <1>c
<1>2. OpeningInv'
  BY <1>p DEF OpeningInv
<1>3. RefersInv'
  BY <1>c DEF RefersInv
<1>4. ClosingInv'
  BY DEF ClosingInv
<1>5. QueueInv'
  BY <1>s DEF QueueInv
<1>6. SentInv'
  BY <1>s DEF SentInv
<1>7. LoopCovered'
  BY <1>m, <1>u DEF LoopCovered, Waiting
<1> QED BY <1>1, <1>2, <1>3, <1>4, <1>5, <1>6, <1>7 DEF IInv

\* The request enters the queue, or there is no evhttp_connection, or no more.
LEMMA MakeRequestIInv ==
  ASSUME IInv, NEW u \in Users, NEW r \in Requests, makeRequest(u, r)
  PROVE  IInv'
<1> USE NoneIsNoRequest, NoneIsNoPair, PoolIsNoUser DEF IInv, TypeInv, client, evhttp, Goto
<1> DEFINE v == target[r]
<1>1. CASE v # None => link[v] = "freed"
  <2>1. UNCHANGED <<user, mMutex, client, connection, evhttp, requests, jobs, runner, closing>>
    BY <1>1 DEF makeRequest, requests
  <2> QED BY <2>1, SameIInv
<1>2. CASE v # None /\ link[v] # "freed"
  <2>a. /\ queue' = [queue EXCEPT ![v] = Append(@, r)]
        /\ user[u] = <<"make", r>> /\ user' = [user EXCEPT ![u] = <<"job", r>>]
        /\ UNCHANGED <<mMutex, client, connection, closecb, link, context, target, jobs, runner, closing, done>>
    BY <1>2 DEF makeRequest
  <2>b. context[r] \in Requests /\ v \in Requests /\ link[v] \in {"down", "up"}
    <3>1. Prepares(u, r)
      BY <2>a DEF Prepares
    <3>2. context[r] \in Requests
      BY <3>1 DEF OpeningInv
    <3> QED BY <1>2, <3>2 DEF RefersInv
  <2>m. /\ user' = [w \in Users |-> user'[w]] /\ user'[u] = <<"job", r>>
        /\ \A w \in Users : w # u => user'[w] = user[w]
    BY <2>a
  <2>p. /\ Prepares(u, r)
        /\ \A w \in Users, q \in Requests :
              /\ Opens(w, q)' <=> Opens(w, q)
              /\ Prepares(w, q)' <=> Prepares(w, q) /\ w # u
    BY <2>a, <2>m DEF Prepares, Opens
  <2>s. ~Sent(r) /\ \A q \in Requests : Sent(q)' <=> Sent(q) \/ q = r
    <3>1. \A w \in Users : Prepares(w, r) => w = u
      BY <2>p DEF OpeningInv
    <3>2. \A q \in Requests : Prepares(u, q) => q = r
      BY <2>a DEF Prepares, Opens
    <3> QED BY <2>a, <2>b, <2>p, <3>1, <3>2 DEF Sent
  <2> HIDE DEF v
  <2>q. /\ queue' \in [Requests -> Seq(Requests)]
        /\ \A q, w \in Requests : IsIn(q, queue'[w]) <=> IsIn(q, queue[w]) \/ (q = r /\ w = v)
    <3>1. queue[v] \in Seq(Requests)
      BY <2>b
    <3> QED BY <2>a, <2>b, <3>1, InAppend
  <2>1. TypeInv'
    BY <2>a, <2>m, <2>q
  <2>2. OpeningInv'
    BY <2>a, <2>p DEF OpeningInv
  <2>3. RefersInv'
    BY <2>a DEF RefersInv, OpeningInv, ClosingInv
  <2>4. ClosingInv'
    BY <2>a DEF ClosingInv, RefersInv, OpeningInv
  <2>5. QueueInv'
    <3>1. ~ \E w \in Requests : IsIn(r, queue[w])
      BY <2>s DEF QueueInv
    <3>2. \A w \in Requests : link'[w] \in {"none", "freed"} => queue'[w] = <<>>
      BY <2>a, <2>b DEF QueueInv
    <3>3. \A q, w \in Requests : IsIn(q, queue'[w]) => Sent(q)'
      BY <2>s, <2>q DEF QueueInv
    <3>4. \A q, w, x \in Requests : IsIn(q, queue'[w]) /\ IsIn(q, queue'[x]) => w = x
      <4> TAKE q, w, x \in Requests
      <4>1. CASE q = r
        BY <4>1, <2>q, <3>1
      <4>2. CASE q # r
        BY <4>2, <2>q DEF QueueInv
      <4> QED BY <4>1, <4>2
    <3> QED BY <3>2, <3>3, <3>4 DEF QueueInv
  <2>6. SentInv'
    BY <2>a, <2>b, <2>s, <2>q DEF SentInv
  <2>7. LoopCovered'
    <3>1. user'[u][1] = "job"
      BY <2>m
    <3> QED BY <3>1 DEF LoopCovered
  <2> QED BY <2>1, <2>2, <2>3, <2>4, <2>5, <2>6, <2>7 DEF IInv
<1> QED BY <1>1, <1>2

\* The first request leaves the queue of v.
LEMMA TailQueue ==
  ASSUME TypeInv, NEW v \in Requests, queue[v] # <<>>, queue' = [queue EXCEPT ![v] = Tail(@)]
  PROVE  /\ Head(queue[v]) \in Requests
         /\ queue' \in [Requests -> Seq(Requests)] /\ queue'[v] = Tail(queue[v])
         /\ \A w \in Requests : w # v => queue'[w] = queue[w]
         /\ \A q, w \in Requests : IsIn(q, queue'[w]) => IsIn(q, queue[w])
         /\ \A q, w \in Requests :
               IsIn(q, queue[w]) => IsIn(q, queue'[w]) \/ q = Head(queue[v])
<1>1. queue[v] \in Seq(Requests)
  BY DEF TypeInv
<1>2. /\ Head(queue[v]) \in Requests /\ Tail(queue[v]) \in Seq(Requests)
      /\ \A q : IsIn(q, queue[v]) <=> q = Head(queue[v]) \/ IsIn(q, Tail(queue[v]))
  BY <1>1, InTail
<1>3. queue'[v] = Tail(queue[v]) /\ \A w \in Requests : w # v => queue'[w] = queue[w]
  BY DEF TypeInv
<1> QED BY <1>2, <1>3 DEF TypeInv

\* After the close callback of v nobody refers to v.
LEMMA ResetRefers ==
  ASSUME TypeInv, RefersInv, NEW v \in Requests, reset(closecb[v])
  PROVE  /\ connection' \in [Requests -> Requests \cup {None}]
         /\ \A c \in Requests : connection'[c] # v /\ connection'[c] \in {connection[c], None}
<1> USE NoneIsNoRequest DEF TypeInv, reset
<1>1. connection' \in [Requests -> Requests \cup {None}]
  OBVIOUS
<1>2. \A c \in Requests : connection'[c] = IF c = closecb[v] THEN None ELSE connection[c]
  OBVIOUS
<1> QED BY <1>1, <1>2 DEF RefersInv

\* In the loop nobody's statement changes.
LEMMA SameSent ==
  ASSUME UNCHANGED <<user, context>>
  PROVE  /\ \A q \in Requests : Sent(q)' <=> Sent(q)
         /\ \A w \in Users, q \in Requests :
               (Opens(w, q)' <=> Opens(w, q)) /\ (Prepares(w, q)' <=> Prepares(w, q))
  BY DEF Sent, Prepares, Opens

\* A connection is made.
LEMMA ConnectedIInv ==
  ASSUME IInv, NEW v \in Requests, Connected(v)
  PROVE  IInv'
<1> USE NoneIsNoRequest, NoneIsNoPair DEF IInv, TypeInv
<1>a. /\ runner # None /\ closing = None /\ link[v] = "down" /\ link' = [link EXCEPT ![v] = "up"]
      /\ UNCHANGED <<user, mMutex, mConnections, mFree, connection, closecb, queue, context, target, jobs, runner, closing, done>>
  BY DEF Connected, InLoop, client
<1>s. /\ \A q \in Requests : Sent(q)' <=> Sent(q)
      /\ \A w \in Users, q \in Requests :
            (Opens(w, q)' <=> Opens(w, q)) /\ (Prepares(w, q)' <=> Prepares(w, q))
  BY <1>a, SameSent
<1>1. TypeInv'
  BY <1>a
<1>2. OpeningInv'
  BY <1>a, <1>s DEF OpeningInv
<1>3. RefersInv'
  BY <1>a DEF RefersInv
<1>4. ClosingInv'
  BY <1>a DEF ClosingInv
<1>5. QueueInv'
  BY <1>a, <1>s DEF QueueInv
<1>6. SentInv'
  BY <1>a, <1>s DEF SentInv
<1>7. LoopCovered'
  BY <1>a DEF LoopCovered
<1> QED BY <1>1, <1>2, <1>3, <1>4, <1>5, <1>6, <1>7 DEF IInv

\* A response.
LEMMA ResponseIInv ==
  ASSUME IInv, NEW v \in Requests, Response(v)
  PROVE  IInv'
<1> USE NoneIsNoRequest, NoneIsNoPair DEF IInv, TypeInv
<1>1. CASE runner \in Users
  <2>1. UNCHANGED <<user, mMutex, client, connection, evhttp, requests, jobs, runner, closing>>
    BY <1>1 DEF Response, InLoop, Locks, evHttpReqDone, close, onLoad, client, evhttp, requests
  <2> QED BY <2>1, SameIInv
<1>2. CASE runner \notin Users
  <2>a. /\ runner # None /\ closing = None /\ link[v] = "up" /\ queue[v] # <<>>
        /\ queue' = [queue EXCEPT ![v] = Tail(@)]
        /\ done' = done \cup {Head(queue[v])} /\ mFree' = TRUE
        /\ UNCHANGED <<user, mMutex, mConnections, connection, closecb, link, context, target, jobs, runner, closing>>
    BY <1>2 DEF Response, InLoop, Locks, evHttpReqDone, close, onLoad, client
  <2>s. /\ \A q \in Requests : Sent(q)' <=> Sent(q)
        /\ \A w \in Users, q \in Requests :
              (Opens(w, q)' <=> Opens(w, q)) /\ (Prepares(w, q)' <=> Prepares(w, q))
    BY <2>a, SameSent
  <2>q. /\ Head(queue[v]) \in Requests
        /\ queue' \in [Requests -> Seq(Requests)] /\ queue'[v] = Tail(queue[v])
        /\ \A w \in Requests : w # v => queue'[w] = queue[w]
        /\ \A q, w \in Requests : IsIn(q, queue'[w]) => IsIn(q, queue[w])
        /\ \A q, w \in Requests : IsIn(q, queue[w]) => IsIn(q, queue'[w]) \/ q = Head(queue[v])
    BY <2>a, TailQueue
  <2>1. TypeInv'
    BY <2>a, <2>q
  <2>2. OpeningInv'
    BY <2>a, <2>s DEF OpeningInv
  <2>3. RefersInv'
    BY <2>a DEF RefersInv
  <2>4. ClosingInv'
    BY <2>a DEF ClosingInv
  <2>5. QueueInv'
    BY <2>a, <2>s, <2>q DEF QueueInv
  <2>6. SentInv'
    BY <2>a, <2>s, <2>q DEF SentInv
  <2>7. LoopCovered'
    BY <2>a DEF LoopCovered
  <2> QED BY <2>1, <2>2, <2>3, <2>4, <2>5, <2>6, <2>7 DEF IInv
<1> QED BY <1>1, <1>2

\* A response that closes the connection.
LEMMA ResponseAndCloseIInv ==
  ASSUME IInv, NEW v \in Requests, ResponseAndClose(v)
  PROVE  IInv'
<1> USE NoneIsNoRequest, NoneIsNoPair DEF IInv, TypeInv
<1>1. CASE runner \in Users
  <2>1. UNCHANGED <<user, mMutex, client, connection, evhttp, requests, jobs, runner, closing>>
    BY <1>1 DEF ResponseAndClose, InLoop, Locks, evConnectionClosed, client, evhttp, requests
  <2> QED BY <2>1, SameIInv
<1>2. CASE runner \notin Users
  <2>a. /\ runner # None /\ closing = None /\ link[v] = "up" /\ queue[v] # <<>>
        /\ queue' = [queue EXCEPT ![v] = Tail(@)]
        /\ reset(closecb[v]) /\ mFree' = TRUE
        /\ link' = [link EXCEPT ![v] = "down"]
        /\ closing' = <<v, Head(queue[v])>>
        /\ UNCHANGED <<user, mMutex, mConnections, closecb, context, target, jobs, runner, done>>
    BY <1>2 DEF ResponseAndClose, InLoop, Locks, evConnectionClosed, client
  <2>s. /\ \A q \in Requests : Sent(q)' <=> Sent(q)
        /\ \A w \in Users, q \in Requests :
              (Opens(w, q)' <=> Opens(w, q)) /\ (Prepares(w, q)' <=> Prepares(w, q))
    BY <2>a, SameSent
  <2>q. /\ Head(queue[v]) \in Requests
        /\ queue' \in [Requests -> Seq(Requests)] /\ queue'[v] = Tail(queue[v])
        /\ \A w \in Requests : w # v => queue'[w] = queue[w]
        /\ \A q, w \in Requests : IsIn(q, queue'[w]) => IsIn(q, queue[w])
        /\ \A q, w \in Requests : IsIn(q, queue[w]) => IsIn(q, queue'[w]) \/ q = Head(queue[v])
    BY <2>a, TailQueue
  <2>r. /\ connection' \in [Requests -> Requests \cup {None}]
        /\ \A c \in Requests : connection'[c] # v /\ connection'[c] \in {connection[c], None}
    BY <2>a, ResetRefers
  <2>1. TypeInv'
    BY <2>a, <2>q, <2>r
  <2>2. OpeningInv'
    BY <2>a, <2>s DEF OpeningInv
  <2>3. RefersInv'
    BY <2>a, <2>r DEF RefersInv
  <2>4. ClosingInv'
    BY <2>a, <2>q, <2>r DEF ClosingInv
  <2>5. QueueInv'
    BY <2>a, <2>s, <2>q DEF QueueInv
  <2>6. SentInv'
    BY <2>a, <2>s, <2>q DEF SentInv
  <2>7. LoopCovered'
    BY <2>a DEF LoopCovered
  <2> QED BY <2>1, <2>2, <2>3, <2>4, <2>5, <2>6, <2>7 DEF IInv
<1> QED BY <1>1, <1>2

\* The rest of it.
LEMMA CloseDoneIInv ==
  ASSUME IInv, CloseDone
  PROVE  IInv'
<1> USE NoneIsNoRequest, NoneIsNoPair DEF IInv, TypeInv
<1>a. /\ closing # None /\ closing' = None
      /\ done' = done \cup {closing[2]} /\ mFree' = TRUE
      /\ link' = [link EXCEPT ![closing[1]] = IF queue[closing[1]] = <<>> THEN "freed" ELSE "down"]
      /\ UNCHANGED <<user, mMutex, mConnections, connection, closecb, queue, context, target, jobs, runner>>
  BY DEF CloseDone, close, onLoad, DownFor, client
<1>s. /\ \A q \in Requests : Sent(q)' <=> Sent(q)
      /\ \A w \in Users, q \in Requests :
            (Opens(w, q)' <=> Opens(w, q)) /\ (Prepares(w, q)' <=> Prepares(w, q))
  BY <1>a, SameSent
<1>1. TypeInv'
  BY <1>a
<1>2. OpeningInv'
  BY <1>a, <1>s DEF OpeningInv, ClosingInv
<1>3. RefersInv'
  BY <1>a DEF RefersInv, ClosingInv
<1>4. ClosingInv'
  BY <1>a DEF ClosingInv
<1>5. QueueInv'
  BY <1>a, <1>s DEF QueueInv, ClosingInv
<1>6. SentInv'
  BY <1>a, <1>s DEF SentInv
<1>7. LoopCovered'
  BY <1>a DEF LoopCovered, ClosingInv
<1> QED BY <1>1, <1>2, <1>3, <1>4, <1>5, <1>6, <1>7 DEF IInv

\* An idle connection is closed.
LEMMA PeerCloseIInv ==
  ASSUME IInv, NEW v \in Requests, PeerClose(v)
  PROVE  IInv'
<1> USE NoneIsNoRequest, NoneIsNoPair DEF IInv, TypeInv
<1>1. CASE runner \in Users
  <2>1. UNCHANGED <<user, mMutex, client, connection, evhttp, requests, jobs, runner, closing>>
    BY <1>1 DEF PeerClose, InLoop, Locks, evConnectionClosed, DownFor, client, evhttp, requests
  <2> QED BY <2>1, SameIInv
<1>2. CASE runner \notin Users
  <2>a. /\ runner # None /\ closing = None /\ link[v] = "up" /\ queue[v] = <<>>
        /\ reset(closecb[v]) /\ mFree' = TRUE
        /\ link' = [link EXCEPT ![v] = "freed"]
        /\ UNCHANGED <<user, mMutex, mConnections, closecb, queue, context, target, jobs, runner, closing, done>>
    BY <1>2 DEF PeerClose, InLoop, Locks, evConnectionClosed, DownFor, client
  <2>s. /\ \A q \in Requests : Sent(q)' <=> Sent(q)
        /\ \A w \in Users, q \in Requests :
              (Opens(w, q)' <=> Opens(w, q)) /\ (Prepares(w, q)' <=> Prepares(w, q))
    BY <2>a, SameSent
  <2>r. /\ connection' \in [Requests -> Requests \cup {None}]
        /\ \A c \in Requests : connection'[c] # v /\ connection'[c] \in {connection[c], None}
    BY <2>a, ResetRefers
  <2>1. TypeInv'
    BY <2>a, <2>r
  <2>2. OpeningInv'
    BY <2>a, <2>s DEF OpeningInv
  <2>3. RefersInv'
    BY <2>a, <2>r DEF RefersInv
  <2>4. ClosingInv'
    BY <2>a DEF ClosingInv
  <2>5. QueueInv'
    BY <2>a, <2>s DEF QueueInv
  <2>6. SentInv'
    BY <2>a, <2>s DEF SentInv
  <2>7. LoopCovered'
    BY <2>a DEF LoopCovered
  <2> QED BY <2>1, <2>2, <2>3, <2>4, <2>5, <2>6, <2>7 DEF IInv
<1> QED BY <1>1, <1>2

\* A connection is closed before the response.
LEMMA PeerFailsIInv ==
  ASSUME IInv, NEW v \in Requests, PeerFails(v)
  PROVE  IInv'
<1> USE NoneIsNoRequest, NoneIsNoPair DEF IInv, TypeInv
<1>1. CASE runner \in Users
  <2>1. UNCHANGED <<user, mMutex, client, connection, evhttp, requests, jobs, runner, closing>>
    BY <1>1 DEF PeerFails, InLoop, Locks, evConnectionClosed, onLoad, DownFor, client, evhttp, requests
  <2> QED BY <2>1, SameIInv
<1>2. CASE runner \notin Users
  <2>a. /\ runner # None /\ closing = None /\ link[v] = "up" /\ queue[v] # <<>>
        /\ queue' = [queue EXCEPT ![v] = Tail(@)]
        /\ reset(closecb[v]) /\ mFree' = TRUE
        /\ done' = done \cup {Head(queue[v])}
        /\ link' = [link EXCEPT ![v] = IF Tail(queue[v]) = <<>> THEN "freed" ELSE "down"]
        /\ UNCHANGED <<user, mMutex, mConnections, closecb, context, target, jobs, runner, closing>>
    BY <1>2 DEF PeerFails, InLoop, Locks, evConnectionClosed, onLoad, DownFor, client
  <2>s. /\ \A q \in Requests : Sent(q)' <=> Sent(q)
        /\ \A w \in Users, q \in Requests :
              (Opens(w, q)' <=> Opens(w, q)) /\ (Prepares(w, q)' <=> Prepares(w, q))
    BY <2>a, SameSent
  <2>q. /\ Head(queue[v]) \in Requests
        /\ queue' \in [Requests -> Seq(Requests)] /\ queue'[v] = Tail(queue[v])
        /\ \A w \in Requests : w # v => queue'[w] = queue[w]
        /\ \A q, w \in Requests : IsIn(q, queue'[w]) => IsIn(q, queue[w])
        /\ \A q, w \in Requests : IsIn(q, queue[w]) => IsIn(q, queue'[w]) \/ q = Head(queue[v])
    BY <2>a, TailQueue
  <2>r. /\ connection' \in [Requests -> Requests \cup {None}]
        /\ \A c \in Requests : connection'[c] # v /\ connection'[c] \in {connection[c], None}
    BY <2>a, ResetRefers
  <2>1. TypeInv'
    BY <2>a, <2>q, <2>r
  <2>2. OpeningInv'
    BY <2>a, <2>s DEF OpeningInv
  <2>3. RefersInv'
    BY <2>a, <2>r DEF RefersInv
  <2>4. ClosingInv'
    BY <2>a DEF ClosingInv
  <2>5. QueueInv'
    BY <2>a, <2>s, <2>q DEF QueueInv
  <2>6. SentInv'
    BY <2>a, <2>s, <2>q DEF SentInv
  <2>7. LoopCovered'
    BY <2>a DEF LoopCovered
  <2> QED BY <2>1, <2>2, <2>3, <2>4, <2>5, <2>6, <2>7 DEF IInv
<1> QED BY <1>1, <1>2

\* A connection cannot be made.
LEMMA RefusedIInv ==
  ASSUME IInv, NEW v \in Requests, Refused(v)
  PROVE  IInv'
<1> USE NoneIsNoRequest, NoneIsNoPair DEF IInv, TypeInv
<1>1. CASE runner \in Users
  <2>1. UNCHANGED <<user, mMutex, client, connection, evhttp, requests, jobs, runner, closing>>
    BY <1>1 DEF Refused, InLoop, Locks, close, onLoad, client, evhttp, requests
  <2> QED BY <2>1, SameIInv
<1>2. CASE runner \notin Users
  <2>a. /\ runner # None /\ closing = None /\ link[v] = "down"
        /\ queue' = [queue EXCEPT ![v] = <<>>]
        /\ done' = done \cup {queue[v][i] : i \in 1..Len(queue[v])} /\ mFree' = TRUE
        /\ UNCHANGED <<user, mMutex, mConnections, connection, closecb, link, context, target, jobs, runner, closing>>
    BY <1>2 DEF Refused, InLoop, Locks, close, onLoad, client
  <2>s. /\ \A q \in Requests : Sent(q)' <=> Sent(q)
        /\ \A w \in Users, q \in Requests :
              (Opens(w, q)' <=> Opens(w, q)) /\ (Prepares(w, q)' <=> Prepares(w, q))
    BY <2>a, SameSent
  <2>q. /\ queue' \in [Requests -> Seq(Requests)] /\ queue'[v] = <<>>
        /\ \A w \in Requests : w # v => queue'[w] = queue[w]
        /\ \A q \in Requests : ~IsIn(q, queue'[v]) /\ (IsIn(q, queue[v]) => q \in done')
    BY <2>a, InEmpty DEF IsIn
  <2>1. TypeInv'
    BY <2>a, <2>q
  <2>2. OpeningInv'
    BY <2>a, <2>s DEF OpeningInv
  <2>3. RefersInv'
    BY <2>a DEF RefersInv
  <2>4. ClosingInv'
    BY <2>a DEF ClosingInv
  <2>5. QueueInv'
    BY <2>a, <2>s, <2>q DEF QueueInv
  <2>6. SentInv'
    BY <2>a, <2>s, <2>q DEF SentInv
  <2>7. LoopCovered'
    BY <2>a DEF LoopCovered
  <2> QED BY <2>1, <2>2, <2>3, <2>4, <2>5, <2>6, <2>7 DEF IInv
<1> QED BY <1>1, <1>2

\* The invariant holds at first, and every step keeps it.
LEMMA InitIInv == Init => IInv
<1> SUFFICES ASSUME Init PROVE IInv
  OBVIOUS
<1> USE NoneIsNoRequest DEF Init
<1>1. TypeInv
  <2>1. queue \in [Requests -> Seq(Requests)]
    OBVIOUS
  <2>2. user = [u \in Users |-> user[u]]
    OBVIOUS
  <2> QED BY <2>1, <2>2 DEF TypeInv
<1>2. \A q, v \in Requests : ~Sent(q) /\ ~IsIn(q, queue[v])
  BY InEmpty DEF Sent
<1>3. \A u \in Users, q \in Requests : ~Prepares(u, q) /\ ~Opens(u, q)
  BY DEF Prepares, Opens
<1>4. OpeningInv /\ RefersInv /\ ClosingInv
  BY <1>3 DEF OpeningInv, RefersInv, ClosingInv
<1>5. QueueInv /\ SentInv
  BY <1>2 DEF QueueInv, SentInv
<1>6. LoopCovered
  BY DEF LoopCovered, Waiting
<1> QED BY <1>1, <1>4, <1>5, <1>6 DEF IInv

LEMMA NextIInv == IInv /\ [Next]_vars => IInv'
<1> SUFFICES ASSUME IInv, [Next]_vars PROVE IInv'
  OBVIOUS
<1>1. CASE UNCHANGED vars
  BY <1>1, SameIInv DEF vars
<1>2. CASE OpenStep
  BY <1>2, OpenIInv DEF OpenStep
<1>3. CASE \E u \in Users : UserStep(u)
  BY <1>3, DispatchIInv, ConnectNewIInv, ReturnsIInv, OpenedIInv, GetConnectionIInv,
     MakeRequestIInv, SendJobIInv DEF UserStep
<1>4. CASE PoolStep \/ Closed
  BY <1>4, PoolIInv, CloseDoneIInv DEF PoolStep, Closed
<1>5. CASE \E v \in Requests : Connecting(v) \/ Answering(v) \/ Closing(v)
  BY <1>5, ConnectedIInv, RefusedIInv, ResponseIInv, ResponseAndCloseIInv, PeerFailsIInv, PeerCloseIInv
  DEF Connecting, Answering, Closing
<1> QED BY <1>1, <1>2, <1>3, <1>4, <1>5 DEF Next

LEMMA Invariant == Spec => []IInv
  BY InitIInv, NextIInv, PTL DEF Spec
----------------------------------------------------------------------------
\* While an answer, a connection or a close is awaited, somebody runs the loop, or
\* there is a job to run it or a thread about to add one (HttpClientImpl::send,
\* HttpConnection::connect).
THEOREM LoopIsCovered == Spec => []LoopCovered
<1>1. IInv => LoopCovered
  BY DEF IInv
<1> QED BY <1>1, Invariant, PTL
----------------------------------------------------------------------------
(* A server that keeps its connections open *)

SomeUp == \E v \in Requests : link[v] = "up"

\* What thread u finds, at its statement for r.
KeptAt(u, r) ==
    /\ user[u] # <<"loop", r>>
    /\ user[u] = <<"connect", r>> => connection[context[r]] = None \/ SomeUp
    /\ user[u] = <<"send", r>> => connection[context[r]] # None
    /\ user[u] = <<"make", r>> => target[r] # None

\* Nothing is ever freed or reset.  A connection that is up keeps the pool's thread in
\* the loop, so that connect() never runs it: it meets an evhttp_connection only when
\* the id was free, that is after a response, over a connection that is still up.
KeptInv ==
    /\ Running /\ closing = None /\ runner \notin Users
    /\ \A v \in Requests : link[v] # "freed"
    /\ SomeUp => runner # None
    /\ mFree => SomeUp
    /\ \A c \in Requests : context[c] = None =>
          connection[c] = None /\ mConnections # c /\ \A q \in Requests : context[q] # c
    /\ \A u \in Users, r \in Requests : KeptAt(u, r)

\* A thread goes on to a statement that this says nothing of.
LEMMA GoneOnKept ==
  ASSUME IInv, KeptInv, NEW u \in Users,
         user'[u][1] \in {"connected", "job", "user"},
         \A w \in Users : w # u => user'[w] = user[w],
         UNCHANGED <<mConnections, mFree, connection, link, context, target, runner, closing, halted>>
  PROVE  KeptInv'
<1>1. SomeUp' <=> SomeUp
  BY DEF SomeUp
<1>2. ASSUME NEW w \in Users, NEW q \in Requests
      PROVE  KeptAt(w, q)'
  <2>0. KeptAt(w, q)
    BY DEF KeptInv
  <2>1. CASE w = u
    BY <2>1 DEF KeptAt
  <2>2. CASE w # u
    BY <2>0, <2>2, <1>1 DEF KeptAt
  <2> QED BY <2>1, <2>2
<1> QED BY <1>1, <1>2 DEF KeptInv, Running

\* What open() and connect() do.
LEMMA OpenKept ==
  ASSUME IInv, KeptInv, NEW u \in Users, NEW r \in Requests,
         open(u, r) \/ connectDispatch(u, r) \/ connectNew(u, r) \/ dispatchReturns(u, r)
  PROVE  KeptInv'
<1> USE NoneIsNoRequest DEF IInv, TypeInv, client, evhttp, Goto
<1>1. CASE open(u, r)
  <2> USE <1>1 DEF open
  <2>m. /\ user[u] = <<"user", None>> /\ user'[u] = <<"connect", r>>
        /\ \A w \in Users : w # u => user'[w] = user[w]
    OBVIOUS
  <2>c. ConnectionFor(r) \in Requests /\ (ConnectionFor(r) # r => SomeUp)
    BY DEF KeptInv, ConnectionFor, OpeningInv
  <2>d. /\ context'[r] = ConnectionFor(r) /\ context' \in [Requests -> Requests \cup {None}]
        /\ \A q \in Requests : q # r => context'[q] = context[q]
    BY <2>c
  <2>e. context[r] = None /\ UNCHANGED <<connection, link, target, runner, closing, halted, mFree>>
        /\ mConnections' \in {r, mConnections}
    OBVIOUS
  <2>f. ConnectionFor(r) = r \/ ConnectionFor(r) = mConnections
    BY DEF ConnectionFor
  <2> HIDE <1>1 DEF open
  <2>1. \A w \in Users : user[w] # <<"send", r>>
    <3> SUFFICES ASSUME NEW w \in Users, user[w] = <<"send", r>> PROVE FALSE
      OBVIOUS
    <3>1. Prepares(w, r)
      BY DEF Prepares
    <3> QED BY <3>1, <2>e DEF OpeningInv
  <2>2. \A w \in Users : user[w] # <<"connect", r>>
    <3> SUFFICES ASSUME NEW w \in Users, user[w] = <<"connect", r>> PROVE FALSE
      OBVIOUS
    <3>1. Prepares(w, r)
      BY DEF Prepares, Opens
    <3> QED BY <3>1, <2>e DEF OpeningInv
  <2>3. SomeUp' <=> SomeUp
    BY <2>e DEF SomeUp
  <2>4. \A c \in Requests : context'[c] = None =>
            connection'[c] = None /\ mConnections' # c /\ \A q \in Requests : context'[q] # c
    BY <2>c, <2>d, <2>e, <2>f DEF KeptInv
  <2>5. ASSUME NEW w \in Users, NEW q \in Requests
        PROVE  KeptAt(w, q)'
    <3>0. KeptAt(w, q) /\ connection[r] = None
      BY <2>e DEF KeptInv
    <3>1. CASE w = u
      BY <3>0, <3>1, <2>m, <2>c, <2>d, <2>e, <2>3 DEF KeptAt
    <3>2. CASE w # u
      BY <3>0, <3>2, <2>m, <2>d, <2>e, <2>1, <2>2, <2>3 DEF KeptAt
    <3> QED BY <3>1, <3>2
  <2> QED BY <2>e, <2>3, <2>4, <2>5 DEF KeptInv, Running
<1>2. CASE connectDispatch(u, r) \/ connectNew(u, r) \/ dispatchReturns(u, r)
  <2>1. /\ user'[u] = <<"connected", r>> /\ \A w \in Users : w # u => user'[w] = user[w]
        /\ UNCHANGED <<mConnections, mFree, connection, link, context, target, runner, closing, halted>>
    BY <1>2 DEF connectDispatch, connectNew, dispatchReturns, KeptInv, KeptAt
  <2>2. user'[u][1] = "connected"
    BY <2>1
  <2> QED BY <2>1, <2>2, GoneOnKept
<1> QED BY <1>1, <1>2

\* The end of open(): nobody else is in it.
LEMMA OpenedKept ==
  ASSUME IInv, KeptInv, NEW u \in Users, NEW r \in Requests, opened(u, r)
  PROVE  KeptInv'
<1> USE NoneIsNoRequest DEF IInv, TypeInv, client, evhttp, Goto
<1>u. /\ user[u] = <<"connected", r>> /\ user'[u] = <<"send", r>>
      /\ \A w \in Users : w # u => user'[w] = user[w]
  BY DEF opened
<1>o. Opens(u, r)
  BY <1>u DEF Opens
<1>c. context[r] \in Requests /\ link[r] = "none"
  BY <1>o DEF OpeningInv, Prepares
<1>d. PICK v \in Requests :
        /\ connection' = [connection EXCEPT ![context[r]] = v]
        /\ link' = link \/ (link' = [link EXCEPT ![v] = "down"] /\ link[v] = "none")
        /\ UNCHANGED <<mConnections, context, target, runner, closing, halted>> /\ mFree' = FALSE
  <2>1. CASE connection[context[r]] = None
    BY <2>1, <1>c DEF opened
  <2>2. CASE connection[context[r]] # None
    BY <2>2, <1>c DEF opened
  <2> QED BY <2>1, <2>2
<1>1. (SomeUp' <=> SomeUp) /\ \A w \in Requests : link'[w] # "freed"
  BY <1>d DEF SomeUp, KeptInv
<1>2. \A w \in Users, q \in Requests : user[w] = <<"connect", q>> => FALSE
  <2> SUFFICES ASSUME NEW w \in Users, NEW q \in Requests, user[w] = <<"connect", q>> PROVE FALSE
    OBVIOUS
  <2>1. Opens(w, q)
    BY DEF Opens
  <2>2. w = u
    BY <2>1, <1>o DEF OpeningInv
  <2> QED BY <2>2, <1>u
<1>3. connection'[context[r]] # None /\ \A c \in Requests : connection[c] # None => connection'[c] # None
  BY <1>c, <1>d
<1>4. \A c \in Requests : context'[c] = None =>
          connection'[c] = None /\ mConnections' # c /\ \A q \in Requests : context'[q] # c
  BY <1>c, <1>d DEF KeptInv
<1>5. ASSUME NEW w \in Users, NEW q \in Requests
      PROVE  KeptAt(w, q)'
  <2>0. KeptAt(w, q)
    BY DEF KeptInv
  <2>1. CASE w = u
    BY <2>1, <1>u, <1>d, <1>3 DEF KeptAt
  <2>2. CASE w # u
    <3>1. user[w] = <<"send", q>> => context[q] \in Requests
      <4> SUFFICES ASSUME user[w] = <<"send", q>> PROVE context[q] \in Requests
        OBVIOUS
      <4>1. Prepares(w, q)
        BY DEF Prepares
      <4> QED BY <4>1 DEF OpeningInv
    <3> QED BY <2>0, <2>2, <1>u, <1>d, <1>1, <1>2, <1>3, <3>1 DEF KeptAt
  <2> QED BY <2>1, <2>2
<1> QED BY <1>d, <1>1, <1>4, <1>5 DEF KeptInv, Running

\* What send() does: neither null nor freed.
LEMMA SendKept ==
  ASSUME IInv, KeptInv, NEW u \in Users, NEW r \in Requests,
         getConnection(u, r) \/ makeRequest(u, r) \/ sendJob(u, r)
  PROVE  KeptInv'
<1> USE NoneIsNoRequest DEF IInv, TypeInv, client, evhttp, Goto
<1>1. CASE getConnection(u, r)
  <2>1. /\ user[u] = <<"send", r>> /\ user'[u] = <<"make", r>>
        /\ \A w \in Users : w # u => user'[w] = user[w]
        /\ target'[r] = connection[context[r]] /\ \A q \in Requests : q # r => target'[q] = target[q]
        /\ UNCHANGED <<mConnections, mFree, connection, link, context, runner, closing, halted>>
    BY <1>1 DEF getConnection
  <2>2. SomeUp' <=> SomeUp
    BY <2>1 DEF SomeUp
  <2>3. ASSUME NEW w \in Users, NEW q \in Requests PROVE KeptAt(w, q)'
    <3>0. KeptAt(w, q) /\ KeptAt(u, r)
      BY DEF KeptInv
    <3>1. CASE w = u
      BY <3>0, <3>1, <2>1 DEF KeptAt
    <3>2. CASE w # u
      BY <3>0, <3>2, <2>1, <2>2 DEF KeptAt
    <3> QED BY <3>1, <3>2
  <2> QED BY <2>1, <2>2, <2>3 DEF KeptInv, Running
<1>2. CASE makeRequest(u, r)
  <2>1. target[r] \in Requests /\ link[target[r]] # "freed"
    BY <1>2 DEF makeRequest, KeptInv, KeptAt
  <2>2. /\ user'[u] = <<"job", r>> /\ \A w \in Users : w # u => user'[w] = user[w]
        /\ UNCHANGED <<mConnections, mFree, connection, link, context, target, runner, closing, halted>>
    BY <1>2, <2>1 DEF makeRequest
  <2>3. user'[u][1] = "job"
    BY <2>2
  <2> QED BY <2>2, <2>3, GoneOnKept
<1>3. CASE sendJob(u, r)
  <2>2. /\ user'[u] = <<"user", None>> /\ \A w \in Users : w # u => user'[w] = user[w]
        /\ UNCHANGED <<mConnections, mFree, connection, link, context, target, runner, closing, halted>>
    BY <1>3 DEF sendJob
  <2>3. user'[u][1] = "user"
    BY <2>2
  <2> QED BY <2>2, <2>3, GoneOnKept
<1> QED BY <1>1, <1>2, <1>3

\* The pool's thread, and what happens in the loop.
LEMMA LoopKept ==
  ASSUME IInv, KeptInv, ~peerCloses,
         \/ dispatch \/ loopReturns \/ CloseDone
         \/ \E v \in Requests : \/ Connected(v) \/ Refused(v) \/ Response(v) \/ ResponseAndClose(v)
                                \/ PeerFails(v) \/ PeerClose(v)
  PROVE  KeptInv'
<1> USE NoneIsNoRequest, PoolIsNoUser DEF IInv, TypeInv, client, evhttp
<1>1. CASE dispatch \/ loopReturns
  <2>1. /\ runner' \notin Users /\ (SomeUp => runner' # None)
        /\ UNCHANGED <<user, mConnections, mFree, connection, link, context, target, closing, halted>>
    BY <1>1 DEF dispatch, loopReturns, KeptInv, SomeUp, Waiting
  <2>2. SomeUp' <=> SomeUp
    BY <2>1 DEF SomeUp
  <2> QED BY <2>1, <2>2 DEF KeptInv, KeptAt, Running
<1>2. ASSUME NEW v \in Requests, Connected(v) PROVE KeptInv'
  <2>1. /\ runner # None /\ link' = [link EXCEPT ![v] = "up"]
        /\ UNCHANGED <<user, mConnections, mFree, connection, context, target, runner, closing, halted>>
    BY <1>2 DEF Connected, InLoop
  <2>2. SomeUp' /\ \A w \in Requests : link'[w] # "freed"
    BY <2>1 DEF SomeUp, KeptInv
  <2> QED BY <2>1, <2>2 DEF KeptInv, KeptAt, Running
<1>3. ASSUME NEW v \in Requests, Response(v) PROVE KeptInv'
  <2>1. /\ runner # None /\ link[v] = "up"
        /\ UNCHANGED <<user, mConnections, connection, link, context, target, runner, closing, halted>>
    BY <1>3 DEF Response, InLoop, Locks, evHttpReqDone, KeptInv
  <2>2. SomeUp /\ SomeUp'
    BY <2>1 DEF SomeUp
  <2> QED BY <2>1, <2>2 DEF KeptInv, KeptAt, Running
<1> QED BY <1>1, <1>2, <1>3 DEF CloseDone, KeptInv, Refused, ResponseAndClose, PeerFails, PeerClose

\* If the server keeps connections open, send() never uses an evhttp_connection that is
\* null or freed, and no callback of the loop finds its own thread holding the lock, for
\* any number of threads and requests (http-request.cpp:251-253, http-connection.cpp:66-77).
THEOREM KeptOpenNoFault == Spec => []OnlyClosesHurt
<1> DEFINE Kept == IInv /\ (~peerCloses => KeptInv)
<1>1. Init => Kept
  <2> SUFFICES ASSUME Init PROVE KeptInv
    BY InitIInv
  <2> QED BY NoneIsNoRequest DEF Init, KeptInv, KeptAt, SomeUp, Running
<1>2. Kept /\ [Next]_vars => Kept'
  <2> SUFFICES ASSUME IInv, ~peerCloses' , ~peerCloses => KeptInv, [Next]_vars PROVE KeptInv'
    BY NextIInv
  <2>0. ~peerCloses /\ KeptInv
    BY DEF Next, vars, OpenStep, PoolStep, Closed, UserStep, Connecting, Answering, Closing
  <2>1. CASE UNCHANGED vars
    BY <2>0, <2>1 DEF KeptInv, KeptAt, SomeUp, Running, vars, client, evhttp, requests
  <2>2. CASE OpenStep \/ \E u \in Users : UserStep(u)
    BY <2>0, <2>2, OpenKept, OpenedKept, SendKept DEF OpenStep, UserStep
  <2>3. CASE PoolStep \/ Closed \/ \E v \in Requests : Connecting(v) \/ Answering(v) \/ Closing(v)
    <3>1. \/ dispatch \/ loopReturns \/ CloseDone
          \/ \E v \in Requests : \/ Connected(v) \/ Refused(v) \/ Response(v) \/ ResponseAndClose(v)
                                 \/ PeerFails(v) \/ PeerClose(v)
      BY <2>3 DEF PoolStep, Closed, Connecting, Answering, Closing
    <3> QED BY <2>0, <3>1, LoopKept
  <2> QED BY <2>1, <2>2, <2>3 DEF Next
<1>3. Kept => OnlyClosesHurt
  BY DEF KeptInv, OnlyClosesHurt, Running
<1> QED BY <1>1, <1>2, <1>3, PTL DEF Spec

\* A request that was sent waits in exactly one queue, which is not that of a freed
\* evhttp_connection, until its onLoad is called, for any number of threads and
\* whatever the peer closes; and send() is given a null or freed one only if the peer
\* closes connections (http-client.cpp, http-connection.cpp, http-request.cpp:251-253).
THEOREM NoRequestIsLost == Spec => []SentAreQueued
<1>1. ASSUME IInv, NEW c \in Requests, connection[c] # None PROVE link[connection[c]] # "freed"
  BY <1>1 DEF IInv, RefersInv
<1>2. IInv /\ OnlyClosesHurt => SentAreQueued
  <2> SUFFICES ASSUME IInv, OnlyClosesHurt, NEW r \in Requests, Sent(r), r \notin done,
                      ~(closing # None /\ closing[2] = r)
               PROVE  \E v \in Requests :
                         /\ link[v] # "freed" /\ IsIn(r, queue[v])
                         /\ \A w \in Requests : IsIn(r, queue[w]) => w = v
    BY <1>1 DEF SentAreQueued
  <2>1. PICK v \in Requests : IsIn(r, queue[v])
    BY DEF IInv, SentInv
  <2>2. link[v] # "freed"
    BY <2>1, InEmpty DEF IInv, QueueInv
  <2> QED BY <2>1, <2>2 DEF IInv, QueueInv
<1> QED BY <1>2, Invariant, KeptOpenNoFault, PTL
-----------------------------------------------------------------------------
(* The connections of a TcpServer *)

\* The types of what a connection passes through.
ServerTypeInv ==
    /\ backlog \in Seq(Peers)
    /\ accepted \in Peers \cup {Nobody}
    /\ listener \in {"handle", "callback"} => accepted \in Peers
    /\ queued \in Seq(Peers \cup Locals)
    /\ worker \in [Workers -> Peers \cup Locals \cup {Nobody}]
    /\ waits \in [Peers -> SUBSET {"read", "write"}]
    /\ sent \in [Peers -> Nat]
    /\ read \in [Peers -> Nat]
    /\ calls \in [Peers -> Seq({"connection", "message", "disconnect"})]

InHand(c) == listener = "handle" /\ accepted = c
Served(c) == \E w \in Workers : worker[w] = c
Known(c) == Reached(c) \/ Accepted(c)

\* A connection is in one place at most, in one if it is known and not finished, and
\* a worker whose connection waits no more for input has finished it.
PlaceInv(c) ==
    /\ IsIn(c, backlog) => ~InHand(c) /\ ~IsIn(c, queued) /\ ~Served(c)
    /\ InHand(c) => ~IsIn(c, queued) /\ ~Served(c)
    /\ IsIn(c, queued) => ~Served(c)
    /\ Known(c) => IsIn(c, backlog) \/ InHand(c) \/ IsIn(c, queued) \/ Served(c) \/ Finished(c)
    /\ Served(c) /\ "read" \notin waits[c] => Finished(c)

\* And it is there once.
OnceIn(s) == \A i, j \in 1..Len(s) : s[i] = s[j] /\ s[i] \in Peers => i = j
OnceServed == \A v, w \in Workers : worker[v] = worker[w] /\ worker[v] \in Peers => v = w
OnceInv == OnceIn(backlog) /\ OnceIn(queued) /\ OnceServed

ServerIInv == ServerTypeInv /\ OnceInv /\ \A c \in Peers : PlaceInv(c)

LEMMA OnceTail ==
  ASSUME NEW S, NEW s \in Seq(S), s # <<>>, OnceIn(s)
  PROVE  OnceIn(Tail(s)) /\ (Head(s) \in Peers => ~IsIn(Head(s), Tail(s)))
<1>1. Len(s) \in Nat \ {0} /\ Len(Tail(s)) = Len(s) - 1 /\ Head(s) = s[1]
  OBVIOUS
<1>2. \A i \in 1..Len(Tail(s)) : i + 1 \in 1..Len(s) /\ Tail(s)[i] = s[i + 1]
  BY <1>1
<1>3. ASSUME NEW i \in 1..Len(Tail(s)), NEW j \in 1..Len(Tail(s)),
             Tail(s)[i] = Tail(s)[j], Tail(s)[i] \in Peers
      PROVE  i = j
  <2>1. i + 1 = j + 1
    BY <1>2, <1>3 DEF OnceIn
  <2> QED BY <2>1
<1>4. ASSUME Head(s) \in Peers, NEW i \in 1..Len(Tail(s)), Tail(s)[i] = Head(s) PROVE FALSE
  <2>1. 1 = i + 1
    BY <1>1, <1>2, <1>4 DEF OnceIn
  <2> QED BY <2>1
<1>5. OnceIn(Tail(s))
  BY <1>3 DEF OnceIn
<1>6. Head(s) \in Peers => ~IsIn(Head(s), Tail(s))
  BY <1>4 DEF IsIn
<1> QED BY <1>5, <1>6

LEMMA OnceAppend ==
  ASSUME NEW S, NEW s \in Seq(S), NEW q \in S, OnceIn(s), q \in Peers => ~IsIn(q, s)
  PROVE  OnceIn(Append(s, q))
<1>1. Len(s) \in Nat /\ Len(Append(s, q)) = Len(s) + 1 /\ Append(s, q)[Len(s) + 1] = q
  OBVIOUS
<1>2. \A i \in 1..Len(s) : Append(s, q)[i] = s[i]
  OBVIOUS
<1> SUFFICES ASSUME NEW i \in 1..Len(Append(s, q)), NEW j \in 1..Len(Append(s, q)),
                    Append(s, q)[i] = Append(s, q)[j], Append(s, q)[i] \in Peers
             PROVE  i = j
  BY DEF OnceIn
<1>3. CASE i \in 1..Len(s) /\ j \in 1..Len(s)
  BY <1>2, <1>3 DEF OnceIn
<1>4. CASE i \in 1..Len(s) /\ j \notin 1..Len(s)
  <2>1. s[i] = q /\ q \in Peers
    BY <1>1, <1>2, <1>4
  <2> QED BY <1>4, <2>1 DEF IsIn
<1>5. CASE i \notin 1..Len(s) /\ j \in 1..Len(s)
  <2>1. s[j] = q /\ q \in Peers
    BY <1>1, <1>2, <1>5
  <2> QED BY <1>5, <2>1 DEF IsIn
<1>6. CASE i \notin 1..Len(s) /\ j \notin 1..Len(s)
  BY <1>1, <1>6
<1> QED BY <1>3, <1>4, <1>5, <1>6

\* What is finished stays so, but for a message.
LEMMA FinishedStays ==
  ASSUME ServerTypeInv, NEW c \in Peers, closed \subseteq closed', sent'[c] = sent[c], read'[c] = read[c],
         \/ calls'[c] = calls[c]
         \/ calls'[c] = Append(calls[c], "connection")
         \/ calls'[c] = Append(calls[c], "disconnect")
  PROVE  Finished(c) => Finished(c)'
<1> SUFFICES ASSUME Finished(c) PROVE Finished(c)'
  OBVIOUS
<1>1. PICK i \in 1..Len(calls[c]) :
        calls[c][i] = "disconnect" /\ \A j \in 1..Len(calls[c]) : j > i => calls[c][j] # "message"
  BY DEF Finished
<1>2. ASSUME NEW x \in {"connection", "disconnect"}, calls'[c] = Append(calls[c], x)
      PROVE  i \in 1..Len(calls'[c]) /\ calls'[c][i] = "disconnect"
             /\ \A j \in 1..Len(calls'[c]) : j > i => calls'[c][j] # "message"
  <2> PICK s : s = calls[c] /\ s \in Seq({"connection", "message", "disconnect"})
    BY DEF ServerTypeInv
  <2>1. Len(s) \in Nat /\ Len(Append(s, x)) = Len(s) + 1 /\ Append(s, x)[Len(s) + 1] = x
    OBVIOUS
  <2>2. \A j \in 1..Len(s) : Append(s, x)[j] = s[j]
    OBVIOUS
  <2> QED BY <1>1, <1>2, <2>1, <2>2
<1> QED BY <1>1, <1>2 DEF Finished

\* A step that leaves c where it is.
LEMMA SamePlace ==
  ASSUME NEW c \in Peers, PlaceInv(c),
         IsIn(c, backlog') <=> IsIn(c, backlog), InHand(c)' <=> InHand(c),
         IsIn(c, queued') <=> IsIn(c, queued), Served(c)' <=> Served(c),
         Known(c)' => Known(c), "read" \in waits[c] => "read" \in waits'[c],
         Finished(c) => Finished(c)'
  PROVE  PlaceInv(c)'
  BY DEF PlaceInv

\* The peers.
LEMMA PeersIInv ==
  ASSUME ServerIInv, NEW p \in Peers, Connect(p) \/ Send(p) \/ Close(p)
  PROVE  ServerIInv'
<1> USE DEF listening, serving
<1>0. ServerTypeInv /\ OnceInv /\ \A c \in Peers : PlaceInv(c)
  BY DEF ServerIInv
<1>f. UNCHANGED <<listener, accepted, queued, worker, read, waits, calls>>
  BY DEF Connect, Send, Close
<1>a. \A c \in Peers : InHand(c)' = InHand(c) /\ Served(c)' = Served(c) /\ Accepted(c)' = Accepted(c)
  BY <1>f DEF InHand, Served, Accepted, InQueue, ServedBy
<1>1. CASE Connect(p)
  <2>1. backlog' = Append(backlog, p) /\ UNCHANGED <<sent, closed>> /\ ~Known(p)
    BY <1>1 DEF Connect, Known
  <2>2. ~IsIn(p, backlog) /\ ~InHand(p) /\ ~IsIn(p, queued) /\ ~Served(p)
    BY <2>1 DEF Known, Reached, Accepted, InQueue, ServedBy, InHand, Served, IsIn
  <2>3. backlog' \in Seq(Peers) /\ \A r : IsIn(r, backlog') <=> r = p \/ IsIn(r, backlog)
    BY <1>0, <2>1, InAppend DEF ServerTypeInv
  <2>4. OnceIn(backlog')
    BY <1>0, <2>1, <2>2, OnceAppend DEF ServerTypeInv, OnceInv
  <2>5. ServerTypeInv' /\ OnceInv'
    BY <1>0, <1>f, <2>1, <2>3, <2>4 DEF ServerTypeInv, OnceInv, OnceServed, OnceIn
  <2>6. ASSUME NEW c \in Peers, c # p PROVE PlaceInv(c)'
    <3>1. Finished(c) => Finished(c)'
      BY <1>f, <2>1 DEF Finished
    <3>2. Known(c)' => Known(c)
      BY <1>a, <2>1, <2>3, <2>6 DEF Known, Reached, IsIn
    <3>3. IsIn(c, backlog') <=> IsIn(c, backlog)
      BY <2>3, <2>6
    <3> QED BY <1>0, <1>f, <1>a, <3>1, <3>2, <3>3, SamePlace
  <2>7. PlaceInv(p)'
    BY <1>f, <1>a, <2>2, <2>3 DEF PlaceInv
  <2> QED BY <2>5, <2>6, <2>7 DEF ServerIInv
<1>2. CASE Send(p)
  <2>1. /\ sent' = [sent EXCEPT ![p] = @ + 1] /\ UNCHANGED <<backlog, closed>>
        /\ Known(p) /\ p \notin closed
    BY <1>2 DEF Send, Known
  <2>4. sent' \in [Peers -> Nat]
    BY <1>0, <2>1 DEF ServerTypeInv
  <2>5. ServerTypeInv' /\ OnceInv'
    BY <1>0, <1>f, <2>1, <2>4 DEF ServerTypeInv, OnceInv, OnceServed, OnceIn
  <2>6. ASSUME NEW c \in Peers PROVE PlaceInv(c)'
    <3>1. Finished(c) => Finished(c)'
      <4>1. CASE c = p
        BY <2>1, <4>1 DEF Finished
      <4>2. CASE c # p
        BY <1>0, <1>f, <2>1, <4>2 DEF Finished, ServerTypeInv
      <4> QED BY <4>1, <4>2
    <3>2. Known(c)' => Known(c)
      <4>1. CASE c # p
        BY <1>0, <1>a, <2>1, <4>1 DEF Known, Reached, ServerTypeInv
      <4> QED BY <2>1, <4>1
    <3> QED BY <1>0, <1>f, <1>a, <2>1, <3>1, <3>2, SamePlace
  <2> QED BY <2>5, <2>6 DEF ServerIInv
<1>3. CASE Close(p)
  <2>1. closed' = closed \cup {p} /\ UNCHANGED <<backlog, sent>> /\ Known(p)
    BY <1>3 DEF Close, Known
  <2>5. ServerTypeInv' /\ OnceInv'
    BY <1>0, <1>f, <2>1 DEF ServerTypeInv, OnceInv, OnceServed, OnceIn
  <2>6. ASSUME NEW c \in Peers PROVE PlaceInv(c)'
    <3>1. Finished(c) => Finished(c)'
      BY <1>f, <2>1 DEF Finished
    <3>2. Known(c)' => Known(c)
      BY <1>a, <2>1 DEF Known, Reached
    <3> QED BY <1>0, <1>f, <1>a, <2>1, <3>1, <3>2, SamePlace
  <2> QED BY <2>5, <2>6 DEF ServerIInv
<1> QED BY <1>1, <1>2, <1>3

\* A step that leaves every connection where it is, but may call back.
LEMMA NobodyMoves ==
  ASSUME ServerIInv, ServerTypeInv', UNCHANGED <<backlog, sent, closed, read>>,
         \A c \in Peers : InHand(c)' = InHand(c) /\ Served(c)' = Served(c) /\ (accepted' = c => accepted = c),
         \A c \in Peers : (IsIn(c, queued') <=> IsIn(c, queued)), OnceIn(queued'), OnceServed',
         \A c \in Peers : \/ calls'[c] = calls[c]
                          \/ calls'[c] = Append(calls[c], "connection") /\ accepted = c,
         waits' = waits
  PROVE  ServerIInv'
<1>1. ASSUME NEW c \in Peers PROVE PlaceInv(c)'
  <2>1. Finished(c) => Finished(c)'
    BY FinishedStays DEF ServerIInv
  <2>2. Known(c)' => Known(c)
    <3>1. Reached(c)' = Reached(c)
      BY DEF Reached
    <3>2. Accepted(c) <=> accepted = c \/ IsIn(c, queued) \/ Served(c) \/ calls[c] # <<>>
      BY DEF Accepted, InQueue, ServedBy, IsIn, Served
    <3>3. Accepted(c)' <=> accepted' = c \/ IsIn(c, queued') \/ Served(c)' \/ calls'[c] # <<>>
      BY DEF Accepted, InQueue, ServedBy, IsIn, Served
    <3> QED BY <3>1, <3>2, <3>3 DEF Known
  <2> QED BY <2>1, <2>2, SamePlace DEF ServerIInv
<1>2. OnceInv'
  BY DEF ServerIInv, OnceInv, OnceIn
<1> QED BY <1>1, <1>2 DEF ServerIInv

\* The listener, but for what it does with a connection.
LEMMA ListenerIInv ==
  ASSUME ServerIInv, Start \/ acceptFails \/ eventDispatch \/ rearm \/ listenReturns \/ connectionCallback
  PROVE  ServerIInv'
<1> USE DEF kernel, serving, ServerIInv
<1>1. CASE Start \/ acceptFails \/ eventDispatch \/ rearm \/ listenReturns
  <2>1. /\ listener # "handle" /\ listener' \notin {"handle", "callback"}
        /\ UNCHANGED <<backlog, sent, closed, accepted, queued, worker, read, waits, calls>>
    BY <1>1 DEF Start, ListenerStart, acceptFails, eventDispatch, rearm, listenReturns
  <2>2. ServerTypeInv'
    BY <2>1 DEF ServerTypeInv
  <2>3. \A c \in Peers : InHand(c)' = InHand(c) /\ Served(c)' = Served(c)
    BY <2>1 DEF InHand, Served
  <2>4. OnceIn(queued') /\ OnceServed'
    BY <2>1 DEF OnceInv, OnceServed, OnceIn
  <2> QED BY <2>1, <2>2, <2>3, <2>4, NobodyMoves
<1>2. CASE connectionCallback
  <2>1. /\ listener = "callback" /\ listener' = "rearm" /\ accepted' = Nobody
        /\ calls' = [calls EXCEPT ![accepted] = Append(@, "connection")]
        /\ UNCHANGED <<backlog, sent, closed, queued, worker, read, waits>>
    BY <1>2 DEF connectionCallback, Called
  <2>2. ServerTypeInv'
    <3>1. accepted \in Peers
      BY <2>1 DEF ServerTypeInv
    <3>2. Append(calls[accepted], "connection") \in Seq({"connection", "message", "disconnect"})
      BY <3>1 DEF ServerTypeInv
    <3>3. calls' \in [Peers -> Seq({"connection", "message", "disconnect"})]
      BY <2>1, <3>2 DEF ServerTypeInv
    <3> QED BY <2>1, <3>3 DEF ServerTypeInv
  <2>3. \A c \in Peers : InHand(c)' = InHand(c) /\ Served(c)' = Served(c)
    BY <2>1 DEF InHand, Served
  <2>4. OnceIn(queued') /\ OnceServed'
    BY <2>1 DEF OnceInv, OnceServed, OnceIn
  <2>5. \A c \in Peers : \/ calls'[c] = calls[c]
                         \/ calls'[c] = Append(calls[c], "connection") /\ accepted = c
    BY <2>1 DEF ServerTypeInv
  <2>6. \A c \in Peers : accepted' = c => accepted = c
    BY <2>1, NamesDiffer
  <2> QED BY <2>1, <2>2, <2>3, <2>4, <2>5, <2>6, NobodyMoves
<1> QED BY <1>1, <1>2

\* A connection goes from the backlog to the listener, and to the queue.
LEMMA AcceptIInv ==
  ASSUME ServerIInv, acceptConnection \/ handleConnection
  PROVE  ServerIInv'
<1> USE DEF kernel, serving
<1>0. ServerTypeInv /\ OnceInv /\ \A c \in Peers : PlaceInv(c)
  BY DEF ServerIInv
<1>a. \A c \in Peers : Accepted(c) <=> accepted = c \/ IsIn(c, queued) \/ Served(c) \/ calls[c] # <<>>
  BY DEF Accepted, InQueue, ServedBy, IsIn, Served
<1>b. \A c \in Peers : Accepted(c)' <=> accepted' = c \/ IsIn(c, queued') \/ Served(c)' \/ calls'[c] # <<>>
  BY DEF Accepted, InQueue, ServedBy, IsIn, Served
<1>r. \A c \in Peers : Reached(c) <=> c \in closed \/ sent[c] > 0 \/ IsIn(c, backlog)
  BY DEF Reached, IsIn
<1>s. \A c \in Peers : Reached(c)' <=> c \in closed' \/ sent'[c] > 0 \/ IsIn(c, backlog')
  BY DEF Reached, IsIn
<1>1. CASE acceptConnection
  <2>1. /\ listener = "armed" /\ listener' = "handle" /\ backlog # <<>>
        /\ accepted' = Head(backlog) /\ backlog' = Tail(backlog)
        /\ UNCHANGED <<sent, closed, queued, worker, read, waits, calls>>
    BY <1>1 DEF acceptConnection
  <2> PICK p : p = Head(backlog)
    OBVIOUS
  <2>2. /\ p \in Peers /\ backlog' \in Seq(Peers)
        /\ \A r : IsIn(r, backlog) <=> r = p \/ IsIn(r, backlog')
    BY <1>0, <2>1, InTail DEF ServerTypeInv
  <2>3. OnceIn(backlog') /\ ~IsIn(p, backlog')
    BY <1>0, <2>1, <2>2, OnceTail DEF ServerTypeInv, OnceInv
  <2>4. ServerTypeInv' /\ OnceInv'
    BY <1>0, <2>1, <2>2, <2>3 DEF ServerTypeInv, OnceInv, OnceServed, OnceIn
  <2>5. \A c \in Peers : ~InHand(c) /\ (InHand(c)' <=> c = p) /\ (Served(c)' <=> Served(c))
    BY <2>1 DEF InHand, Served
  <2>6. ASSUME NEW c \in Peers PROVE PlaceInv(c)'
    <3>1. Finished(c) => Finished(c)'
      BY <2>1 DEF Finished
    <3>2. CASE c = p
      BY <1>0, <2>1, <2>2, <2>3, <2>5, <3>1, <3>2 DEF PlaceInv
    <3>3. CASE c # p
      <4>1. Known(c)' => Known(c)
        BY <1>a, <1>b, <1>r, <1>s, <2>1, <2>2, <2>5, <3>3 DEF Known
      <4> QED BY <1>0, <2>1, <2>2, <2>5, <3>1, <3>3, <4>1, SamePlace
    <3> QED BY <3>2, <3>3
  <2> QED BY <2>4, <2>6 DEF ServerIInv
<1>2. CASE handleConnection
  <2>1. /\ listener = "handle" /\ listener' = "callback" /\ queued' = Append(queued, accepted)
        /\ UNCHANGED <<backlog, sent, closed, accepted, worker, read, waits, calls>>
    BY <1>2 DEF handleConnection
  <2> PICK p : p = accepted
    OBVIOUS
  <2>2. p \in Peers /\ InHand(p)
    BY <1>0, <2>1 DEF ServerTypeInv, InHand
  <2>3. queued' \in Seq(Peers \cup Locals) /\ \A r : IsIn(r, queued') <=> r = p \/ IsIn(r, queued)
    <3> PICK S : S = Peers \cup Locals /\ p \in S /\ queued \in Seq(S)
      BY <1>0, <2>2 DEF ServerTypeInv
    <3> QED BY <2>1, InAppend
  <2>4. ~IsIn(p, backlog) /\ ~IsIn(p, queued) /\ ~Served(p)
    BY <1>0, <2>2 DEF PlaceInv
  <2>5. OnceIn(queued')
    BY <1>0, <2>1, <2>2, <2>4, OnceAppend DEF ServerTypeInv, OnceInv
  <2>6. ServerTypeInv' /\ OnceInv'
    BY <1>0, <2>1, <2>2, <2>3, <2>5 DEF ServerTypeInv, OnceInv, OnceServed, OnceIn
  <2>7. \A c \in Peers : (InHand(c) <=> c = p) /\ ~InHand(c)' /\ (Served(c)' <=> Served(c))
    BY <2>1 DEF InHand, Served
  <2>8. ASSUME NEW c \in Peers PROVE PlaceInv(c)'
    <3>1. Finished(c) => Finished(c)'
      BY <2>1 DEF Finished
    <3>2. CASE c = p
      BY <2>1, <2>3, <2>4, <2>7, <3>2 DEF PlaceInv
    <3>3. CASE c # p
      <4>1. Known(c)' => Known(c)
        BY <1>a, <1>b, <1>r, <1>s, <2>1, <2>3, <2>7, <3>3 DEF Known
      <4> QED BY <1>0, <2>1, <2>3, <2>7, <3>1, <3>3, <4>1, SamePlace
    <3> QED BY <3>2, <3>3
  <2> QED BY <2>6, <2>8 DEF ServerIInv
<1> QED BY <1>1, <1>2

\* A local event is queued behind the connections.
LEMMA LocalIInv ==
  ASSUME ServerIInv, NEW e \in Locals, newLocalEvent(e)
  PROVE  ServerIInv'
<1>1. queued' = Append(queued, e) /\ UNCHANGED <<backlog, sent, closed, listener, accepted, worker, read, waits, calls>>
  BY DEF newLocalEvent, kernel, listening, serving
<1>2. queued' \in Seq(Peers \cup Locals) /\ \A r : IsIn(r, queued') <=> r = e \/ IsIn(r, queued)
  <2> PICK S : S = Peers \cup Locals /\ e \in S /\ queued \in Seq(S)
    BY DEF ServerIInv, ServerTypeInv
  <2> QED BY <1>1, InAppend
<1>3. e \notin Peers
  BY NamesDiffer
<1>4. OnceIn(queued')
  BY <1>1, <1>3, OnceAppend DEF ServerIInv, ServerTypeInv, OnceInv
<1>5. ServerTypeInv' /\ OnceServed'
  BY <1>1, <1>2 DEF ServerIInv, ServerTypeInv, OnceInv, OnceServed
<1>6. \A c \in Peers : InHand(c)' = InHand(c) /\ Served(c)' = Served(c) /\ (IsIn(c, queued') <=> IsIn(c, queued))
  BY <1>1, <1>2, <1>3 DEF InHand, Served
<1> QED BY <1>1, <1>4, <1>5, <1>6, NobodyMoves

\* A worker takes the head of the queue.
LEMMA TakeIInv ==
  ASSUME ServerIInv, NEW w \in Workers, workerRoutine(w)
  PROVE  ServerIInv'
<1>0. ServerTypeInv /\ OnceInv /\ \A c \in Peers : PlaceInv(c)
  BY DEF ServerIInv
<1> PICK j : j = Head(queued)
  OBVIOUS
<1>1. /\ worker[w] = Nobody /\ queued # <<>> /\ worker' = [worker EXCEPT ![w] = j] /\ queued' = Tail(queued)
      /\ waits' = IF j \in Peers THEN [waits EXCEPT ![j] = {"read", "write"}] ELSE waits
      /\ UNCHANGED <<backlog, sent, closed, listener, accepted, read, calls>>
  BY DEF workerRoutine, kernel, listening
<1>2. /\ j \in Peers \cup Locals /\ queued' \in Seq(Peers \cup Locals)
      /\ \A r : IsIn(r, queued) <=> r = j \/ IsIn(r, queued')
  <2> PICK S : S = Peers \cup Locals /\ queued \in Seq(S)
    BY <1>0 DEF ServerTypeInv
  <2> QED BY <1>1, InTail
<1>3. OnceIn(queued') /\ (j \in Peers => ~IsIn(j, queued'))
  BY <1>0, <1>1, OnceTail DEF ServerTypeInv, OnceInv
<1>4. waits' \in [Peers -> SUBSET {"read", "write"}]
  BY <1>0, <1>1 DEF ServerTypeInv
<1>5. worker' \in [Workers -> Peers \cup Locals \cup {Nobody}]
  BY <1>0, <1>1, <1>2 DEF ServerTypeInv
<1>6. ServerTypeInv'
  BY <1>0, <1>1, <1>2, <1>4, <1>5 DEF ServerTypeInv
<1>7. \A c \in Peers : /\ InHand(c)' <=> InHand(c)
                       /\ Served(c)' <=> Served(c) \/ c = j
  <2>1. Nobody \notin Peers
    BY NamesDiffer
  <2>2. worker'[w] = j /\ \A v \in Workers : v # w => worker'[v] = worker[v]
    BY <1>0, <1>1 DEF ServerTypeInv
  <2> QED BY <1>1, <2>1, <2>2 DEF InHand, Served
<1>8. j \in Peers => ~Served(j)
  BY <1>0, <1>2 DEF PlaceInv
<1>9. OnceServed'
  <2> SUFFICES ASSUME NEW u \in Workers, NEW v \in Workers, worker'[u] = worker'[v], worker'[u] \in Peers
               PROVE  u = v
    BY DEF OnceServed
  <2>2. worker'[w] = j /\ \A x \in Workers : x # w => worker'[x] = worker[x]
    BY <1>0, <1>1 DEF ServerTypeInv
  <2>3. CASE u # w /\ v # w
    BY <1>0, <2>2, <2>3 DEF OnceInv, OnceServed
  <2>4. CASE u = w /\ v # w
    BY <1>8, <2>2, <2>4 DEF Served
  <2>5. CASE u # w /\ v = w
    BY <1>8, <2>2, <2>5 DEF Served
  <2> QED BY <2>3, <2>4, <2>5
<1>10. OnceInv'
  BY <1>0, <1>1, <1>3, <1>9 DEF OnceInv, OnceIn
<1>11. ASSUME NEW c \in Peers PROVE PlaceInv(c)'
  <2>1. Finished(c) => Finished(c)'
    BY <1>1 DEF Finished
  <2>2. CASE c = j
    <3>1. "read" \in waits'[c]
      BY <1>0, <1>1, <2>2 DEF ServerTypeInv
    <3> QED BY <1>0, <1>1, <1>2, <1>3, <1>7, <2>2, <3>1 DEF PlaceInv
  <2>3. CASE c # j
    <3>1. waits'[c] = waits[c]
      BY <1>0, <1>1, <2>3 DEF ServerTypeInv
    <3>2. Known(c)' => Known(c)
      <4>1. Reached(c)' = Reached(c)
        BY <1>1 DEF Reached
      <4>2. Accepted(c) <=> accepted = c \/ IsIn(c, queued) \/ Served(c) \/ calls[c] # <<>>
        BY DEF Accepted, InQueue, ServedBy, IsIn, Served
      <4>3. Accepted(c)' <=> accepted' = c \/ IsIn(c, queued') \/ Served(c)' \/ calls'[c] # <<>>
        BY DEF Accepted, InQueue, ServedBy, IsIn, Served
      <4> QED BY <1>1, <1>2, <1>7, <2>3, <4>1, <4>2, <4>3 DEF Known
    <3> QED BY <1>0, <1>1, <1>2, <1>7, <2>1, <2>3, <3>1, <3>2, SamePlace
  <2> QED BY <2>2, <2>3
<1> QED BY <1>6, <1>10, <1>11 DEF ServerIInv

\* A callback of the connection p in its worker's loop.
LEMMA CallbackIInv ==
  ASSUME ServerIInv, NEW w \in Workers, NEW p \in Peers,
         \/ readMessage(w, p) \/ written(w, p)
         \/ \E d \in {"read", "write"} : onError(w, p, d)
  PROVE  ServerIInv'
<1>0. ServerTypeInv /\ OnceInv /\ \A c \in Peers : PlaceInv(c)
  BY DEF ServerIInv
<1>1. worker[w] = p /\ UNCHANGED <<backlog, sent, closed, listener, accepted, queued, worker>>
  BY DEF readMessage, written, onError, kernel, listening
<1>2. \A c \in Peers : /\ InHand(c)' <=> InHand(c)
                       /\ Served(c)' <=> Served(c)
  BY <1>1 DEF InHand, Served
<1>3. Served(p)
  BY <1>1 DEF Served
<1>4. OnceInv'
  BY <1>0, <1>1 DEF OnceInv, OnceIn, OnceServed
<1>5. \E x \in {"message", "disconnect"} :
         calls' = calls \/ calls' = [calls EXCEPT ![p] = Append(@, x)]
  BY DEF readMessage, written, onError, Called
<1>6. read' \in [Peers -> Nat] /\ \A c \in Peers : c # p => read'[c] = read[c]
  <2>1. CASE readMessage(w, p)
    <3>1. PICK n \in (read[p] + 1)..sent[p] : read' = [read EXCEPT ![p] = n]
      BY <2>1 DEF readMessage
    <3>2. n \in Nat
      BY <1>0 DEF ServerTypeInv
    <3> QED BY <1>0, <3>1, <3>2 DEF ServerTypeInv
  <2>2. CASE ~readMessage(w, p)
    <3>1. read' = read
      BY <2>2 DEF written, onError
    <3> QED BY <1>0, <3>1 DEF ServerTypeInv
  <2> QED BY <2>1, <2>2
<1>7. waits' \in [Peers -> SUBSET {"read", "write"}] /\ \A c \in Peers : c # p => waits'[c] = waits[c]
  BY <1>0 DEF readMessage, written, onError, ServerTypeInv
<1>8. /\ calls' \in [Peers -> Seq({"connection", "message", "disconnect"})]
      /\ \A c \in Peers : c # p => calls'[c] = calls[c]
  <2>1. PICK x \in {"message", "disconnect"} :
           calls' = calls \/ calls' = [calls EXCEPT ![p] = Append(@, x)]
    BY <1>5
  <2>2. Append(calls[p], x) \in Seq({"connection", "message", "disconnect"})
    BY <1>0, <2>1 DEF ServerTypeInv
  <2> QED BY <1>0, <2>1, <2>2 DEF ServerTypeInv
<1>9. ServerTypeInv'
  BY <1>0, <1>1, <1>6, <1>7, <1>8 DEF ServerTypeInv
<1>10. ASSUME NEW c \in Peers, c # p PROVE PlaceInv(c)'
  <2>1. Finished(c) => Finished(c)'
    <3>1. closed' = closed /\ sent'[c] = sent[c] /\ read'[c] = read[c] /\ calls'[c] = calls[c]
      BY <1>1, <1>6, <1>8, <1>10
    <3> QED BY <1>0, <3>1, FinishedStays
  <2>2. Known(c)' => Known(c)
    BY <1>1, <1>8, <1>10 DEF Known, Reached, Accepted, InQueue, ServedBy
  <2> QED BY <1>0, <1>1, <1>2, <1>7, <1>10, <2>1, <2>2, SamePlace
<1>11. "read" \notin waits'[p] => Finished(p)'
  <2>1. CASE readMessage(w, p)
    BY <2>1 DEF readMessage
  <2>2. CASE written(w, p)
    <3>1. "read" \notin waits[p] => Finished(p)
      BY <1>0, <1>3 DEF PlaceInv
    <3>2. UNCHANGED <<waits, read, calls>>
      BY <2>2 DEF written
    <3> QED BY <1>1, <3>1, <3>2 DEF Finished
  <2>3. ASSUME NEW d \in {"read", "write"}, onError(w, p, d), "read" \notin waits'[p] PROVE Finished(p)'
    <3>1. calls'[p] = Append(calls[p], "disconnect") /\ UNCHANGED <<sent, closed, read>> /\ p \in closed
      BY <1>0, <2>3 DEF onError, Called, ServerTypeInv, kernel
    <3>2. CASE d = "read"
      <4> PICK s : s = calls[p] /\ s \in Seq({"connection", "message", "disconnect"})
        BY <1>0 DEF ServerTypeInv
      <4>1. Len(s) \in Nat /\ Len(Append(s, "disconnect")) = Len(s) + 1
            /\ Append(s, "disconnect")[Len(s) + 1] = "disconnect"
        OBVIOUS
      <4>2. read[p] = sent[p]
        BY <2>3, <3>2 DEF onError
      <4>3. /\ Len(s) + 1 \in 1..Len(calls'[p]) /\ calls'[p][Len(s) + 1] = "disconnect"
            /\ \A i \in 1..Len(calls'[p]) : ~(i > Len(s) + 1)
        BY <3>1, <4>1
      <4> QED BY <3>1, <4>2, <4>3 DEF Finished
    <3>3. CASE d = "write"
      <4>1. "read" \notin waits[p]
        BY <1>0, <2>3, <3>3 DEF onError, ServerTypeInv
      <4>2. Finished(p)
        BY <1>0, <1>3, <4>1 DEF PlaceInv
      <4> QED BY <1>0, <3>1, <4>2, FinishedStays
    <3> QED BY <3>2, <3>3
  <2> QED BY <2>1, <2>2, <2>3
<1>12. PlaceInv(p)'
  BY <1>0, <1>1, <1>2, <1>3, <1>11 DEF PlaceInv
<1> QED BY <1>4, <1>9, <1>10, <1>12 DEF ServerIInv

\* A worker leaves a connection that waits for nothing, or a local event.
LEMMA LeaveIInv ==
  ASSUME ServerIInv, NEW w \in Workers, workerReturns(w) \/ onTimerExpiry(w)
  PROVE  ServerIInv'
<1>0. ServerTypeInv /\ OnceInv /\ \A c \in Peers : PlaceInv(c)
  BY DEF ServerIInv
<1>1. /\ worker' = [worker EXCEPT ![w] = Nobody]
      /\ UNCHANGED <<backlog, sent, closed, listener, accepted, queued, read, waits, calls>>
  BY DEF workerReturns, onTimerExpiry, kernel, listening
<1>2. worker'[w] = Nobody /\ \A v \in Workers : v # w => worker'[v] = worker[v]
  BY <1>0, <1>1 DEF ServerTypeInv
<1>3. ServerTypeInv'
  BY <1>0, <1>1 DEF ServerTypeInv
<1>4. OnceInv'
  BY <1>0, <1>1, <1>2, NamesDiffer DEF OnceInv, OnceIn, OnceServed
<1>5. ASSUME NEW c \in Peers PROVE PlaceInv(c)'
  <2>1. (Finished(c)' <=> Finished(c)) /\ (InHand(c)' <=> InHand(c))
    BY <1>1 DEF Finished, InHand
  <2>2. Served(c)' => Served(c)
    BY <1>2, NamesDiffer DEF Served
  <2>3. Known(c)' => Known(c)
    <3>1. Reached(c)' = Reached(c)
      BY <1>1 DEF Reached
    <3>2. Accepted(c) <=> accepted = c \/ IsIn(c, queued) \/ Served(c) \/ calls[c] # <<>>
      BY DEF Accepted, InQueue, ServedBy, IsIn, Served
    <3>3. Accepted(c)' <=> accepted' = c \/ IsIn(c, queued') \/ Served(c)' \/ calls'[c] # <<>>
      BY DEF Accepted, InQueue, ServedBy, IsIn, Served
    <3> QED BY <1>1, <2>2, <3>1, <3>2, <3>3 DEF Known
  <2>4. CASE worker[w] = c
    <3>1. "read" \notin waits[c]
      BY <2>4, NamesDiffer DEF workerReturns, onTimerExpiry, Pending
    <3>2. Finished(c)
      BY <1>0, <2>4, <3>1 DEF PlaceInv, Served
    <3> QED BY <1>0, <1>1, <2>1, <2>2, <3>2 DEF PlaceInv
  <2>5. CASE worker[w] # c
    <3>1. Served(c)' <=> Served(c)
      BY <1>2, <2>2, <2>5 DEF Served
    <3> QED BY <1>0, <1>1, <2>1, <2>3, <3>1, SamePlace
  <2> QED BY <2>4, <2>5
<1> QED BY <1>3, <1>4, <1>5 DEF ServerIInv

LEMMA ServerInitIInv == ServerInit => ServerIInv
<1> SUFFICES ASSUME ServerInit PROVE ServerIInv
  OBVIOUS
<1> USE NamesDiffer DEF ServerInit
<1>1. ServerTypeInv
  BY DEF ServerTypeInv
<1>2. OnceInv
  BY DEF OnceInv, OnceIn, OnceServed
<1>3. \A c \in Peers : PlaceInv(c)
  BY InEmpty DEF PlaceInv, InHand, Served, Known, Reached, Accepted, InQueue, ServedBy
<1> QED BY <1>1, <1>2, <1>3 DEF ServerIInv

LEMMA ServerNextIInv ==
  ASSUME ServerIInv, [ServerNext]_serverVars
  PROVE  ServerIInv'
<1>1. ASSUME NEW w \in Workers, WorkerStep(w) PROVE ServerIInv'
  BY <1>1, TakeIInv, CallbackIInv, LeaveIInv DEF WorkerStep
<1>2. CASE UNCHANGED serverVars
  <2>1. UNCHANGED <<backlog, sent, closed, listener, accepted, queued, worker, read, waits, calls>>
    BY <1>2 DEF serverVars, kernel, listening, serving
  <2> QED BY <2>1 DEF ServerIInv, ServerTypeInv, OnceInv, OnceIn, OnceServed, PlaceInv, InHand, Served,
                Known, Reached, Accepted, InQueue, ServedBy, Finished
<1>3. CASE ListenerStep \/ Start \/ acceptFails
  BY <1>3, ListenerIInv, AcceptIInv DEF ListenerStep
<1> QED BY <1>1, <1>2, <1>3, PeersIInv, LocalIInv DEF ServerNext

\* From accept() to the end of its worker's loop a connection is never dropped and never
\* held twice, and its worker leaves it only when all its bytes were handed over and its
\* end was reported, for any number of peers, workers, local events and bytes, whatever
\* replies fail (tcp-listener.cpp:57-81, tcp-server.cpp:57-166).
THEOREM ConnectionsServedToTheEnd ==
    ServerSpec => []ServedToTheEnd
<1>1. ServerIInv => ServedToTheEnd
  <2> SUFFICES ASSUME ServerIInv, NEW c \in Peers, Known(c)
               PROVE  \/ \E h \in Holders(c) : Holders(c) = {h}
                      \/ Holders(c) = {} /\ Finished(c)
    BY DEF ServedToTheEnd, Known
  <2>0. ServerTypeInv /\ OnceInv /\ PlaceInv(c)
    BY DEF ServerIInv
  <2> DEFINE B == {i \in 1..Len(backlog) : backlog[i] = c}
             L == {i \in {1} : listener = "handle" /\ accepted = c}
             Q == InQueue(c)
             W == ServedBy(c)
  <2>1. Holders(c) = {<<"backlog", i>> : i \in B} \cup {<<"listener", i>> : i \in L}
                     \cup {<<"queue", i>> : i \in Q} \cup {<<"worker", w>> : w \in W}
    BY DEF Holders
  <2>2. (IsIn(c, backlog) <=> B # {}) /\ (InHand(c) <=> L # {})
        /\ (IsIn(c, queued) <=> Q # {}) /\ (Served(c) <=> W # {})
    BY DEF IsIn, InHand, Served, InQueue, ServedBy
  <2>3. \A i, j \in B : i = j
    BY <2>0 DEF OnceInv, OnceIn
  <2>4. \A i, j \in L : i = j
    OBVIOUS
  <2>5. \A i, j \in Q : i = j
    BY <2>0 DEF OnceInv, OnceIn, InQueue
  <2>6. \A i, j \in W : i = j
    BY <2>0 DEF OnceInv, OnceServed, ServedBy
  <2> HIDE DEF B, L, Q, W
  <2>7. CASE B # {}
    <3>1. L = {} /\ Q = {} /\ W = {}
      BY <2>0, <2>2, <2>7 DEF PlaceInv
    <3>2. PICK i \in B : TRUE
      BY <2>7
    <3>3. B = {i}
      BY <2>3, <3>2
    <3>4. Holders(c) = {<<"backlog", i>>}
      BY <2>1, <3>1, <3>3
    <3> QED BY <3>4
  <2>8. CASE L # {}
    <3>1. B = {} /\ Q = {} /\ W = {}
      BY <2>0, <2>2, <2>8 DEF PlaceInv
    <3>2. PICK i \in L : TRUE
      BY <2>8
    <3>3. L = {i}
      BY <2>4, <3>2
    <3>4. Holders(c) = {<<"listener", i>>}
      BY <2>1, <3>1, <3>3
    <3> QED BY <3>4
  <2>9. CASE Q # {}
    <3>1. B = {} /\ L = {} /\ W = {}
      BY <2>0, <2>2, <2>9 DEF PlaceInv
    <3>2. PICK i \in Q : TRUE
      BY <2>9
    <3>3. Q = {i}
      BY <2>5, <3>2
    <3>4. Holders(c) = {<<"queue", i>>}
      BY <2>1, <3>1, <3>3
    <3> QED BY <3>4
  <2>10. CASE W # {}
    <3>1. B = {} /\ L = {} /\ Q = {}
      BY <2>0, <2>2, <2>10 DEF PlaceInv
    <3>2. PICK i \in W : TRUE
      BY <2>10
    <3>3. W = {i}
      BY <2>6, <3>2
    <3>4. Holders(c) = {<<"worker", i>>}
      BY <2>1, <3>1, <3>3
    <3> QED BY <3>4
  <2>11. CASE B = {} /\ L = {} /\ Q = {} /\ W = {}
    <3>1. Holders(c) = {}
      BY <2>1, <2>11
    <3>2. Finished(c)
      BY <2>0, <2>2, <2>11 DEF PlaceInv
    <3> QED BY <3>1, <3>2
  <2> QED BY <2>7, <2>8, <2>9, <2>10, <2>11
<1>2. ServerIInv /\ [ServerNext]_serverVars => ServerIInv'
  BY ServerNextIInv
<1> QED BY ServerInitIInv, <1>1, <1>2, PTL DEF ServerSpec
=============================================================================
