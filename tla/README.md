# A verification project for ch-cpp-utils

ch-cpp-utils is a C++ library of the parts from which its author builds servers: a
counting semaphore, threads and thread pools, a directory tree, a file system watcher,
HTTP and TCP servers and clients on libevent, timers, a logger. This directory holds TLA+
modules that model the parts with the hardest behaviour, the TLC configurations that check
them on small instances, and theorems that TLAPS proves for every value of the constants.
Paths below are relative to `src/src/` of the repository unless they say otherwise;
`PROJECT.json` maps every definition to the lines it models.

## 1. Inventory

| Component | State | Operations | Uses | What is hard |
|---|---|---|---|---|
| Semaphore (`semaphore.cpp`) | counter, mutex, condition variable | notify, wait, try_wait | - | lost and spurious wake-ups; unsigned counter at zero |
| Thread (`thread.cpp`) | std::thread handle, event base, semaphore used twice (started, exited) | start, run, runJob, destructor | Semaphore | the destructor against the thread's last notify; detach against start; when the base is freed |
| ThreadPool (`thread-pool.cpp`) | job queue, mutex, condition, threads | constructor, addJob, threadGetNextJob, destructor | Thread | stranded jobs; exit jobs in the same queue as jobs; jobs that add jobs while the destructor runs |
| DirTree (`dirtree.cpp`) | heap of nodes with children maps and data pointers | insert, search (with a wildcard), hasChildren, drop with a callback | - | keys of many forms; deletion of a subtree; paths rebuilt for the callback |
| Router (`http/server/http-router.cpp`) | one DirTree of routes per HTTP method | addRoute, getRoute, destructor | DirTree | wildcards and prefixes that hide each other; ownership of routes |
| FsWatch (`fs-watch.cpp`) with Fts (`fts.cpp`) | map fd to directory, set of directories, DirTree of watches, epoll set, one inotify instance per directory | init, start, the epoll loop and its handlers, callbacks, destructor | ThreadPool, DirTree | the file system changes under the walk; descriptors are closed and used again; batches of events |
| HttpServer, HttpThread (`http/server/`) | threads with an evhttp each on one shared listening socket, a job queue of its own, handlers | constructor, route, onRequest, dispatch of requests, destructor | Thread, Router | requests before the handlers are set; waking the loops in the destructor; the static socket |
| HttpClient, HttpConnection, HttpRequest (`http/client/`) | global table of clients, pool of connections, free list | NewInstance, open, send, release, close callbacks | ThreadPool | connection ids that collide; a callback that needs the lock its caller holds; failed requests |
| Timer (`timer.cpp`) | libevent timers, a pool of one thread | create, restart, destroy | ThreadPool | timers added from another thread; jobs that pile up; a loop that ends between two timers |
| ProcStat (`proc-stat.cpp`) | a sample of /proc, a mutex, a timer | constructor, the timer's callback, getRSS, destructor | Timer | a sample read while it is taken; a timer that must be restarted each time; deletion of an armed timer |
| TcpListener, TcpServer (`tcp-*.cpp`) | listening socket, worker pool of 8, client contexts | start, accept, read, error, local events | ThreadPool | callbacks of one client from two threads, out of order; clients that occupy threads |
| Logger (`ch-cpp-utils/logger.hpp`) | queue of lines, a line in progress per thread, a printing thread | operator<<, destructor | Semaphore | unlocked test of the queue; the drain at shut-down |
| Utilities (`utils.cpp`), Base64 (`base64.cpp`) | the file system or none | mkpath; base64_encode, base64_decode | - | mkpath against itself and others; padding and the ends of groups |
| Events, Config, LinkedHashMap, TcpClient | tables or none | - | - | nothing concurrent |

How they interact. A ThreadPool owns Threads; each Thread calls back into the pool for its
next job, and its destructor waits on the thread's own Semaphore. HttpServer has a copy of
the pool's queue and owns HttpThreads instead. The Router keeps one DirTree per method and
is asked by every HttpThread, with the path of a request whose parameters RequestEvent
keeps in a map. A ProcStat owns a Timer and restarts its one timer from the callback. FsWatch runs its loop as one job in a pool of one thread and
keeps its descriptors in a DirTree; its client's thread and that job share all members, the
client's before `start` and after the pool is deleted. TcpListener, TcpServer, Timer and
HttpClient all put jobs into pools that block in libevent's loop.

What makes each component correct is stated as the properties of section 4; the list of
everything that could go wrong, with its line, is `hazards` in `PROJECT.json`.

## 2. Modules

| Module | Models | Lines of the code |
|---|---|---|
| `CountingSemaphore` | what a semaphore promises: an atomic counter | abstract |
| `Semaphore` | `semaphore.cpp` statement by statement | `semaphore.cpp` 48-68 |
| `SemaphoreProofs` | theorems about `Semaphore` | |
| `JobService` | what a pool promises: jobs taken in order, each run once, closed when all are done | abstract |
| `ThreadPool` | `thread.cpp`, `thread-pool.cpp` from constructor to destructor | `thread.cpp` 51-190, `thread-pool.cpp` 53-141 |
| `ThreadPoolProofs` | theorems about `ThreadPool` | |
| `DirTreeOps` | the operations of `dirtree.cpp` as operators on a heap of nodes | `dirtree.cpp` 67-351 |
| `PathMap` | what a tree promises: a prefix-closed map from paths to data | abstract |
| `DirTree` | a tree in use, with the reference definitions of its operations | |
| `Router` | `http-router.cpp` on `DirTreeOps` | 52-146 |
| `DirTreeProofs` | theorems about `DirTreeOps`, `DirTree` and `Router` | |
| `FsWatch` | `fs-watch.cpp` and `Fts::walk` on `DirTreeOps`, with the file system and the kernel | `fs-watch.cpp` 47-418, `fts.cpp` 95-150 |
| `FsWatchProofs` | theorems about `FsWatch` | |
| `Logger` | `logger.hpp`: writers, the printing thread, constructor and destructor | `ch-cpp-utils/logger.hpp` 93-219 |
| `LoggerProofs` | theorems about `Logger` | |
| `TcpServer` | `tcp-listener.cpp` and `tcp-server.cpp` with their peers | 49-148, 48-227 |
| `HttpServer` | `http-server.cpp`, `http-thread.cpp`: the event loops on one socket, start and stop | 52-203, 118-256 |
| `QueryMap` | the parameters of a request, `http-thread.cpp` | 77-116 |
| `Timer` | `timer.cpp` | 87-155 |
| `ProcStat` | `proc-stat.cpp` on `Timer` | 63-165 |
| `ProcStatProofs` | theorems about `Timer` and `ProcStat` | |
| `HttpClient` | `http-client.cpp`, `http-connection.cpp`, `http-request.cpp` | 53-158, 66-109, 102-268 |
| `NetworkProofs` | theorems about `TcpServer` and `HttpClient` | |
| `MkPath` | `mkpath`, `do_mkdir` of `utils.cpp` with other callers and processes | 74-133 |
| `Base64` | `base64.cpp` as operators, with a reference by bits | 42-123 |
| `Utilities` | `MkPath`, `Base64` and `QueryMap` under one specification | |
| `UtilitiesProofs` | theorems about `MkPath`, `Base64` and `QueryMap` | |
| `MC*` | constants for TLC; `MCTrees` takes `DirTree` and `Router` together | |

`Router` and `FsWatch` are built on `DirTreeOps`, whose meaning `DirTree` checks. The modules
that use a thread pool (`FsWatch`, `Timer`, `TcpServer`, `HttpClient`) take it as what
`JobService` says, which `ThreadPool` implements; `ThreadPool` and `Logger` take a semaphore
as what `CountingSemaphore` says, which `Semaphore` implements. `ProcStat` is composed with `Timer`: its steps are calls of
`Timer`'s actions. Where the theorems of two modules stand together, the names of
one say whose they are: `TreeSpec`, `RouterSpec`, `ServerSpec`.

### Semaphore
State: the counter, who holds the mutex, who is blocked on the condition variable and, per
thread, the statement it is at. Each statement of notify, wait and try_wait is an action;
blocking gives up the mutex and sleeps in one step, as the standard says, and a sleeper may
wake spuriously at any time. `CountingSemaphore` has two steps, give and take; the
refinement mapping is the counter with the threads between their linearisation point and
their return.

### ThreadPool
State: the job queue, the owner's place in the constructor or destructor (`opc`, `idx`),
and per thread its place in `run`, the job it holds, its handle, its permits and its event
base. A semaphore operation is one step here, which `Semaphore` justifies, except that the
end of notify is a step of its own: the notifier still uses the semaphore while the waiter
may already have gone on to free it. The code calls notify_one with the mutex held, which
is what makes that safe, and the model has that order. The critical sections of addJob and
threadGetNextJob are single actions because they are run under one mutex. Clients may add
jobs until they call the destructor (adding during destruction is a client's error); running
jobs may add jobs at any time, also behind the exit jobs. `late` is a ghost: the jobs added
behind the last exit job.

### DirTree and Router
A key is the string split at its slashes, so that empty names (leading, trailing, double
slashes) are visible and a name is one value. The heap is a function from addresses to
nodes; insert allocates, drop frees, and a pointer to a freed address is a value that is
not in the domain. A new node gets the lowest free address, of which there is always one. The
operations are deterministic, sequential code and are modelled as operators, the loops over
the names of a key as functions of the turn the loop is at (`InsertTurns`, `Chain`); the walk
over a subtree that is dropped goes level by level. `hasChildren` dereferences a null pointer if the path is missing, and
the operator says "crash".

### FsWatch
The file system is a set of directories with inodes and a set of files; it changes in steps
of its own, `MaxOps` times. The kernel queues an event at the inotify instances that watch
the directory; instances have the lowest free descriptor. The watcher's steps are: the test
of the flag, epoll_wait (what is ready, in any order, at most `MAX_EVENTS`), the lookup in the map,
a read of the whole queue, one event, and within the handler of a new directory the watch
and then every fts_read of the walk. Strings are keys as in DirTreeOps; the two ways in
which the code builds paths (getFullPath and fts) are kept apart. exit() and the null
dereferences of dropCbk and hasChildren are the final places "exit" and "crash". Three
ghosts record that a directory was removed, the paths misreported, and the files seen.
Directories are not renamed, queues do not overflow, and epoll_wait does not fail.

### Logger
Each writer is at a statement of one of the two operators `<<`; taking the mutex and the
work under it are two steps. The printer's unlocked looks at `shutdown` and at the queue are
steps of their own, so that a push and its notification can fall between the look and the
wait; the wait ends by a notification or by its second. A stream is the sequence of its
pieces, so that a line that mixes two threads, or loses a piece, is visible. Writers may
go on while the destructor runs: what they log once `shutdown` is set is ignored, as in the
code.

### TcpServer
One listening thread, whose job arms a one-shot accept event and ends with it, and a pool of
workers. A connection is a job that keeps its worker until its bufferevent waits for nothing;
a local event is a job that keeps its worker until its timer expires. Bytes are counted. A
bufferevent has an event in the base while it may read, or may write and has something to
(`Pending`). A reply that cannot be written ends its writing and not its reading: what is in
the output then stays there, and no event waits for it.
accept may fail, in which case the callback queues the listening job again. Both
destructors are empty and nothing is ever released, so the model has no destruction.

### HttpServer
Every thread has an event base and an evhttp on one shared listening socket. The
constructor starts each thread and its loop before any handler is set, and sets a handler
and binds its object in two steps; clients may connect as soon as the socket listens.
External, as the code uses it: libevent without `evthread_use_pthreads`, so
`event_base_loopexit` from another thread wakes nobody; the destructor's `connect()` to its
own port does, for whichever thread accepts it. Closing the socket in one thread's deinit
closes it for all. What the routes do with a request is `Router`'s business and is here the
one outcome "replied". `onRequest`, which replaces the handlers of a live server, goes
through the same two steps as the constructor.

`QueryMap` is buildQueryMap as an operator on characters, of which only "&" and "=" are told
from the others; its reference says which fields of the text count and which value each has.

### Timer and ProcStat
The TimerEvents of one Timer, used by the main thread and by the callbacks; time is left
out, a timer is due at some time after it was added. The base has no locks, and the main
thread calls libevent on it while the loop may run. The model lets it do so only while the
loop sleeps or does not run (`MayTouchBase`), as in `test/test-timer.cpp`, which leaves
seconds between its calls; nothing in the code ensures it, and the hazard is listed. A
callback may use every TimerEvent, its own and one that is due in the same turn of the loop. A run
of `ProcStat` is either that, or a program with a ProcStat: its constructor's create, the
callback statement by statement (lock and memset, parse and unlock, restart, return), getRSS
with its 32 bits, and the destructor, which deletes the TimerEvent and then the Timer. The
dispatch jobs that the restarts leave pile up without end; all are alike, and the queue does not
grow beyond `MaxJobs` of them.

### HttpClient
Requests of several threads to one host and port. `getConnectionId()` gives all connections
of a client the same id, so `mConnections` holds at most the first and `mFree` at most one id;
the model has exactly that. The evhttp_connection is external: it queues requests, connects,
calls back once per request, and calls the close callback when a connection that was up goes
down. `connect()` may run the event loop in the caller, under the lock. Calls of libevent are
atomic. HttpRequest::send is two steps, as it holds no lock: `getConnection` reads the
evhttp_connection, and `makeRequest` calls evhttp_make_request on what was read, which the
loop may have freed in between. `peerCloses`, chosen at the start, says whether the server
closes connections or is unreachable. The ends of the process that the model knows are a
connection that is used though it is null ("null") or freed ("freed") and a mutex that its
holder locks again ("self"). The call of
event_base_loopbreak behind every response gets a base that nothing sets, which is NULL, and
does nothing.

### MkPath and Base64
Each call of mkpath is a sequence of do_mkdir, each a stat and a mkdir; others may make files
and remove what is empty at any time between them, and two ghosts say whether they did. A
path is the sequence of names between its slashes. The empty path names nothing, although it
has no name that could be missing (`IsEmpty`), and a file is not found under a path that ends
in a slash, though mkdir says that it exists (`Slashed`). Base64 is arithmetic on bytes and places
in the alphabet; the array places that the code leaves unwritten are a parameter. Its loops,
and that of `QueryMap`, are functions from the number of turns to what the turns have made.
`Utilities` gives them inputs: in its states a text is to be encoded, or a query to be parsed,
or calls of mkpath run.

## 3. What the runs check

| Run | Instance | Shows |
|---|---|---|
| `semaphore` | 3 threads, at most 3 notifies | no lost wake-up, permits get used, refinement of CountingSemaphore |
| `thread_pool` | 3 threads with event bases, 3 jobs | the safety properties of section 4, refinement of JobService with its fairness (so that every job taken is run), the destructor returns |
| `trees` | keys with "", ".", dot names and "*" up to three names, 2 data values; 6 routes of 2 methods with wildcards and prefixes | the heap is a tree, search and drop agree with their meaning, refinement of PathMap; routes are found by their meaning and deleted once |
| `utilities` | 3 calls of mkpath with common directories and 1 with the empty path; texts of up to 4 bytes; queries of up to 6 characters | mkpath makes its path or fails for a reason; base64 and queries agree with their references |
| `fs_watch` | root "./data", directories a, a/b, the hidden .h and .h/b, any of them there from the start, a file in a, 5 descriptors, 2 in a batch, 3 changes of the file system, the empty-directory callback set or not | until a removal: every directory that is not hidden watched once, true paths, no end of the process but that of finding 9; throughout: the books agree, the destructor returns |
| `fs_watch_track` | one directory and a file | finding 2 of section 6 |
| `logger` | 2 writers, 2 pieces each, 2 lines | lines whole, in order, printed, all of them at the end; the destructor returns |
| `tcp_server` | 2 peers, 1 local event, 2 workers, 2 bytes in all | every connection in one place and served to its end; everyone accepted and, if others leave, served |
| `http_server` | 1 or 2 threads, 2 clients, handlers replaced or the server destroyed at any time | requests answered by bound handlers; one thread stops |
| `http_server_delete` | 2 threads, 1 client | finding 1 of section 6 |
| `timer` | 2 TimerEvents, 2 restarts; or a ProcStat, restarted for ever, of whose jobs 7 are told apart, with page counts below and above what fits the word | timers fire, whichever timers callbacks restart and destroy, nothing deleted is used, ~Timer returns; samples go on and are whole |
| `http_client` | 3 requests of 2 threads, connections kept or not | requests are not lost, the loop is run while it is needed; if connections are kept, no null or freed one is used and all requests complete |

Why the bounds are enough. Three threads are a waiter, a notifier and a thief of the
permit; a pool of three has a sleeper, a runner and a leaver at once. With two directories,
one inside the other, every order of mkdir, watch and walk occurs, and as they and the file
may be there from the start, three changes make both and fill one, or empty one, remove it and
make it again; five descriptors are one for each directory, of which more can be ready than the
two of a batch. Two writers suffice to mix lines and two lines to overtake; two peers and an
event on two workers leave one waiting; of two bytes of one peer, the reply to the first may
fail before the second is read. Two HTTP threads are the first number at which one
can take what was meant for another, and three requests are one that is answered, one that
finds its connection busy and one that finds it released; two threads are one in open() while
the other sends. Four bytes are a group and one over, six characters of a query are two
parameters of one name with a value and an empty one between. Seven dispatch jobs are more
than two restarts and two creates can leave, so that `MaxJobs` bounds only the ProcStat, for
which it matters that a job is there and not how many. Every action of every module fires
in a passing run. Deadlock is not checked where the system may stop: a pool, router, watcher,
server or timer that is destroyed or has no one to serve.

Fairness. Semaphore and pool: a thread that can take a step eventually does (a preemptive
scheduler; the mutexes are held for bounded time and their acquisition is taken to be fair
enough that no thread starves), routines return, and no client has to call anything.
Spurious wake-ups are not fair. FsWatch: the routine, init and the destructor keep running;
the file system owes nothing, but its changes are bounded, because `handleActivity` reads
until a directory's queue is empty and would stay there as long as it is filled. Logger: the
timed wait times out, and the printer gets a mutex that is free again and again. TcpServer:
accept does not fail for ever, and `EveryoneServed` assumes in its own statement that peers
leave. HttpServer: threads and owner run (weak fairness only). Timer: every timer comes due,
and the main thread, once in a call, finds the loop asleep again and again; the callback
of ProcStat gets its mutex, which getRSS holds for a moment. HttpClient: a
connection is made or refused, and a request is answered or its connection ends; the peer
need not close an idle one.

## 4. Properties

- Semaphore: `NoLostWakeup` (while a thread is blocked, every permit has an awake waiter or
  a notify_one on its way), `PermitsAreUsed`, `ImplementsCountingSemaphore`.
- ThreadPool: `NoUseAfterDelete` and `HandleSafety` (the handshake between
  ~Thread, start and the end of run), `JobInOnePlace` (no job runs twice), `NoStrandedJob`,
  `DestroyedMeansDone` (jobs added before the last exit job are never lost; later ones are
  leaked), `DestructorReturns`, `ImplementsJobService`.
- DirTree: `TreeShape`, `KeyMeaning` (search and drop do what the names of a key say,
  whatever its form), `ImplementsPathMap`.
- Router: `RoutesByMeaning`, `DeletedOnce`.
- FsWatch: `AllWatched` (whenever the watcher has caught up), `PathsTrue`, `StaysUp` (which
  names the one crash there is without a removal, finding 9),
  `BooksAgree` (epoll's set, open instances, map, set and tree), `DestructorReturns`,
  `ChildrenTracked` (violated).
- Logger: `PrintedInOrder`, `LinesAreWhole`, `NoFault`, `DestroyedMeansPrinted`,
  `LinesArePrinted`, `DestructorReturns`.
- TcpServer: `ServedToTheEnd` (a connection is in one place from the backlog to its worker,
  and its worker leaves it only when every byte was handed over and the end reported behind
  the last), `EveryoneServed` (accepted in any case, and given a worker if others leave).
- HttpServer: `Answered`, `OneThreadStops`, `DestructorReturns` (violated
  with two threads).
- Timer and ProcStat: `NoFault`, `TimersFire`, `DestructorReturns`, `Sampling` (samples do not
  cease, and getRSS never sees one half done).
- HttpClient: `SentAreQueued` (no HttpConnection refers to a freed evhttp_connection, a request
  that was handed over is never lost, and what send() uses is null or freed only if the peer
  closes connections, `OnlyClosesHurt`), `LoopCovered`, `RequestsComplete`.
- Utilities: `MkPathMeaning`, `Base64Meaning`; of a request's parameters, `QueryMeaning`.

Every property of a passing run has a mutant: an operator marked "Mutant" in the module
that changes one mapped definition the way a slip in the code would, and with which TLC
finds the property violated.

## 5. What is proved

For any set of threads (Semaphore), any number of threads and any finite set of jobs
(ThreadPool), any keys and sequences of calls (DirTree), any routes and requests (Router), any
set of writers and any number of lines (Logger), any sets of peers, local events and workers
(TcpServer), any calls and paths (MkPath), any texts and queries (Base64, QueryMap), any number of timers and
restarts (Timer, ProcStat), any sets of requests and threads (HttpClient), any finite set of
directories and any changes to them (FsWatch):

- `SemaphoreProofs`: `TypeCorrect`, `MutexSafe`, `WakeupsNotLost`, `SemaphoreRefines`. The
  first three follow from one inductive invariant: the mutex's owner is exactly the thread
  at a statement inside a critical section, blocked threads are where wait blocks, and the
  count of permits is covered by awake waiters and pending notifies. NoLostWakeup counts,
  and needs finite sets: the number of threads is assumed finite. The refinement maps each
  statement to a step of CountingSemaphore or to none.
- `ThreadPoolProofs`: `TypeCorrect`, `DeleteIsSafe`, `HandlesAreSafe`, `BasesAreLive` (a job
  runs on a live event base), `JobsRunOnce`, `JobsNotStranded`, `ExitsMatchThreads` (each
  thread ends by one exit job), `NothingLost`. The inductive invariant `IInv` has five parts.
  `LifeInv` gives the permits, the handle and the event base of every thread as a function of
  where the owner and the thread are: the start and the exit share one semaphore, and only
  this table shows that ~Thread cannot take the permit of the start. `HeldInv` says what a
  thread may hold, `JobInOnePlace` is inductive with `Fresh`, `ExitInv` counts the exit jobs
  out and in, and `LateInv` orders the queue: an exit job behind everything that is not late.
  `ExitsMatchThreads` needs the pigeonhole principle once: as many exit jobs as threads, no
  two threads with the same one. `JobsNotStranded` is an induction of its own over the number
  of threads on their way to the queue. `PoolRefinesJobService` is the refinement without its
  fairness. JobService keeps the jobs that wait as a set with the order in which they came,
  and the mapping reads both off the queue (`Pending`, `Ahead`): a push puts a job behind all
  others, and a pop takes one that none is ahead of. An exit job maps to no step; that the
  service may close rests on `NothingLost`, and that a job finds room to run on
  `JobsRunOnce`.
- `LoggerProofs`: `LoggerTypeCorrect`, `LoggerNoFault`, `LinesInOrder`, `NothingUnprinted`,
  `EveryLineIsWhole`.
  The inductive invariant `Safe` is the types, `Exclusion` (who is inside a critical section
  of `mQMutex`) and `Control`, which ties the places of the constructor, the destructor and
  the printer together: the permits of the semaphore are the notifies minus the waits, the
  handle's state follows from the two places, and the printer is about to pop only if the
  queue is not empty, which its unlocked look does not establish by itself but the fact that
  nobody else pops before it is done does. `PrintedInOrder` is inductive relative to it, and
  so is `LinesAreWhole` for all the streams there are, those in progress too (`Streams`): a
  piece goes to the end of its own writer's stream, and an entry of the queue is a stream as
  it was when its writer ended the line.
- `DirTreeProofs`: `TreeShaped`, `KeysMean`, `TreeIsAPathMap` (DirTree),
  `RequestsFindTheirRoute`, `RoutesDeletedOnce` (Router). Everything rests on `IsTree(t, at)`:
  `at` gives every node the path of names from the root to it, no two nodes have the same path,
  a node is the child of its parent under the last name of its path (`PointersLead`), and every
  node but the root is the child of one (`NodesAreReached`). Paths exclude what pointers that
  match each other do not: a cycle beside the tree. Each operation is proved once by what it
  does to the paths. insert adds the prefixes of its path that are missing (`PathAdded`), drop
  takes away what is at and below its path (`PathRemoved`, and `DropCall` for the data it
  passes to the callback), and search goes down the longest prefix that is there (`Chain`). A
  loop is a function over the turns, and what holds at every turn is proved from the
  least turn at which it would not (`LeastNumber`), so that no induction theorem with an
  operator for a parameter is needed; the walk that frees a subtree goes by depth in the same
  way. For the refinement, the content of a path in `PathMap` is the data of the node that is
  at that path. `RoutesByMeaning` needs `Holds`: the nodes of a method's tree are the prefixes
  of its routes' paths, and the data of a node is the latest route added for its path.
  Hypotheses: keys and the paths of routes and requests are non-empty sequences of strings,
  as any string split at its slashes is (`StringKeys`, `StringRoutes`), and NULL is no route.
- `NetworkProofs`: `ConnectionsServedToTheEnd` for TcpServer. `ServedToTheEnd` speaks of a
  connection's last moment, and the invariant has what leads there: a connection is in at most
  one of backlog, listener, queue and workers (`PlaceInv`) and there once (`OnceInv`), and a
  worker whose connection no longer waits for input has finished it. The last is what a write
  error must not disturb, which calls OnDisconnect as the end of the input does.
  For HttpClient: `NoRequestIsLost`, `KeptOpenNoFault`, `LoopIsCovered`. `RefersInv` is the heart: an
  HttpConnection refers only to an evhttp_connection that is there and whose close callback
  will come to it, so that none refers to one that is freed, also between the close callback
  and the request's (`ClosingInv`). `OpeningInv` ties open() to the mutex and to connections
  that do not exist yet, `QueueInv` keeps a request in at most one queue and `SentInv` in one
  at least. `LoopCovered` is inductive with them. `KeptOpenNoFault` (`OnlyClosesHurt`) adds
  `KeptInv` for a server that keeps its connections: nothing is ever freed or reset, so what
  send() read is still there when it is used, and a connection that is up keeps the pool's
  thread in the loop, so that connect() finds it running and never runs it under its lock.
- `UtilitiesProofs`: `MkPathIsCorrect`, `QueriesAreParsed`, `Base64IsCorrect`. The invariant says that the directories before the one a
  call is at are there (`Progress`): a directory that holds something is a directory and
  cannot be removed, so only the last one can be a file that EEXIST hid (`StatSaw`).
  The other two are about loops, and take them as the loops of the trees are taken, from the
  least turn at which something would not hold. `Turned` says of buildQueryMap's loop that it
  stands behind an "&" or at an end and met no empty field (`CameTo`), that the map is that of
  the fields before (`MapOf`), and that a turn takes a character or is the last. That the
  first of two parameters counts needs that a field has only one name (`OneName`). `Encoded`
  and `Decoded` say that the full groups are written and what is left over is in the array.
  From them, the place of every digit is known (`EncodeMeans`); that the digits hold the bits
  and give back the bytes is arithmetic on one group (`BitsOfBytes`, `BytesBack`), and that
  the unwritten array places do not matter is seen in which digits a byte is made of. The only
  hypotheses are that texts are bytes and queries are characters (`InputsAssumption`).
- `ProcStatProofs`: `TimerEventsOutliveTheirUse`, `SamplesAreWhole`, `NoTimerIsForgotten`.
  `NoFault` is not inductive: `DeletedIsOut` says that nothing leads back to a TimerEvent that
  destroy deleted, for which whoever is about to add an event must be the only one and the
  event must be out (`AddingAlone`), and a ProcStat must have no other TimerEvent (`StatAlone`). `SamplesAreWhole` is the first part
  of `Sampling`: a free mutex means a whole sample. `NoTimerIsForgotten` is the safety behind
  `TimersFire`: a timer in the base has a loop, a job at the front of the queue that will run
  one, or a creator about to add that job (`TimersAreServed`). It is inductive with the facts
  that a callback runs only inside the loop and that the exit job is the main thread's last
  (`ServiceInv`), because a dispatch job behind an exit job would serve nobody.
- `FsWatchProofs`: `BeliefsAreTrue`, `EpollIsOpen`, `ReportsAreTrue`, `NoDirectoryIsForgotten`,
  `BooksAlwaysAgree`, `WatcherStaysUp`. The invariant of the first four, `Inv`, has a part for
  all times (`Base`: types, the descriptor in hand is in the map, `EpollOpen`) and one for as long as no directory was removed: every instance watches a
  directory that is there under its own string, no directory has two, and map, set and epoll
  agree (`Watching`); what is queued, what is being handled and what the walk still holds is
  about things that are there (`Handling`); nothing was misreported (`Reported`).
  `NoDirectoryIsForgotten` adds `NoneForgotten`: a directory that is not watched yet has a
  parent that is not watched either, or the event of its creation is queued or in the buffer,
  or the walk has it or has yet to list its parent. This is the argument that addWatch must
  come before the walk: the directory made between the two is seen by one of them or by both.
  That at the end all are watched is then an induction over the depth of paths. The tree is
  opaque in these four.
  `BooksAlwaysAgree` is about the tree, at all times, removals and tracked children included.
  Its invariant `BooksInv` has the strings in set, map, queue and walk (`KeysOK`: all are those
  of directories) and the tree (`TreeOK`): each string in the set has its node, and, unless
  onEmptyDir was used, a node with a TreeNode is one of those and the open descriptors are
  those of the TreeNodes, one each. `DirTreeProofs` says what each insert and drop does to it.
  `WatcherStaysUp` adds to `Inv`, until a directory is removed, that an instance is left for
  the next directory, by the pigeonhole principle, and that before the destructor nothing
  crashes (`Alive`); and, as long as no directory lies below a hidden one (`NoneBelow`), that
  every node at or below the root's has a TreeNode (`TreeLoaded`), so that the destructor's drop
  finds no null, and that the walk lists a directory only after it was watched or if it is
  hidden (`WalkAhead`), so that insert makes one node and no bare parents.
  Hypotheses: no root ends in a slash (`PlainRoots`; with one that does, getFullPath leaves out the slash after
  the directories below it, finding 10). Of hidden directories `AllWatched` promises nothing,
  as onFile skips them. For the two about the tree, roots begin with a dot and have no empty
  name (`DottedRoots`; otherwise the path that dropCbk is given is not the one in the set,
  finding 4). For `BooksAlwaysAgree`, if onEmptyDir may be used, no name is both a directory's
  and a file's (`NamesApart`): only then are files dropped from the tree, and a walk can watch a
  directory before the event that a file of the same name was deleted is handled, which then
  takes the directory's node and leaves its string in the set. For `WatcherStaysUp`, there are inotify
  instances for the root and every directory there can be (`EnoughInstances`), however many
  that are and however few a batch holds. The constants of the runs satisfy all of them.

Assumptions on the constants, evaluated by TLC on every run: there is at least one thread,
jobs are not exit jobs, sets of threads are finite, the logger's actors differ, None and Pool
are no request, user or timer, peers are not local events, a ProcStat has a timer, there is
at least one inotify instance and a batch holds at least one (`SomeInstances`), the page
counts are not zero, names of files are strings, "." is a dot name and "" is none, NULL is no
address and no TreeNode, texts are sequences of bytes and queries of characters, and the
paths of mkpath lead from the top down one name at a time, the last twice if a slash ends them
(`TopDown`), which TLC evaluates on the keys of its run.

Only model-checked: liveness (everything stated with `~>`, and the fairness of JobService)
because the prover has no fairness or ENABLED, and with it HttpServer, whose properties are
about progress. Every invariant of a passing run is stated by a theorem.

## 6. Findings

Each of the first two has a run that shows it.

1. `http_server_delete`: with two threads or more ~HttpServer can wait for ever. The
   connection that is to wake a loop goes to the socket that all loops share; another
   thread accepts it, or the first to leave closes the socket of the others.
2. `fs_watch_track`: the comment "track all children" (`fs-watch.cpp` 242) stands above
   `addToTree("", -1, -1)`; no child is tracked. With `root` "." the same call clears the
   root's own data, and the destructor dereferences it.

The conditions in the properties of passing runs mark seven other places where the model does
not do what one would expect, and a hypothesis of the theorems an eighth; without the
condition, or with constants that break the hypothesis, TLC shows a trace.

3. `StaysUp` without `~removed`: a removed directory can end the process. dropCbk closes its
   descriptor but leaves it in `map` (line 344 finds it, line 292 exits), when epoll_wait
   returned the directory behind its parent in one batch.
4. `PathsTrue` without `~removed`: a descriptor number that is used again keeps the old entry
   of `map` (`insert` at 135), and files are reported under the directory that was removed.
   Erasing the entry in dropCbk repairs both 3 and 4. `AllWatched` without `~removed`, with a
   root that does not begin with a dot: the path passed to dropCbk is not the one in `set`,
   so a directory that is made again is "Already watching dir" and is never watched.
5. The descriptors of `BooksAgree` without `~onEmptyDir`: a directory that vanishes between
   its watch and its walk is returned as FTS_NS (10), whose bit FTS_F (8) is set, and is
   inserted as a file over its own TreeNode, which leaks the descriptor.
6. `OnlyClosesHurt` without `~peerCloses`: when the server closes a connection between
   open() and send(), the request is made on a null connection (`http-request.cpp` 252); when
   it does so between getConnection() and evhttp_make_request in that line, on one that
   libevent has freed; and when connections are refused, open() can run the event loop under its own lock, which
   the callback then waits for (`http-connection.cpp` 69, `http-client.cpp` 139).
7. `NoFault` without its exception: ~ProcStat deletes the TimerEvent while its event is in the
   base (`proc-stat.cpp` 71), and the timer's thread looks into it or restarts it. As the
   callback restarts the timer for ever, the loop need not end, and ~ProcStat may wait in
   ~Timer for ever.
8. `EnsuresPath` without `filed`: mkpath reports success for a path at which a file appeared
   between stat and mkdir, because EEXIST is not looked into (`utils.cpp` 82).
9. `StaysUp` without its exception: a hidden directory with a directory in it, say .h/b, when
   the watcher is initialised. Fts does not call back for .h but descends into it
   (`fts.cpp` 130), the watch of .h/b makes a node for .h that has no TreeNode, and when the
   destructor drops the root, dropCbk dereferences its null pointer (`fs-watch.cpp` 150).
10. `PathsTrue` with a root that ends in a slash: getFullPath looks at the end of the root, not
   of the directory (`fs-watch.cpp` 202), so that with "./data/" a file f in a is
   reported as "./data/af", and a directory made in a is not found to be watched.

## 7. Plan

Done: Semaphore, ThreadPool, DirTree, Router, FsWatch, Logger, TcpServer, HttpServer, Timer,
HttpClient, in this order, because the later ones stand on the earlier; then ProcStat on
Timer, several threads in HttpClient, onRequest in HttpServer, mkpath, Base64 and the query
map; the proofs about TcpServer, ProcStat, HttpClient, MkPath and FsWatch, and of the
refinement of JobService; then the theory of the trees, and with it the refinement of PathMap,
the router's meaning, the books of FsWatch and that it stays up; then Base64 and the query map
for inputs of any length.

Next, for the models:

1. `HttpClient`: the table of clients, the destructors of clients and of requests.
2. `FsWatch`: renames and IN_Q_OVERFLOW; files with and without the filter's extension.
3. `HttpServer`: two servers in one process, which share the static socket.

Next, for the proofs: that in HttpServer only bound handlers are called for the clients of
`Answered`.

## 8. Not modelled

- The TCP client (a stub), configuration and the vendored JSON parser (pure input),
  LinkedHashMap (its list is never filled) and Events (a synchronous table that nothing in
  the library uses), and the text that print functions and logs write.
- The rest of `utils.cpp`: single calls of the operating system and formatting.
- HttpClientImpl::NewInstance and DeleteInstances, ~HttpClientImpl and ~HttpRequest. A request
  may not be deleted before evHttpReqDone has returned: it reads its context behind onLoad
  (`http-request.cpp` 199), and `test/test-http-client.cpp` 81 deletes it in onLoad.
- route() on a server that runs: the trees have no lock, and what a search finds in a
  std::unordered_map that another thread changes is undefined. A second HttpServer in the
  process, which would read the static socket of the first.
- Renames, and queues that overflow, in the file system that FsWatch watches.
- A port that cannot be bound: evhttp_bind_socket_with_handle then gives NULL
  (`http-thread.cpp` 236), the server goes on without a socket, and deinit passes the NULL to
  evhttp_del_accept_socket (254). Nor that libevent's listener accepts all waiting connections
  in one callback: `HttpServer` takes them one at a time, which allows more orders.
- A file of /proc that cannot be opened or is empty, for which stat2proc computes with the NULL
  that strchr returns (`proc-stat.cpp` 89).
- Calls of Timer by the main thread that meet a loop which is awake, such as a destroy of a
  timer that another thread has found due (`MayTouchBase`). In general, what a race
  inside libevent, which the code uses without its locks, does to an event base is undefined;
  the places where it can happen are listed as hazards.
