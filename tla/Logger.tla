------------------------------- MODULE Logger -------------------------------
(***************************************************************************)
(* class Logger (ch-cpp-utils/logger.hpp).  Threads that log put the       *)
(* pieces of a line together in an entry of their own and push the whole   *)
(* line on a queue; the logger's thread pops and prints.  mQMutex guards   *)
(* the queue and the entries, but the logger's thread looks at shutdown    *)
(* and at the emptiness of the queue without it.  A critical section is a  *)
(* step that takes the mutex and one that does the work and releases it.   *)
(* mSemaphore is used as CountingSemaphore.tla describes it.               *)
(***************************************************************************)
EXTENDS Integers, Sequences

CONSTANTS Writers,    \* the threads that log
          Owner,      \* the thread that runs the constructor and the destructor
          Printer,    \* the logger's thread
          Free,       \* the mutex has no owner; there is no line in hand
          MaxPieces,  \* bound on the pieces a writer logs
          MaxLines    \* when so many lines are pushed no other is begun

\* The text of a stream: the time that clear() writes, the thread's pieces, which
\* are numbered from 1 in the order in which it writes them, the end of line.
Time == 0
EndOfLine == -1

\* A line of the queue: the text of the stream of one thread.
Lines == [by : Writers, text : Seq(Int)]

ASSUME ActorsDiffer ==
    /\ Owner \notin Writers /\ Printer \notin Writers /\ Owner # Printer
    /\ Free \notin Writers \cup {Owner, Printer} \cup Lines
ASSUME BoundsAreNat == MaxPieces \in Nat /\ MaxLines \in Nat

VARIABLES mQMutex,    \* owner of the mutex, or Free
          mLogQueue,  \* the lines to print
          mLogMap,    \* mLogMap[w]: the stream of w, <<>> before its first piece
          shutdown,
          mSemaphore, \* permits
          mThread,    \* the std::thread: "null", "joinable", "detached", "deleted"
          freed,      \* the destructor has deleted the streams of mLogMap
          writer,     \* writer[w]: the statement w is about to execute
          printer,    \* the statement the logger's thread is about to execute
          owner,      \* the statement the owner is about to execute
          held,       \* the line the printer has popped, or Free
          cout,       \* the lines printed
          pushed,     \* every line ever pushed, in the order of the pushes
          said,       \* said[w]: the number of pieces w's stream has taken
          fault       \* a deleted stream or a handle that is not there was used

queue == <<mLogQueue, held, cout, pushed>>
streams == <<mLogMap, said, freed>>
life == <<shutdown, mSemaphore, mThread>>
data == <<mQMutex, queue, streams, life, fault>>
vars == <<writer, printer, owner, data>>

Threads == Writers \cup {Owner, Printer}

WriterLabels == {"idle", "piece", "p_in", "line", "l_in"}
PrinterLabels == {"none", "t_start", "t_test", "t_empty", "t_poplock", "t_pop", "t_print",
                  "t_waitlock", "t_wait", "t_waiting", "t_relock",
                  "t_detach", "t_exit", "t_done"}
OwnerLabels == {"o_new", "o_create", "o_created", "o_live", "d_shutdown", "d_wait",
                "d_free", "d_drain", "d_delete", "gone"}

Init ==
    /\ mQMutex = Free
    /\ mLogQueue = <<>>
    /\ mLogMap = [w \in Writers |-> <<>>]
    /\ shutdown = FALSE
    /\ mSemaphore = 0
    /\ mThread = "null"
    /\ freed = FALSE
    /\ writer = [w \in Writers |-> "idle"]
    /\ printer = "none"
    /\ owner = "o_new"
    /\ held = Free
    /\ cout = <<>>
    /\ pushed = <<>>
    /\ said = [w \in Writers |-> 0]
    /\ fault = FALSE

GoWriter(w, from, to) ==
    /\ writer[w] = from
    /\ writer' = [writer EXCEPT ![w] = to]
    /\ UNCHANGED <<printer, owner>>

GoPrinter(from, to) == printer = from /\ printer' = to /\ UNCHANGED <<writer, owner>>

GoOwner(from, to) == owner = from /\ owner' = to /\ UNCHANGED <<writer, printer>>

Lock(t) ==
    /\ mQMutex = Free
    /\ mQMutex' = t
    /\ UNCHANGED <<queue, streams, life, fault>>
----------------------------------------------------------------------------
(* operator<<, for a piece and for a manipulator such as std::endl *)

\* getInstance() returns only once the constructor has finished.
Call(w, op) ==
    /\ owner \notin {"o_new", "o_create", "o_created"}
    /\ GoWriter(w, "idle", op)
    /\ op = "piece" => said[w] < MaxPieces
    /\ op = "line" => Len(pushed) < MaxLines
    /\ UNCHANGED data

\* std::lock_guard
Enter(w, op, to) == GoWriter(w, op, to) /\ Lock(w)

\* getThreadEntry(): the thread's stream, created and cleared at first use.
getThreadEntry(w) == IF mLogMap[w] = <<>> THEN <<Time>> ELSE mLogMap[w]

\* Mutant: one stream for all the threads: a piece goes to every stream.
PieceShared(w) ==
    /\ GoWriter(w, "p_in", "idle")
    /\ mQMutex' = Free
    /\ mLogMap' = [v \in Writers |-> Append(getThreadEntry(v), said[w] + 1)]
    /\ said' = [said EXCEPT ![w] = @ + 1]
    /\ UNCHANGED <<queue, life, freed, fault>>

\* operator<< (const T &a)
Piece(w) ==
    /\ GoWriter(w, "p_in", "idle")
    /\ mQMutex' = Free
    /\ IF shutdown
         THEN UNCHANGED <<mLogMap, said, fault>>
         ELSE /\ mLogMap' = [mLogMap EXCEPT ![w] = Append(getThreadEntry(w), said[w] + 1)]
              /\ said' = [said EXCEPT ![w] = @ + 1]
              /\ fault' = (fault \/ freed)
    /\ UNCHANGED <<queue, life, freed>>

\* mQCondition.notify_one(): only the printer ever waits.
NotifyPrinter == printer' = IF printer = "t_waiting" THEN "t_relock" ELSE printer

\* operator<< (std::ostream& (*pf)(std::ostream&)): the stream becomes a line of
\* the queue and is cleared.
Line(w) ==
    /\ writer[w] = "l_in"
    /\ writer' = [writer EXCEPT ![w] = "idle"]
    /\ mQMutex' = Free
    /\ IF shutdown
         THEN UNCHANGED <<printer, mLogMap, mLogQueue, pushed, fault>>
         ELSE LET line == [by |-> w, text |-> Append(getThreadEntry(w), EndOfLine)]
              IN  /\ mLogMap' = [mLogMap EXCEPT ![w] = <<Time>>]
                  /\ mLogQueue' = Append(mLogQueue, line)
                  /\ pushed' = Append(pushed, line)
                  /\ fault' = (fault \/ freed)
                  /\ NotifyPrinter
    /\ UNCHANGED <<owner, life, freed, held, cout, said>>
----------------------------------------------------------------------------
(* threadFunc_() *)

\* mSemaphore.notify() before the loop: the constructor may go on.
Started ==
    /\ GoPrinter("t_start", "t_test")
    /\ mSemaphore' = mSemaphore + 1
    /\ UNCHANGED <<queue, streams, mQMutex, shutdown, mThread, fault>>

\* while (!shutdown), then mLogQueue.empty(): two reads without the mutex.
TestShutdown ==
    /\ GoPrinter("t_test", IF shutdown THEN "t_detach" ELSE "t_empty")
    /\ UNCHANGED data

TestEmpty ==
    /\ GoPrinter("t_empty", IF mLogQueue = <<>> THEN "t_waitlock" ELSE "t_poplock")
    /\ UNCHANGED data

PopLock == GoPrinter("t_poplock", "t_pop") /\ Lock(Printer)

\* Mutant: the newest line is popped.
PopBack ==
    /\ GoPrinter("t_pop", "t_print")
    /\ mQMutex' = Free
    /\ held' = mLogQueue[Len(mLogQueue)]
    /\ mLogQueue' = SubSeq(mLogQueue, 1, Len(mLogQueue) - 1)
    /\ UNCHANGED <<streams, life, cout, pushed, fault>>

\* at(0) throws on an empty queue.
Pop ==
    /\ GoPrinter("t_pop", "t_print")
    /\ mQMutex' = Free
    /\ IF mLogQueue = <<>>
         THEN fault' = TRUE /\ UNCHANGED <<held, mLogQueue>>
         ELSE /\ held' = Head(mLogQueue)
              /\ mLogQueue' = Tail(mLogQueue)
              /\ UNCHANGED fault
    /\ UNCHANGED <<streams, life, cout, pushed>>

\* std::cout << log->str(), outside the mutex.
PrintLine ==
    /\ GoPrinter("t_print", "t_test")
    /\ cout' = Append(cout, held)
    /\ held' = Free
    /\ UNCHANGED <<streams, life, mQMutex, mLogQueue, pushed, fault>>

WaitLock == GoPrinter("t_waitlock", "t_wait") /\ Lock(Printer)

\* wait_for releases the mutex; the queue is not looked at again.
Wait ==
    /\ GoPrinter("t_wait", "t_waiting")
    /\ mQMutex' = Free
    /\ UNCHANGED <<queue, streams, life, fault>>

\* Mutant: wait() in the place of wait_for().
NoTimeout == FALSE /\ UNCHANGED vars

\* One second has passed, or the wake-up is spurious.
Timeout ==
    /\ GoPrinter("t_waiting", "t_relock")
    /\ UNCHANGED data

\* wait_for takes the mutex to return, and unique_lock releases it at once.
Relock ==
    /\ GoPrinter("t_relock", "t_test")
    /\ mQMutex = Free
    /\ UNCHANGED data

Detach ==
    /\ GoPrinter("t_detach", "t_exit")
    /\ fault' = (fault \/ mThread # "joinable")
    /\ mThread' = "detached"
    /\ UNCHANGED <<queue, streams, mQMutex, shutdown, mSemaphore>>

\* Mutant: the semaphore is notified before the handle is detached.
ExitFirst ==
    /\ \/ GoPrinter("t_detach", "t_exit") /\ mSemaphore' = mSemaphore + 1
          /\ UNCHANGED <<mThread, fault>>
       \/ /\ GoPrinter("t_exit", "t_done")
          /\ fault' = (fault \/ mThread # "joinable")
          /\ mThread' = "detached"
          /\ UNCHANGED mSemaphore
    /\ UNCHANGED <<queue, streams, mQMutex, shutdown>>

ExitNotify ==
    /\ GoPrinter("t_exit", "t_done")
    /\ mSemaphore' = mSemaphore + 1
    /\ UNCHANGED <<queue, streams, mQMutex, shutdown, mThread, fault>>

PrinterExit == Detach \/ ExitNotify
----------------------------------------------------------------------------
(* Logger() and ~Logger() *)

\* mThread = new std::thread(...): the thread runs before mThread is assigned.
Create ==
    /\ owner = "o_new" /\ owner' = "o_create"
    /\ printer' = "t_start"
    /\ UNCHANGED <<writer, data>>

Assign ==
    /\ GoOwner("o_create", "o_created")
    /\ mThread' = "joinable"
    /\ UNCHANGED <<queue, streams, mQMutex, shutdown, mSemaphore, fault>>

\* mSemaphore.wait()
SemaphoreWait(from, to) ==
    /\ GoOwner(from, to)
    /\ mSemaphore > 0
    /\ mSemaphore' = mSemaphore - 1
    /\ UNCHANGED <<queue, streams, mQMutex, shutdown, mThread, fault>>

Created == SemaphoreWait("o_created", "o_live")

\* At exit, whatever the writers are doing.
DestroyLock == GoOwner("o_live", "d_shutdown") /\ Lock(Owner)

SetShutdown ==
    /\ GoOwner("d_shutdown", "d_wait")
    /\ shutdown' = TRUE
    /\ mQMutex' = Free
    /\ UNCHANGED <<queue, streams, mSemaphore, mThread, fault>>

DestroyWait == SemaphoreWait("d_wait", "d_free")

FreeStreams ==
    /\ GoOwner("d_free", "d_drain")
    /\ freed' = TRUE
    /\ UNCHANGED <<queue, life, mQMutex, mLogMap, said, fault>>

\* Mutant: the lines that are left are not printed.
DrainNothing ==
    /\ GoOwner("d_drain", "d_delete")
    /\ UNCHANGED data

\* The lines that are left, printed one by one without the mutex.
Drain ==
    /\ owner = "d_drain"
    /\ IF mLogQueue = <<>>
         THEN GoOwner("d_drain", "d_delete") /\ UNCHANGED <<mLogQueue, cout>>
         ELSE /\ cout' = Append(cout, Head(mLogQueue))
              /\ mLogQueue' = Tail(mLogQueue)
              /\ UNCHANGED <<writer, printer, owner>>
    /\ UNCHANGED <<streams, life, mQMutex, held, pushed, fault>>

\* SAFE_DELETE(mThread): the destructor of a joinable std::thread terminates.
DeleteThread ==
    /\ GoOwner("d_delete", "gone")
    /\ fault' = (fault \/ mThread = "joinable")
    /\ mThread' = "deleted"
    /\ UNCHANGED <<queue, streams, mQMutex, shutdown, mSemaphore>>
----------------------------------------------------------------------------
WriterStep(w) ==
    \/ Enter(w, "piece", "p_in") \/ Piece(w)
    \/ Enter(w, "line", "l_in") \/ Line(w)

PrinterStep ==
    \/ Started \/ TestShutdown \/ TestEmpty \/ PopLock \/ Pop \/ PrintLine
    \/ WaitLock \/ Wait \/ Timeout \/ Relock \/ PrinterExit

OwnerStep ==
    \/ Create \/ Assign \/ Created
    \/ SetShutdown \/ DestroyWait \/ FreeStreams \/ Drain \/ DeleteThread

\* Everything is over: the process ends.
Finished ==
    /\ owner = "gone" /\ printer = "t_done"
    /\ UNCHANGED vars

Next ==
    \/ \E w \in Writers :
          WriterStep(w) \/ \E op \in {"piece", "line"} : Call(w, op)
    \/ PrinterStep
    \/ OwnerStep \/ DestroyLock
    \/ Finished

Spec == Init /\ [][Next]_vars

\* Threads run, wait_for times out, and the printer gets the mutex although the
\* writers take it again and again: no operation holds it for long and a mutex
\* that is free again and again is not refused for ever.  Nobody has to log or to
\* destroy the logger.
FairSpec ==
    /\ Spec
    /\ SF_vars(PopLock \/ WaitLock \/ Relock)
    /\ WF_vars(PrinterStep)
    /\ WF_vars(OwnerStep)
    /\ \A w \in Writers : WF_vars(WriterStep(w))
----------------------------------------------------------------------------
\* The types of the state; the semaphore never holds two permits, so that the
\* destructor's wait is answered by the printer's exit (logger.hpp:93-97, 118, 201).
TypeOK ==
    /\ mQMutex \in Threads \cup {Free}
    /\ mLogQueue \in Seq(Lines)
    /\ mLogMap \in [Writers -> Seq(Int)]
    /\ shutdown \in BOOLEAN
    /\ mSemaphore \in 0..1
    /\ mThread \in {"null", "joinable", "detached", "deleted"}
    /\ freed \in BOOLEAN
    /\ writer \in [Writers -> WriterLabels]
    /\ printer \in PrinterLabels
    /\ owner \in OwnerLabels
    /\ held \in Lines \cup {Free}
    /\ cout \in Seq(Lines)
    /\ pushed \in Seq(Lines)
    /\ said \in [Writers -> Nat]
    /\ fault \in BOOLEAN

InHand == IF held = Free THEN <<>> ELSE <<held>>

\* Every line that was pushed is printed, in the printer's hand or in the queue:
\* none is lost, printed twice or overtaken, whether the printer's loop or the
\* destructor prints it (logger.hpp:99-116 and 209-216).
PrintedInOrder == pushed = cout \o InHand \o mLogQueue

\* The pieces in a text, and whether they stand in the order of their numbers.
Pieces(text) == {text[j] : j \in DOMAIN text} \ {Time, EndOfLine}
InOrder(text) == \A j, k \in DOMAIN text :
                    j < k /\ text[j] > 0 /\ text[k] > 0 => text[j] < text[k]
Before(text, later) == \A x \in Pieces(text), y \in Pieces(later) : x < y

\* The places of w's lines among the pushes.
LinesOf(w) == {i \in DOMAIN pushed : pushed[i].by = w}

\* A line holds the time, then pieces of its own thread in the order in which
\* the thread wrote them, then the end of line; a piece is in no other line and
\* in no line after one that has a later piece; and no piece is lost between two
\* lines (getThreadEntry, clear and both operator<<, logger.hpp:141-194).
LinesAreWhole ==
    /\ \A i \in DOMAIN pushed :
          LET t == pushed[i].text
          IN  /\ t[1] = Time /\ t[Len(t)] = EndOfLine
              /\ \A j \in 2..(Len(t) - 1) : t[j] > 0
              /\ InOrder(t)
    /\ \A w \in Writers :
          /\ InOrder(mLogMap[w])
          /\ \A i, j \in LinesOf(w) : i < j => Before(pushed[i].text, pushed[j].text)
          /\ \A i \in LinesOf(w) : Before(pushed[i].text, mLogMap[w])
          /\ Pieces(mLogMap[w]) \cup UNION {Pieces(pushed[i].text) : i \in LinesOf(w)}
               = 1..said[w]

\* No stream is used after the destructor has deleted it, the printer never pops
\* an empty queue, and the handle is detached when it is there and deleted only
\* once it is detached (logger.hpp:117, 206, 218).
NoFault == ~fault

\* When the destructor has returned the printer touches nothing of the logger any
\* more and everything that was pushed has been printed (logger.hpp:196-219).
DestroyedMeansPrinted ==
    owner = "gone" => printer = "t_done" /\ cout = pushed

\* A line that is pushed is printed, although the notification of a push between
\* the printer's look at the queue and its wait is lost (logger.hpp:101, 113-114).
LinesArePrinted ==
    \A n \in 1..MaxLines : Len(pushed) >= n ~> Len(cout) >= n

\* The destructor returns, although it does not notify the printer that waits
\* (logger.hpp:196-201).
DestructorReturns == owner = "d_shutdown" ~> owner = "gone"
============================================================================
