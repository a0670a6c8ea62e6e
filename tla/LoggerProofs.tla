---------------------------- MODULE LoggerProofs ----------------------------
(***************************************************************************)
(* The safety of Logger.tla for any set of threads that log and any number *)
(* of lines.  Control says how far the constructor, the destructor and the *)
(* printer have come relative to each other; with the exclusion by mQMutex *)
(* it is inductive, and the order of the lines is inductive relative to    *)
(* it: only the printer pops while it runs, and the destructor pops only   *)
(* once the printer is done.                                               *)
(***************************************************************************)
EXTENDS Logger, SequenceTheorems, TLAPS

Exclusion ==
    /\ \A w \in Writers : writer[w] \in {"p_in", "l_in"} <=> mQMutex = w
    /\ printer \in {"t_pop", "t_wait"} <=> mQMutex = Printer
    /\ owner = "d_shutdown" <=> mQMutex = Owner

\* How often the printer has notified mSemaphore and the owner has waited for it.
Notifies == CASE printer \in {"none", "t_start"} -> 0
              [] printer = "t_done" -> 2
              [] OTHER -> 1
Waits == CASE owner \in {"o_new", "o_create", "o_created"} -> 0
           [] owner \in {"o_live", "d_shutdown", "d_wait"} -> 1
           [] OTHER -> 2

Control ==
    /\ mSemaphore = Notifies - Waits
    /\ (owner = "o_new") <=> (printer = "none")
    /\ shutdown <=> owner \in {"d_wait", "d_free", "d_drain", "d_delete", "gone"}
    /\ printer \in {"t_detach", "t_exit", "t_done"} => shutdown
    /\ freed => shutdown
    /\ mThread = CASE owner \in {"o_new", "o_create"} -> "null"
                   [] owner = "gone" -> "deleted"
                   [] OTHER -> IF printer \in {"t_exit", "t_done"}
                                 THEN "detached" ELSE "joinable"
    /\ (held # Free) <=> (printer = "t_print")
    /\ printer \in {"t_poplock", "t_pop"} => mLogQueue # <<>>
    /\ owner \in {"d_delete", "gone"} => mLogQueue = <<>>
    /\ NoFault

Safe == TypeOK /\ Exclusion /\ Control

\* The initial state is safe.
LEMMA InitSafe == Init => Safe
<1> SUFFICES ASSUME Init PROVE Safe
  OBVIOUS
<1> USE ActorsDiffer DEF Init
<1>0. <<>> \in Seq(Lines) /\ <<>> \in Seq(Int)
  BY EmptySeq
<1>a. mLogMap \in [Writers -> Seq(Int)] /\ said \in [Writers -> Nat]
  BY <1>0
<1>b. writer \in [Writers -> WriterLabels]
  BY DEF WriterLabels
<1>c. mLogQueue \in Seq(Lines) /\ cout \in Seq(Lines) /\ pushed \in Seq(Lines)
  BY <1>0
<1>d. owner \in OwnerLabels /\ printer \in PrinterLabels
  BY DEF PrinterLabels, OwnerLabels
<1>e. /\ mQMutex \in Threads \cup {Free} /\ held \in Lines \cup {Free}
      /\ mThread \in {"null", "joinable", "detached", "deleted"}
  OBVIOUS
<1>f. shutdown \in BOOLEAN /\ freed \in BOOLEAN /\ fault \in BOOLEAN
  OBVIOUS
<1>g. mSemaphore \in 0..1
  OBVIOUS
<1>1. TypeOK
  BY <1>a, <1>b, <1>c, <1>d, <1>e, <1>f, <1>g DEF TypeOK
<1>2. Exclusion
  BY DEF Exclusion
<1>3. Control
  BY DEF Control, Notifies, Waits, NoFault
<1> QED
  BY <1>1, <1>2, <1>3 DEF Safe

\* A step of a thread that logs.
LEMMA WriterSafe ==
    ASSUME Safe, NEW w \in Writers,
           WriterStep(w) \/ (\E op \in {"piece", "line"} : Call(w, op))
    PROVE  Safe'
<1> USE ActorsDiffer
    DEF Safe, TypeOK, Exclusion, Control, Notifies, Waits, NoFault,
        Threads, WriterLabels, PrinterLabels, OwnerLabels, GoWriter, GoPrinter, GoOwner,
        queue, streams, life, data
<1>1. ASSUME NEW op \in {"piece", "line"}, Call(w, op) PROVE Safe'
  BY <1>1 DEF Call
<1>2. CASE Enter(w, "piece", "p_in") \/ Enter(w, "line", "l_in")
  <2>1. TypeOK'
    BY <1>2 DEF Enter, Lock
  <2>2. Exclusion'
    BY <1>2 DEF Enter, Lock
  <2>3. Control'
    BY <1>2 DEF Enter, Lock
  <2> QED
    BY <2>1, <2>2, <2>3 DEF Safe
<1>3. getThreadEntry(w) \in Seq(Int)
  BY DEF getThreadEntry, Time
<1>4. CASE Piece(w)
  <2>0. Append(getThreadEntry(w), said[w] + 1) \in Seq(Int) /\ said[w] + 1 \in Nat
    BY <1>3
  <2>a. mLogMap' \in [Writers -> Seq(Int)] /\ said' \in [Writers -> Nat]
    <3>1. CASE shutdown
      BY <3>1, <1>4 DEF Piece
    <3>2. CASE ~shutdown
      <4>1. mLogMap' = [mLogMap EXCEPT ![w] = Append(getThreadEntry(w), said[w] + 1)]
        BY <3>2, <1>4 DEF Piece
      <4>2. said' = [said EXCEPT ![w] = @ + 1]
        BY <3>2, <1>4 DEF Piece
      <4> QED
        BY <2>0, <4>1, <4>2
    <3> QED
      BY <3>1, <3>2
  <2>1. TypeOK'
    BY <2>a, <1>4 DEF Piece
  <2>2. Exclusion'
    BY <1>3, <1>4 DEF Piece
  <2>3. Control'
    BY <1>3, <1>4 DEF Piece
  <2> QED
    BY <2>1, <2>2, <2>3 DEF Safe
<1>5. CASE Line(w)
  <2> DEFINE line == [by |-> w, text |-> Append(getThreadEntry(w), EndOfLine)]
  <2>1. line \in Lines
    BY <1>3 DEF Lines, EndOfLine
  <2>2. CASE shutdown
    BY <1>5, <2>2 DEF Line, queue, streams, life, data
  <2>3. CASE ~shutdown
    <3>1. /\ mQMutex' = Free /\ mLogMap' = [mLogMap EXCEPT ![w] = <<Time>>]
          /\ mLogQueue' = Append(mLogQueue, line)
          /\ pushed' = Append(pushed, line)
          /\ fault' = (fault \/ freed)
          /\ NotifyPrinter
          /\ UNCHANGED <<owner, shutdown, mSemaphore, mThread, freed, held, cout, said>>
          /\ writer[w] = "l_in" /\ writer' = [writer EXCEPT ![w] = "idle"]
      BY <1>5, <2>3 DEF Line, queue, streams, life, data
    <3> HIDE DEF line
    <3>2. mLogQueue' \in Seq(Lines) /\ pushed' \in Seq(Lines) /\ mLogQueue' # <<>>
      BY <2>1, <3>1
    <3>3. \/ printer' = printer
          \/ printer = "t_waiting" /\ printer' = "t_relock"
      BY <3>1 DEF NotifyPrinter
    <3>4. mLogMap' \in [Writers -> Seq(Int)]
      BY <3>1 DEF Time
    <3>5. TypeOK' /\ Exclusion'
      BY <3>1, <3>2, <3>3, <3>4
    <3>6. Control'
      BY <2>3, <3>1, <3>2, <3>3
    <3> QED
      BY <3>5, <3>6
  <2> QED
    BY <2>2, <2>3
<1> QED
  BY <1>1, <1>2, <1>4, <1>5 DEF WriterStep

\* A step of the logger's thread.
LEMMA PrinterSafe ==
    ASSUME Safe, PrinterStep
    PROVE  Safe'
<1> USE ActorsDiffer
    DEF Safe, TypeOK, Exclusion, Control, Notifies, Waits, NoFault,
        Threads, WriterLabels, PrinterLabels, OwnerLabels, GoWriter, GoPrinter, GoOwner,
        queue, streams, life, data
<1>1. CASE Started
  BY <1>1 DEF Started
<1>2. CASE TestShutdown \/ TestEmpty \/ Timeout \/ Relock
  <2>1. TypeOK'
    BY <1>2 DEF TestShutdown, TestEmpty, Timeout, Relock
  <2>2. Exclusion'
    BY <1>2 DEF TestShutdown, TestEmpty, Timeout, Relock
  <2>3. Control'
    BY <1>2 DEF TestShutdown, TestEmpty, Timeout, Relock
  <2> QED
    BY <2>1, <2>2, <2>3 DEF Safe
<1>3. CASE PopLock \/ WaitLock
  <2>1. TypeOK'
    BY <1>3 DEF PopLock, WaitLock, Lock
  <2>2. Exclusion'
    BY <1>3 DEF PopLock, WaitLock, Lock
  <2>3. Control'
    BY <1>3 DEF PopLock, WaitLock, Lock
  <2> QED
    BY <2>1, <2>2, <2>3 DEF Safe
<1>4. CASE Pop
  <2>1. Head(mLogQueue) \in Lines /\ Tail(mLogQueue) \in Seq(Lines)
    BY <1>4 DEF Pop, queue, streams, life, data
  <2> QED
    BY <1>4, <2>1 DEF Pop, queue, streams, life, data
<1>5. CASE PrintLine
  <2>1. held \in Lines
    BY <1>5 DEF PrintLine
  <2> QED
    BY <1>5, <2>1 DEF PrintLine
<1>6. CASE Wait
  BY <1>6 DEF Wait
<1>7. CASE Detach
  BY <1>7 DEF Detach
<1>8. CASE ExitNotify
  BY <1>8 DEF ExitNotify
<1> QED
  BY <1>1, <1>2, <1>3, <1>4, <1>5, <1>6, <1>7, <1>8 DEF PrinterStep, PrinterExit

\* A step of the constructor or the destructor.
LEMMA OwnerSafe ==
    ASSUME Safe, OwnerStep \/ DestroyLock
    PROVE  Safe'
<1> USE ActorsDiffer
    DEF Safe, TypeOK, Exclusion, Control, Notifies, Waits, NoFault,
        Threads, WriterLabels, PrinterLabels, OwnerLabels, GoWriter, GoPrinter, GoOwner,
        queue, streams, life, data
<1>1. CASE Create
  BY <1>1 DEF Create
<1>2. CASE Assign
  BY <1>2 DEF Assign
<1>3. CASE Created
  BY <1>3 DEF Created, SemaphoreWait
<1>4. CASE DestroyLock
  BY <1>4 DEF DestroyLock, Lock
<1>5. CASE SetShutdown
  BY <1>5 DEF SetShutdown
<1>6. CASE DestroyWait
  BY <1>6 DEF DestroyWait, SemaphoreWait
<1>7. CASE FreeStreams
  BY <1>7 DEF FreeStreams
<1>8. CASE Drain
  <2>1. mLogQueue # <<>> =>
          /\ Head(mLogQueue) \in Lines /\ Tail(mLogQueue) \in Seq(Lines)
    OBVIOUS
  <2>2. TypeOK'
    <3>1. mLogQueue' \in Seq(Lines) /\ cout' \in Seq(Lines)
      <4>1. CASE mLogQueue = <<>>
        BY <4>1, <1>8 DEF Drain, queue, streams, life, data
      <4>2. CASE mLogQueue # <<>>
        <5>1. cout' = Append(cout, Head(mLogQueue)) /\ mLogQueue' = Tail(mLogQueue)
          BY <4>2, <1>8 DEF Drain, queue, streams, life, data
        <5> QED
          BY <5>1, <4>2, <2>1
      <4> QED
        BY <4>1, <4>2
    <3> QED
      BY <1>8, <3>1 DEF Drain, queue, streams, life, data
  <2>3. Exclusion'
    BY <1>8 DEF Drain, queue, streams, life, data
  <2>4. Control'
    BY <1>8, <2>1 DEF Drain, queue, streams, life, data
  <2> QED
    BY <2>2, <2>3, <2>4
<1>9. CASE DeleteThread
  BY <1>9 DEF DeleteThread
<1> QED
  BY <1>1, <1>2, <1>3, <1>4, <1>5, <1>6, <1>7, <1>8, <1>9 DEF OwnerStep

\* Every step is safe.
LEMMA NextSafe == Safe /\ [Next]_vars => Safe'
<1>1. UNCHANGED vars /\ Safe => Safe'
  BY DEF vars, queue, streams, life, data, Safe, TypeOK, Exclusion, Control, Notifies, Waits, NoFault
<1> QED
  BY <1>1, WriterSafe, PrinterSafe, OwnerSafe DEF Next, Finished

----------------------------------------------------------------------------
(* The order of the lines *)

\* Appending at the end of what follows appends to the whole.
LEMMA AppendRight ==
    ASSUME NEW S, NEW a \in Seq(S), NEW q \in Seq(S), NEW e \in S
    PROVE  a \o Append(q, e) = Append(a \o q, e)
  OBVIOUS

\* Moving the first line of the queue to the end of what precedes it changes
\* nothing.
LEMMA MoveFirst ==
    ASSUME NEW S, NEW a \in Seq(S), NEW q \in Seq(S), q # <<>>
    PROVE  /\ a \o q = (a \o <<Head(q)>>) \o Tail(q)
           /\ Append(a, Head(q)) = a \o <<Head(q)>>
  OBVIOUS

\* No step loses, repeats or reorders a line.
LEMMA NextOrder == Safe /\ PrintedInOrder /\ [Next]_vars => PrintedInOrder'
<1> SUFFICES ASSUME Safe, PrintedInOrder, [Next]_vars PROVE PrintedInOrder'
  OBVIOUS
<1>t. /\ mLogQueue \in Seq(Lines) /\ cout \in Seq(Lines) /\ pushed \in Seq(Lines)
      /\ held \in Lines \cup {Free} /\ Free \notin Lines
      /\ InHand \in Seq(Lines) /\ cout \o InHand \in Seq(Lines)
  BY ActorsDiffer DEF Safe, TypeOK, InHand
<1>1. CASE UNCHANGED <<pushed, cout, held, mLogQueue>>
  BY <1>1 DEF PrintedInOrder, InHand
<1>2. ASSUME NEW w \in Writers, Line(w), ~shutdown PROVE PrintedInOrder'
  <2> DEFINE line == [by |-> w, text |-> Append(getThreadEntry(w), EndOfLine)]
  <2>1. getThreadEntry(w) \in Seq(Int)
    BY DEF Safe, TypeOK, getThreadEntry, Time
  <2>2. line \in Lines
    BY <2>1 DEF Lines, EndOfLine
  <2>3. /\ mLogQueue' = Append(mLogQueue, line) /\ pushed' = Append(pushed, line)
        /\ UNCHANGED <<cout, held>>
    BY <1>2 DEF Line, queue, streams, life, data
  <2> HIDE DEF line
  <2>4. (cout \o InHand) \o Append(mLogQueue, line)
          = Append((cout \o InHand) \o mLogQueue, line)
    BY <1>t, <2>2, AppendRight
  <2> QED
    BY <2>3, <2>4 DEF PrintedInOrder, InHand
<1>3. CASE Pop
  <2>1. mLogQueue # <<>> /\ held = Free
    BY <1>3 DEF Pop, GoPrinter, Safe, Control
  <2>2. /\ held' = Head(mLogQueue) /\ mLogQueue' = Tail(mLogQueue)
        /\ UNCHANGED <<cout, pushed>>
    BY <1>3, <2>1 DEF Pop, queue, streams, life, data
  <2>3. InHand = <<>> /\ InHand' = <<Head(mLogQueue)>>
    BY <1>t, <2>1, <2>2 DEF InHand
  <2>4. cout \o <<>> = cout
    BY <1>t
  <2>5. cout \o mLogQueue = (cout \o <<Head(mLogQueue)>>) \o Tail(mLogQueue)
    BY <1>t, <2>1, MoveFirst
  <2> QED
    BY <2>2, <2>3, <2>4, <2>5 DEF PrintedInOrder
<1>4. CASE PrintLine
  <2>1. held # Free /\ held \in Lines
    BY <1>4, <1>t DEF PrintLine, GoPrinter, Safe, Control
  <2>2. cout' = Append(cout, held) /\ held' = Free /\ UNCHANGED <<mLogQueue, pushed>>
    BY <1>4 DEF PrintLine, queue, streams, life, data
  <2>3. InHand = <<held>> /\ InHand' = <<>>
    BY <2>1, <2>2 DEF InHand
  <2>4. Append(cout, held) \o <<>> = cout \o <<held>>
    BY <1>t, <2>1
  <2> QED
    BY <2>2, <2>3, <2>4 DEF PrintedInOrder
<1>5. ASSUME Drain, mLogQueue # <<>> PROVE PrintedInOrder'
  <2>1. held = Free
    BY <1>5 DEF Drain, Safe, Control, Notifies, Waits, TypeOK
  <2>2. /\ cout' = Append(cout, Head(mLogQueue)) /\ mLogQueue' = Tail(mLogQueue)
        /\ UNCHANGED <<held, pushed>>
    BY <1>5 DEF Drain, queue, streams, life, data
  <2>3. InHand = <<>> /\ InHand' = <<>>
    BY <2>1, <2>2 DEF InHand
  <2>4. cout \o <<>> = cout /\ Append(cout, Head(mLogQueue)) \o <<>> = Append(cout, Head(mLogQueue))
    BY <1>t, <1>5
  <2>5. cout \o mLogQueue = Append(cout, Head(mLogQueue)) \o Tail(mLogQueue)
    BY <1>t, <1>5, MoveFirst
  <2> QED
    BY <2>2, <2>3, <2>4, <2>5 DEF PrintedInOrder
<1>6. ASSUME ~(\E w \in Writers : Line(w) /\ ~shutdown), ~Pop, ~PrintLine,
             ~(Drain /\ mLogQueue # <<>>)
      PROVE  UNCHANGED <<pushed, cout, held, mLogQueue>>
  <2>1. CASE UNCHANGED vars
    BY <2>1 DEF vars, queue, streams, life, data
  <2>2. ASSUME NEW w \in Writers,
               WriterStep(w) \/ (\E op \in {"piece", "line"} : Call(w, op))
        PROVE  UNCHANGED <<pushed, cout, held, mLogQueue>>
    BY <1>6, <2>2 DEF WriterStep, Enter, Lock, Piece, Line, Call, queue, streams, life, data
  <2>3. CASE PrinterStep
    BY <1>6, <2>3 DEF PrinterStep, Started, TestShutdown, TestEmpty, PopLock, WaitLock,
                      Lock, Wait, Timeout, Relock, PrinterExit, Detach, ExitNotify, queue, streams, life, data
  <2>4. CASE OwnerStep \/ DestroyLock
    BY <1>6, <2>4 DEF OwnerStep, Create, Assign, Created, SemaphoreWait, DestroyLock, Lock,
                      SetShutdown, DestroyWait, FreeStreams, Drain, DeleteThread, queue, streams, life, data
  <2> QED
    BY <2>1, <2>2, <2>3, <2>4 DEF Next, Finished
<1> QED
  BY <1>1, <1>2, <1>3, <1>4, <1>5, <1>6

\* At first nothing is pushed, printed or queued.
LEMMA InitOrder == Init => PrintedInOrder
  BY DEF Init, PrintedInOrder, InHand
----------------------------------------------------------------------------
(* The pieces of the lines *)

\* The stream of a thread begins with the time, and its pieces are pieces that
\* the thread has written.
Streams ==
    \A w \in Writers :
        \/ mLogMap[w] = <<>>
        \/ /\ Len(mLogMap[w]) > 0 /\ mLogMap[w][1] = Time
           /\ \A j \in 2..Len(mLogMap[w]) : mLogMap[w][j] \in 1..said[w]

WholeLine(t) ==
    /\ t[1] = Time /\ t[Len(t)] = EndOfLine
    /\ \A j \in 2..(Len(t) - 1) : t[j] > 0
    /\ InOrder(t)

WholeThread(w) ==
    /\ InOrder(mLogMap[w])
    /\ \A i, j \in LinesOf(w) : i < j => Before(pushed[i].text, pushed[j].text)
    /\ \A i \in LinesOf(w) : Before(pushed[i].text, mLogMap[w])
    /\ Pieces(mLogMap[w]) \cup UNION {Pieces(pushed[i].text) : i \in LinesOf(w)}
         = 1..said[w]

LEMMA WholeParts ==
    LinesAreWhole <=> /\ \A i \in DOMAIN pushed : WholeLine(pushed[i].text)
                      /\ \A w \in Writers : WholeThread(w)
  BY DEF LinesAreWhole, WholeLine, WholeThread

\* What a text holds when a piece or the end of line is added to it.
LEMMA PiecesOfAppend ==
    ASSUME NEW t \in Seq(Int), NEW x \in Int
    PROVE  Pieces(Append(t, x)) = Pieces(t) \cup ({x} \ {Time, EndOfLine})
<1> DEFINE u == Append(t, x)
<1>1. DOMAIN u = 1..(Len(t) + 1) /\ DOMAIN t = 1..Len(t) /\ Len(t) \in Nat
  OBVIOUS
<1>2. \A j \in DOMAIN t : u[j] = t[j] /\ j \in DOMAIN u
  BY <1>1
<1>3. u[Len(t) + 1] = x /\ Len(t) + 1 \in DOMAIN u
  BY <1>1
<1>4. \A j \in DOMAIN u : j \in DOMAIN t \/ j = Len(t) + 1
  BY <1>1
<1> HIDE DEF u
<1>5. Pieces(u) = Pieces(t) \cup ({x} \ {Time, EndOfLine})
  BY <1>2, <1>3, <1>4 DEF Pieces
<1> QED
  BY <1>5 DEF u

\* The time, or nothing, has no pieces.
LEMMA NoPieces ==
    Pieces(<<>>) = {} /\ Pieces(<<Time>>) = {} /\ InOrder(<<>>) /\ InOrder(<<Time>>)
  BY DEF Pieces, InOrder, Time

\* A new piece is greater than the others; the end of line is no piece.
LEMMA InOrderAppend ==
    ASSUME NEW t \in Seq(Int), NEW x \in Int, InOrder(t),
           x <= 0 \/ (\A j \in DOMAIN t : t[j] < x)
    PROVE  InOrder(Append(t, x))
<1> DEFINE u == Append(t, x)
<1>1. DOMAIN u = 1..(Len(t) + 1) /\ DOMAIN t = 1..Len(t) /\ Len(t) \in Nat
  OBVIOUS
<1>2. \A j \in DOMAIN t : u[j] = t[j] /\ t[j] \in Int
  BY <1>1
<1>3. u[Len(t) + 1] = x
  BY <1>1
<1> HIDE DEF u
<1>4. ASSUME NEW j \in DOMAIN u, NEW k \in DOMAIN u, j < k, u[j] > 0, u[k] > 0
      PROVE  u[j] < u[k]
  <2>1. j \in DOMAIN t
    BY <1>1, <1>4
  <2>2. CASE k \in DOMAIN t
    BY <1>2, <1>4, <2>1, <2>2 DEF InOrder
  <2>3. CASE k = Len(t) + 1
    BY <1>2, <1>3, <1>4, <2>1, <2>3
  <2> QED
    BY <1>1, <2>2, <2>3
<1>5. InOrder(u)
  BY <1>4 DEF InOrder
<1> QED
  BY <1>5 DEF u

\* The thread's entry, which getThreadEntry creates at first use.
LEMMA EntryFacts ==
    ASSUME Safe, Streams, LinesAreWhole, NEW w \in Writers
    PROVE  LET t == getThreadEntry(w)
           IN  /\ t \in Seq(Int) /\ Len(t) > 0 /\ t[1] = Time
               /\ \A j \in 2..Len(t) : t[j] \in 1..said[w]
               /\ InOrder(t)
               /\ Pieces(t) = Pieces(mLogMap[w])
<1>1. mLogMap[w] \in Seq(Int) /\ InOrder(mLogMap[w])
  BY WholeParts DEF Safe, TypeOK, WholeThread
<1>2. CASE mLogMap[w] = <<>>
  <2>1. getThreadEntry(w) = <<Time>>
    BY <1>2 DEF getThreadEntry
  <2>2. <<Time>> \in Seq(Int) /\ Len(<<Time>>) = 1 /\ <<Time>>[1] = Time
    BY DEF Time
  <2> QED
    BY <1>2, <2>1, <2>2, NoPieces
<1>3. CASE mLogMap[w] # <<>>
  BY <1>1, <1>3 DEF getThreadEntry, Streams
<1> QED
  BY <1>2, <1>3
\* A piece is the greatest of its thread and goes to the end of its stream.
LEMMA PieceWhole ==
    ASSUME Safe, Streams, LinesAreWhole, NEW w \in Writers, Piece(w)
    PROVE  Streams' /\ LinesAreWhole'
<1>0. pushed' = pushed
  BY DEF Piece, queue
<1>1. CASE shutdown
  <2>1. UNCHANGED <<mLogMap, said, pushed>>
    BY <1>0, <1>1 DEF Piece
  <2> QED
    BY <2>1 DEF Streams, LinesAreWhole, LinesOf
<1>2. CASE ~shutdown
  <2> DEFINE t == getThreadEntry(w)
             n == said[w] + 1
             u == Append(t, n)
  <2>1. /\ t \in Seq(Int) /\ Len(t) > 0 /\ t[1] = Time /\ InOrder(t)
        /\ \A j \in 2..Len(t) : t[j] \in 1..said[w]
        /\ Pieces(t) = Pieces(mLogMap[w])
    BY EntryFacts
  <2>2. /\ mLogMap' = [mLogMap EXCEPT ![w] = u] /\ said' = [said EXCEPT ![w] = n]
        /\ said \in [Writers -> Nat] /\ mLogMap \in [Writers -> Seq(Int)]
    BY <1>2 DEF Piece, Safe, TypeOK
  <2>3. said[w] \in Nat /\ n \in Int /\ n > 0
    BY <2>2
  <2>4. /\ mLogMap'[w] = u /\ said'[w] = n
        /\ \A v \in Writers \ {w} : mLogMap'[v] = mLogMap[v] /\ said'[v] = said[v]
    BY <2>2
  <2> HIDE DEF t
  <2>5. Len(u) = Len(t) + 1 /\ \A j \in 1..Len(t) : u[j] = t[j]
    BY <2>1, <2>3
  <2>6. u[Len(t) + 1] = n /\ Len(t) \in Nat /\ DOMAIN t = 1..Len(t)
    BY <2>1, <2>3
  <2>7. Pieces(u) = Pieces(mLogMap[w]) \cup {n}
    BY <2>1, <2>3, PiecesOfAppend DEF Time, EndOfLine
  <2>8. \A j \in DOMAIN t : t[j] < n
    BY <2>1, <2>3, <2>6 DEF Time
  <2>9. InOrder(u)
    BY <2>1, <2>3, <2>8, InOrderAppend
  <2> HIDE DEF u, n
  <2>10. Streams'
    <3>1. ASSUME NEW j \in 2..Len(u) PROVE u[j] \in 1..n
      BY <2>1, <2>3, <2>5, <2>6 DEF n
    <3>2. Len(u) > 0 /\ u[1] = Time
      BY <2>1, <2>5, <2>6
    <3> QED
      BY <2>4, <3>1, <3>2 DEF Streams
  <2>11. \A v \in Writers : LinesOf(v)' = LinesOf(v)
    BY <1>0 DEF LinesOf
  <2>12. WholeThread(w)'
    <3>1. /\ \A i, j \in LinesOf(w) : i < j => Before(pushed[i].text, pushed[j].text)
          /\ \A i \in LinesOf(w) : Before(pushed[i].text, mLogMap[w])
          /\ Pieces(mLogMap[w]) \cup UNION {Pieces(pushed[i].text) : i \in LinesOf(w)}
               = 1..said[w]
      BY WholeParts DEF WholeThread
    <3>2. 1..n = 1..said[w] \cup {n} /\ \A x \in 1..said[w] : x < n
      BY <2>3 DEF n
    <3>3. ASSUME NEW i \in LinesOf(w) PROVE Before(pushed[i].text, u)
      <4>1. \A x \in Pieces(pushed[i].text) : x \in 1..said[w]
        BY <3>1
      <4> QED
        BY <2>7, <3>1, <3>2, <4>1 DEF Before
    <3>4. Pieces(u) \cup UNION {Pieces(pushed[i].text) : i \in LinesOf(w)} = 1..n
      BY <2>7, <3>1, <3>2
    <3> QED
      BY <1>0, <2>4, <2>9, <2>11, <3>1, <3>3, <3>4 DEF WholeThread
  <2>13. ASSUME NEW v \in Writers \ {w} PROVE WholeThread(v)'
    <3>1. WholeThread(v)
      BY WholeParts
    <3> QED
      BY <1>0, <2>4, <2>11, <3>1 DEF WholeThread
  <2>14. \A i \in DOMAIN pushed' : WholeLine(pushed'[i].text)
    BY <1>0, WholeParts
  <2>15. LinesAreWhole'
    BY <2>12, <2>13, <2>14, WholeParts DEF LinesAreWhole, WholeLine, WholeThread
  <2> QED
    BY <2>10, <2>15
<1> QED
  BY <1>1, <1>2

\* The stream becomes the last line of its thread, and is left without a piece.
LEMMA LineWhole ==
    ASSUME Safe, Streams, LinesAreWhole, NEW w \in Writers, Line(w)
    PROVE  Streams' /\ LinesAreWhole'
<1>0. said' = said
  BY DEF Line
<1>1. CASE shutdown
  <2>1. UNCHANGED <<mLogMap, said, pushed>>
    BY <1>0, <1>1 DEF Line
  <2> QED
    BY <2>1 DEF Streams, LinesAreWhole, LinesOf
<1>2. CASE ~shutdown
  <2> DEFINE t == getThreadEntry(w)
             u == Append(t, EndOfLine)
             line == [by |-> w, text |-> u]
             n == Len(pushed) + 1
  <2>1. /\ t \in Seq(Int) /\ Len(t) > 0 /\ t[1] = Time /\ InOrder(t)
        /\ \A j \in 2..Len(t) : t[j] \in 1..said[w]
        /\ Pieces(t) = Pieces(mLogMap[w])
    BY EntryFacts
  <2>2. /\ mLogMap' = [mLogMap EXCEPT ![w] = <<Time>>] /\ pushed' = Append(pushed, line)
        /\ mLogMap \in [Writers -> Seq(Int)] /\ pushed \in Seq(Lines)
    BY <1>2 DEF Line, Safe, TypeOK
  <2>3. /\ mLogMap'[w] = <<Time>>
        /\ \A v \in Writers \ {w} : mLogMap'[v] = mLogMap[v]
    BY <2>2
  <2> HIDE DEF t
  <2>4. EndOfLine \in Int /\ EndOfLine <= 0 /\ EndOfLine = -1
    BY DEF EndOfLine
  <2>5. Len(u) = Len(t) + 1 /\ (\A j \in 1..Len(t) : u[j] = t[j]) /\ u[Len(t) + 1] = EndOfLine
    BY <2>1, <2>4
  <2>6. u \in Seq(Int) /\ Len(t) \in Nat
    BY <2>1, <2>4
  <2>7. Pieces(u) = Pieces(mLogMap[w])
    <3>1. Pieces(u) = Pieces(t) \cup ({EndOfLine} \ {Time, EndOfLine})
      BY <2>1, <2>4, PiecesOfAppend
    <3> QED
      BY <2>1, <3>1
  <2>8. InOrder(u)
    BY <2>1, <2>4, InOrderAppend
  <2>9. WholeLine(u)
    <3>1. ASSUME NEW j \in 2..(Len(u) - 1) PROVE u[j] > 0
      BY <2>1, <2>5, <2>6
    <3> QED
      BY <2>1, <2>5, <2>6, <2>8, <3>1 DEF WholeLine
  <2> HIDE DEF u
  <2>10. line \in Lines /\ line.by = w /\ line.text = u
    BY <2>6 DEF Lines
  <2> HIDE DEF line
  <2>11. /\ DOMAIN pushed' = DOMAIN pushed \cup {n} /\ n \notin DOMAIN pushed
         /\ pushed'[n] = line /\ \A i \in DOMAIN pushed : pushed'[i] = pushed[i] /\ i < n
    BY <2>2, <2>10
  <2> HIDE DEF n
  <2>12. /\ LinesOf(w)' = LinesOf(w) \cup {n} /\ LinesOf(w) \subseteq DOMAIN pushed
         /\ \A v \in Writers \ {w} :
               LinesOf(v)' = LinesOf(v) /\ LinesOf(v) \subseteq DOMAIN pushed
    BY <2>10, <2>11 DEF LinesOf
  <2>13. Streams'
    <3>1. Len(<<Time>>) = 1 /\ <<Time>>[1] = Time
      OBVIOUS
    <3>2. \A j \in 2..Len(<<Time>>) : <<Time>>[j] \in 1..said[w]
      OBVIOUS
    <3> QED
      BY <1>0, <2>3, <3>1, <3>2 DEF Streams
  <2>14. WholeThread(w)'
    <3>1. /\ \A i, j \in LinesOf(w) : i < j => Before(pushed[i].text, pushed[j].text)
          /\ \A i \in LinesOf(w) : Before(pushed[i].text, mLogMap[w])
          /\ Pieces(mLogMap[w]) \cup UNION {Pieces(pushed[i].text) : i \in LinesOf(w)}
               = 1..said[w]
      BY WholeParts DEF WholeThread
    <3>2. ASSUME NEW i \in LinesOf(w)', NEW j \in LinesOf(w)', i < j
          PROVE  Before(pushed'[i].text, pushed'[j].text)
      <4>1. i \in LinesOf(w) /\ (j \in LinesOf(w) \/ j = n)
        <5>1. i # n
          <6>1. SUFFICES ASSUME i = n PROVE FALSE
            OBVIOUS
          <6>2. j \in DOMAIN pushed \/ j = n
            BY <2>12
          <6>3. DOMAIN pushed = 1..Len(pushed) /\ Len(pushed) \in Nat
            BY <2>2
          <6> QED
            BY <3>2, <6>1, <6>2, <6>3 DEF n
        <5> QED
          BY <2>12, <5>1
      <4>2. CASE j \in LinesOf(w)
        BY <2>11, <2>12, <3>1, <3>2, <4>1, <4>2
      <4>3. CASE j = n
        BY <2>7, <2>10, <2>11, <2>12, <3>1, <4>1, <4>3 DEF Before
      <4> QED
        BY <4>1, <4>2, <4>3
    <3>3. \A i \in LinesOf(w)' : Before(pushed'[i].text, mLogMap'[w])
      BY <2>3, NoPieces DEF Before
    <3>4. {Pieces(pushed'[i].text) : i \in LinesOf(w)'}
            = {Pieces(pushed[i].text) : i \in LinesOf(w)} \cup {Pieces(u)}
      BY <2>10, <2>11, <2>12
    <3>5. Pieces(mLogMap'[w]) \cup UNION {Pieces(pushed'[i].text) : i \in LinesOf(w)'}
            = 1..said'[w]
      BY <1>0, <2>3, <2>7, <3>1, <3>4, NoPieces
    <3> QED
      BY <2>3, <3>2, <3>3, <3>5, NoPieces DEF WholeThread
  <2>15. ASSUME NEW v \in Writers \ {w} PROVE WholeThread(v)'
    <3>1. WholeThread(v)
      BY WholeParts
    <3>2. \A i \in LinesOf(v) : pushed'[i] = pushed[i]
      BY <2>11, <2>12
    <3>3. {Pieces(pushed'[i].text) : i \in LinesOf(v)'}
            = {Pieces(pushed[i].text) : i \in LinesOf(v)}
      BY <2>12, <3>2
    <3> QED
      BY <1>0, <2>3, <2>12, <3>1, <3>2, <3>3 DEF WholeThread
  <2>16. \A i \in DOMAIN pushed' : WholeLine(pushed'[i].text)
    BY <2>9, <2>10, <2>11, WholeParts
  <2>17. LinesAreWhole'
    BY <2>14, <2>15, <2>16 DEF LinesAreWhole, WholeLine, WholeThread
  <2> QED
    BY <2>13, <2>17
<1> QED
  BY <1>1, <1>2

\* Only these two steps touch the streams and the lines.
LEMMA NextWhole ==
    ASSUME Safe, Streams, LinesAreWhole, [Next]_vars
    PROVE  Streams' /\ LinesAreWhole'
<1>1. ASSUME UNCHANGED <<mLogMap, said, pushed>> PROVE Streams' /\ LinesAreWhole'
  BY <1>1 DEF Streams, LinesAreWhole, LinesOf
<1>2. CASE UNCHANGED vars
  BY <1>1, <1>2 DEF vars, data, queue, streams
<1>3. ASSUME NEW w \in Writers,
             WriterStep(w) \/ (\E op \in {"piece", "line"} : Call(w, op))
      PROVE  Streams' /\ LinesAreWhole'
  <2>1. CASE Piece(w)
    BY <2>1, PieceWhole
  <2>2. CASE Line(w)
    BY <2>2, LineWhole
  <2>3. CASE Enter(w, "piece", "p_in") \/ Enter(w, "line", "l_in")
             \/ (\E op \in {"piece", "line"} : Call(w, op))
    BY <1>1, <2>3 DEF Enter, Lock, Call, data, queue, streams
  <2> QED
    BY <1>3, <2>1, <2>2, <2>3 DEF WriterStep
<1>4. CASE PrinterStep
  BY <1>1, <1>4 DEF PrinterStep, Started, TestShutdown, TestEmpty, PopLock, Pop, PrintLine,
     WaitLock, Lock, Wait, Timeout, Relock, PrinterExit, Detach, ExitNotify, data, queue, streams
<1>5. CASE OwnerStep \/ DestroyLock
  BY <1>1, <1>5 DEF OwnerStep, Create, Assign, Created, SemaphoreWait, DestroyLock, Lock,
     SetShutdown, DestroyWait, FreeStreams, Drain, DeleteThread, data, queue, streams
<1> QED
  BY <1>2, <1>3, <1>4, <1>5 DEF Next, Finished

\* At first there is no stream and no line.
LEMMA InitWhole == Init => Streams /\ LinesAreWhole
<1> SUFFICES ASSUME Init PROVE Streams /\ LinesAreWhole
  OBVIOUS
<1>1. pushed = <<>> /\ DOMAIN pushed = {}
  BY DEF Init
<1>2. \A w \in Writers : mLogMap[w] = <<>> /\ said[w] = 0 /\ LinesOf(w) = {}
  BY <1>1 DEF Init, LinesOf
<1>3. 1..0 = {}
  OBVIOUS
<1>4. \A w \in Writers : WholeThread(w)
  BY <1>2, <1>3, NoPieces DEF WholeThread
<1> QED
  BY <1>1, <1>2, <1>4, WholeParts DEF Streams
----------------------------------------------------------------------------
\* Logger: the control and the exclusion hold in every reachable state.
THEOREM SafeAlways == Spec => []Safe
  BY InitSafe, NextSafe, PTL DEF Spec

\* Logger: the state is well typed; mSemaphore never holds two permits, so the
\* destructor's wait is answered by the printer's exit and by nothing else.
THEOREM LoggerTypeCorrect == Spec => []TypeOK
<1>1. Safe => TypeOK
  BY DEF Safe
<1> QED
  BY SafeAlways, <1>1, PTL

\* Logger: no deleted stream is used, the queue is never popped when empty, and
\* the std::thread handle is detached and deleted at the right time.
THEOREM LoggerNoFault == Spec => []NoFault
<1>1. Safe => NoFault
  BY DEF Safe, Control
<1> QED
  BY SafeAlways, <1>1, PTL

\* Logger: every line that was pushed is printed, held or queued, once and in the
\* order of the pushes.
THEOREM LinesInOrder == Spec => []PrintedInOrder
  BY SafeAlways, InitOrder, NextOrder, PTL DEF Spec

\* Logger: the destructor returns only when the printer is done and everything
\* that was pushed is printed.
THEOREM NothingUnprinted == Spec => []DestroyedMeansPrinted
<1>1. Safe /\ PrintedInOrder => DestroyedMeansPrinted
  <2> SUFFICES ASSUME Safe, PrintedInOrder, owner = "gone"
               PROVE  printer = "t_done" /\ cout = pushed
    BY DEF DestroyedMeansPrinted
  <2>1. printer = "t_done"
    BY DEF Safe, TypeOK, Control, Notifies, Waits
  <2>2. mLogQueue = <<>> /\ InHand = <<>>
    BY <2>1 DEF Safe, Control, InHand
  <2>3. cout \in Seq(Lines) /\ pushed = (cout \o <<>>) \o <<>>
    BY <2>2 DEF PrintedInOrder, Safe, TypeOK
  <2> QED
    BY <2>1, <2>3
<1> QED
  BY SafeAlways, LinesInOrder, <1>1, PTL
\* Logger: every line is the time, the pieces of one thread in the order it wrote
\* them and the end of line; no piece is lost, repeated or moved to another line,
\* for any number of threads, pieces and lines.
THEOREM EveryLineIsWhole == Spec => []LinesAreWhole
  BY SafeAlways, InitWhole, NextWhole, PTL DEF Spec
============================================================================
