--------------------------- MODULE FsWatchProofs ---------------------------
(***************************************************************************)
(* Proofs about FsWatch.tla, for every file system and every sequence of   *)
(* changes to it.  The first part, up to NoDirectoryIsForgotten, is about  *)
(* the kernel's side and takes the tree as opaque.  The books that         *)
(* addWatch and dropCbk keep are about what the tree holds, and rest on    *)
(* the shape that DirTreeProofs proves of its operations.                  *)
(***************************************************************************)
EXTENDS FsWatch, DirTreeProofs, TLAPS, FiniteSetTheorems, SequenceTheorems, WellFoundedInduction

\* The roots that getFullPath treats right: those that do not end in a slash.
PlainRoots == \A r \in Roots : Last(r) # ""

Paths  == DirPaths \cup {<<>>}
Kinds  == {"mkdir", "rmdir", "write", "unlink", "self"}
Events == [dir : Paths, kind : Kinds, name : Names]
Places == {"new", "initwalk", "ready", "check", "epoll", "next", "read", "handle",
           "stopped", "destroyed", "exit", "crash"}
Instances == [on : (Paths \X Nat) \cup {NULL}, queue : Seq(Events)]
Entries == [kind : {"open", "dir", "list", "file"}, key : Seq(Names)]

\* The string of a path below a root that does not end in a slash.
Key(path) == root \o path
-----------------------------------------------------------------------------
(* The parts of the inductive invariant *)

WorldOK ==
    /\ DOMAIN dirs \subseteq Paths /\ <<>> \in DOMAIN dirs
    /\ dirs \in [DOMAIN dirs -> Paths \X Nat] /\ \A p \in DOMAIN dirs : dirs[p][1] = p
    /\ \A p \in DOMAIN dirs \ {<<>>} : Front(p) \in DOMAIN dirs
    /\ files \subseteq FilePaths /\ \A f \in files : Front(f) \in DOMAIN dirs
    /\ ops \in Nat

BooksOK ==
    /\ DOMAIN inst \subseteq Fds /\ inst \in [DOMAIN inst -> Instances]
    /\ DOMAIN map \subseteq Fds /\ map \in [DOMAIN map -> Seq(Names)]
    /\ epoll \subseteq Fds
    /\ set \subseteq Seq(Names)

MembersOK ==
    /\ root \in Roots
    /\ onEmptyDir \in BOOLEAN /\ stopWatching \in BOOLEAN /\ removed \in BOOLEAN
    /\ pc \in Places
    /\ batch \in Seq(Fds)
    /\ buf \in Seq(Events)
    /\ walk \in Seq(Entries)

TypeOK == WorldOK /\ BooksOK /\ MembersOK

\* The descriptor whose events are being handled is one of the map.
BatchOK == pc \in {"read", "handle"} => batch # <<>> /\ Head(batch) \in DOMAIN map

\* The words that tell the truth: while no directory has been removed ...
Intact == ~removed /\ pc # "destroyed"

\* ... an event is about something below the directory that its instance
\* watches, and the directory that a mkdir announces is there;
Truthful(event, key, r, there) ==
    /\ key = r \o event.dir
    /\ event.kind \in {"mkdir", "write", "unlink"}
    /\ event.kind = "mkdir" => Append(event.dir, event.name) \in there

\* every instance watches a directory that is there, and the map knows which;
\* no directory has two.
Watching ==
    /\ DOMAIN map = DOMAIN inst /\ epoll = DOMAIN inst
    /\ \A fd \in DOMAIN inst :
          /\ \E p \in DOMAIN dirs : inst[fd].on = dirs[p] /\ map[fd] = Key(p)
          /\ \A event \in Range(inst[fd].queue) : Truthful(event, map[fd], root, DOMAIN dirs)
    /\ \A fd, other \in DOMAIN map : map[fd] = map[other] => fd = other
    /\ set = {map[fd] : fd \in DOMAIN map}

\* The events being handled are of the descriptor at the head of the batch, and
\* the walk is over directories that are there.
Handling ==
    /\ pc \notin {"handle", "exit", "crash"} => buf = <<>>
    /\ pc \notin {"initwalk", "handle", "exit", "crash"} => walk = <<>>
    /\ pc = "handle" => \A event \in Range(buf) :
                           Truthful(event, map[Head(batch)], root, DOMAIN dirs)
    /\ \A e \in Range(walk) :
          /\ e.kind # "file" => \E p \in DOMAIN dirs : e.key = Key(p)
          /\ e.kind = "open" => Tail(walk) = <<>>

Reported == lies = {}

\* A directory that is not watched yet will be: the root when init runs, any other
\* when its parent is, or by the event of its creation, or by the walk, which has
\* it or has yet to list its parent; of a hidden one nothing is promised.
Born(p) == Event(Front(p), "mkdir", Last(p))
Coming(p) ==
    \/ p = <<>> /\ pc = "new"
    \/ /\ p # <<>>
       /\ \/ Last(p) \in DotNames
          \/ Key(Front(p)) \notin set
          \/ \E fd \in DOMAIN inst : Born(p) \in Range(inst[fd].queue)
          \/ Born(p) \in Range(buf)
          \/ Entry("dir", Key(p)) \in Range(walk)
          \/ \E kind \in {"open", "dir", "list"} : Entry(kind, Key(Front(p))) \in Range(walk)

NoneForgotten ==
    pc \notin {"exit", "crash"} => \A p \in DOMAIN dirs : Key(p) \notin set => Coming(p)

Base == TypeOK /\ BatchOK /\ EpollOpen
Inv == Base /\ (Intact => Watching /\ Handling /\ Reported) /\ PathsTrue
FullInv == Inv /\ (Intact => NoneForgotten)
-----------------------------------------------------------------------------
(* Sequences, and the strings of paths *)

LEMMA RangeOfEmpty == Range(<<>>) = {}
  BY DEF Range

\* An event that is queued is the only one that a queue gains.
LEMMA RangeOfAppend ==
  ASSUME NEW S, NEW s \in Seq(S), NEW e \in S
  PROVE  Range(Append(s, e)) = Range(s) \cup {e}
  BY AppendProperties, LenProperties DEF Range

LEMMA RangeOfHeadTail ==
  ASSUME NEW S, NEW s \in Seq(S), s # <<>>
  PROVE  /\ Head(s) \in S /\ Tail(s) \in Seq(S)
         /\ Range(s) = {Head(s)} \cup Range(Tail(s))
  <1>1. /\ Head(s) \in S /\ Tail(s) \in Seq(S) /\ Len(s) \in Nat \ {0}
        /\ DOMAIN s = 1 .. Len(s) /\ DOMAIN Tail(s) = 1 .. Len(s) - 1
        /\ \A i \in 1 .. Len(s) - 1 : Tail(s)[i] = s[i + 1]
        /\ Head(s) = s[1]
    BY HeadTailProperties, LenProperties, EmptySeq
  <1>2. ASSUME NEW i \in 1 .. Len(s), i # 1
        PROVE  s[i] \in Range(Tail(s))
    <2>1. i - 1 \in 1 .. Len(s) - 1 /\ s[i] = Tail(s)[i - 1]
      BY <1>1, <1>2
    <2>2. QED
      BY <1>1, <2>1 DEF Range
  <1>3. Range(Tail(s)) \subseteq Range(s)
    BY <1>1 DEF Range
  <1>4. Head(s) \in Range(s)
    BY <1>1 DEF Range
  <1>5. Range(s) \subseteq {Head(s)} \cup Range(Tail(s))
    BY <1>1, <1>2 DEF Range
  <1>6. QED
    BY <1>1, <1>3, <1>4, <1>5

LEMMA RangeOfSingle ==
  ASSUME NEW e
  PROVE  Range(<<e>>) = {e}
  BY DEF Range

-----------------------------------------------------------------------------
(* The facts about paths and keys that every step uses *)

LEMMA PathTypes ==
  /\ Paths \subseteq Seq(Names) /\ FilePaths \subseteq Seq(Names) \ {<<>>}
  /\ DirPaths \subseteq Seq(Names) \ {<<>>} /\ Roots \subseteq Seq(Names) \ {<<>>}
  /\ DirPaths \subseteq Paths /\ <<>> \in Paths /\ <<>> \in Seq(Names)
  <1>1. Seq(STRING) \subseteq Seq(Names)
    BY SeqMonotonic DEF Names
  <1>2. QED
    BY <1>1, NamesAreStrings, EmptySeq DEF Paths

LEMMA KeyFacts ==
  ASSUME PlainRoots, root \in Roots
  PROVE  /\ Last(root) # ""
         /\ Key(<<>>) = root
         /\ \A p \in Seq(Names) : Key(p) \in Seq(Names) /\ TrueKey(p) = Key(p)
         /\ \A p, q \in Seq(Names) : Key(p) = Key(q) => p = q
         /\ \A p \in Seq(Names), name \in Names :
               Append(Key(p), name) = Key(Append(p, name))
  <1>1. root \in Seq(Names) /\ Last(root) # ""
    BY PathTypes DEF PlainRoots
  <1>2. Key(<<>>) = root
    BY <1>1, ConcatEmptySeq DEF Key
  <1>3. \A p \in Seq(Names) : Key(p) \in Seq(Names) /\ TrueKey(p) = Key(p)
    BY <1>1, ConcatProperties DEF Key, TrueKey
  <1>4. \A p, q \in Seq(Names) : Key(p) = Key(q) => p = q
    BY <1>1, KeyInjective DEF Key
  <1>5. \A p \in Seq(Names), name \in Names : Append(Key(p), name) = Key(Append(p, name))
    <2> TAKE p \in Seq(Names), name \in Names
    <2>0. root \in Seq(Names)
      BY <1>1
    <2>1. root \o p \in Seq(Names) /\ <<name>> \in Seq(Names)
      BY ONLY <2>0, p \in Seq(Names), name \in Names, ConcatProperties
    <2>2. /\ Append(root \o p, name) = (root \o p) \o <<name>>
          /\ Append(p, name) = p \o <<name>>
      BY <2>1, AppendIsConcat
    <2>3. (root \o p) \o <<name>> = root \o (p \o <<name>>)
      BY ONLY <2>0, <2>1, p \in Seq(Names), ConcatAssociative
    <2>4. QED
      BY <2>2, <2>3 DEF Key
  <1>6. QED
    BY <1>1, <1>2, <1>3, <1>4, <1>5

\* The kernel finds the directory that a key names, and no other.
LEMMA LookupOfKey ==
  ASSUME PlainRoots, TypeOK, NEW p \in DOMAIN dirs
  PROVE  Lookup(Key(p)) = {p}
  <1>1. DOMAIN dirs \subseteq Seq(Names) /\ root \in Roots /\ <<>> \in Seq(Names)
    BY PathTypes DEF TypeOK, WorldOK, MembersOK
  <1>2. ASSUME NEW q \in DOMAIN dirs
        PROVE  TrueKey(q) = Key(p) \/ (q = <<>> /\ Key(p) = root) <=> q = p
    BY <1>1, KeyFacts
  <1>3. QED
    BY <1>2 DEF Lookup

LEMMA InsertedFacts ==
  ASSUME NEW f, NEW x, NEW v, x \notin DOMAIN f
  PROVE  /\ DOMAIN Inserted(f, x, v) = DOMAIN f \cup {x}
         /\ Inserted(f, x, v)[x] = v
         /\ \A y \in DOMAIN f : Inserted(f, x, v)[y] = f[y]
  BY DEF Inserted

LEMMA InsertedType ==
  ASSUME NEW f, NEW x, NEW v, NEW S, f \in [DOMAIN f -> S], v \in S
  PROVE  /\ Inserted(f, x, v) \in [DOMAIN Inserted(f, x, v) -> S]
         /\ DOMAIN Inserted(f, x, v) = DOMAIN f \cup {x}
  BY DEF Inserted

\* inotify_init returns a descriptor that is free, if there is one.
LEMMA FreeFd ==
  ASSUME ~ Fds \subseteq DOMAIN inst
  PROVE  Min(Fds \ DOMAIN inst) \in Fds \ DOMAIN inst
  <1>1. Fds \ DOMAIN inst \subseteq Nat /\ Fds \ DOMAIN inst # {}
    BY SomeInstances DEF Fds
  <1>2. \E n \in Fds \ DOMAIN inst : \A m \in Fds \ DOMAIN inst : n <= m
    BY <1>1, LeastNumber
  <1>3. QED
    BY <1>2 DEF Min
-----------------------------------------------------------------------------
(* Base: types, the descriptor being handled, epoll's descriptors *)

\* A queued event is well formed, and nothing else of an instance changes.
LEMMA NotifyType ==
  ASSUME TypeOK, NEW path \in DOMAIN dirs, NEW kind \in Kinds, NEW name \in Names
  PROVE  /\ Notify(path, kind, name) \in [DOMAIN inst -> Instances]
         /\ Event(path, kind, name) \in Events
         /\ \A fd \in DOMAIN inst :
               /\ Notify(path, kind, name)[fd].on = inst[fd].on
               /\ Notify(path, kind, name)[fd].queue =
                    IF inst[fd].on = dirs[path]
                    THEN Append(inst[fd].queue, Event(path, kind, name)) ELSE inst[fd].queue
  <1>1. Event(path, kind, name) \in Events
    BY DEF Event, Events, TypeOK, WorldOK
  <1>2. ASSUME NEW fd \in DOMAIN inst
        PROVE  /\ inst[fd] \in Instances
               /\ Append(inst[fd].queue, Event(path, kind, name)) \in Seq(Events)
    <2>1. inst[fd] \in Instances
      BY DEF TypeOK, BooksOK
    <2>2. inst[fd].queue \in Seq(Events)
      BY <2>1 DEF Instances
    <2>3. QED
      BY <1>1, <2>1, <2>2, AppendProperties
  <1>3. QED
    BY <1>1, <1>2 DEF Notify, Instances

LEMMA MkdirBase ==
  ASSUME Base, NEW path \in DirPaths, Mkdir(path)
  PROVE  Base'
  <1> USE DEF Base
  <1>0. path \in Seq(Names) \ {<<>>} /\ Front(path) \in DOMAIN dirs /\ Last(path) \in Names
    BY PathTypes, ParentAndName DEF Mkdir
  <1>1. ops \in Nat /\ ops' = ops + 1 /\ ops' \in Nat
    BY DEF Mkdir, Change, TypeOK, WorldOK
  <1>2. path \notin DOMAIN dirs /\ dirs' = Inserted(dirs, path, <<path, ops'>>)
    BY DEF Mkdir
  <1>3. /\ DOMAIN dirs' = DOMAIN dirs \cup {path} /\ dirs'[path] = <<path, ops'>>
        /\ \A p \in DOMAIN dirs : dirs'[p] = dirs[p]
    BY <1>2 DEF Inserted
  <1>4. dirs' \in [DOMAIN dirs' -> Paths \X Nat]
    <2>1. <<path, ops'>> \in Paths \X Nat /\ dirs \in [DOMAIN dirs -> Paths \X Nat]
      BY <1>1, PathTypes DEF TypeOK, WorldOK
    <2>2. QED
      BY <1>2, <2>1, InsertedType
  <1>5. WorldOK'
    <2>1. \A p \in DOMAIN dirs' : dirs'[p][1] = p
      BY <1>3 DEF TypeOK, WorldOK
    <2>2. \A p \in DOMAIN dirs' \ {<<>>} : Front(p) \in DOMAIN dirs'
      BY <1>0, <1>3 DEF TypeOK, WorldOK
    <2>3. DOMAIN dirs' \subseteq Paths /\ <<>> \in DOMAIN dirs'
      BY <1>3, PathTypes DEF TypeOK, WorldOK
    <2>4. files' \subseteq FilePaths /\ \A f \in files' : Front(f) \in DOMAIN dirs'
      BY <1>3 DEF Mkdir, TypeOK, WorldOK
    <2>5. QED
      BY <1>1, <1>4, <2>1, <2>2, <2>3, <2>4 DEF WorldOK
  <1>6. inst' \in [DOMAIN inst -> Instances]
    BY <1>0, NotifyType DEF Mkdir, Kinds
  <1>7. BooksOK' /\ MembersOK'
    BY <1>6 DEF TypeOK, BooksOK, MembersOK, Mkdir, watched, control, ghosts
  <1>8. QED
    BY <1>5, <1>6, <1>7 DEF TypeOK, BatchOK, EpollOpen, Mkdir, watched, control

LEMMA RmdirBase ==
  ASSUME Base, NEW path \in DirPaths, Rmdir(path)
  PROVE  Base'
  <1> USE DEF Base
  <1>0. /\ path \in Seq(Names) \ {<<>>} /\ path \in Paths /\ Last(path) \in Names
        /\ path \in DOMAIN dirs /\ Front(path) \in DOMAIN dirs /\ "" \in Names
    <2>1. path \in DOMAIN dirs \ {<<>>}
      BY DEF Rmdir
    <2>2. path \in Seq(Names) \ {<<>>} /\ path \in Paths
      BY PathTypes
    <2>3. Last(path) \in Names
      BY <2>2, ParentAndName
    <2>4. "" \in Names
      BY DEF Names
    <2>5. Front(path) \in DOMAIN dirs
      BY <2>1 DEF TypeOK, WorldOK
    <2>6. QED
      BY <2>1, <2>2, <2>3, <2>4, <2>5
  <1>1. ops \in Nat /\ ops' = ops + 1 /\ ops' \in Nat
    <2>1. ops \in Nat
      BY DEF TypeOK, WorldOK
    <2>2. ops' = ops + 1
      BY DEF Rmdir, Change
    <2>3. QED
      BY <2>1, <2>2
  <1>2. WorldOK'
    <2>1. /\ DOMAIN dirs' = DOMAIN dirs \ {path} /\ \A p \in DOMAIN dirs' : dirs'[p] = dirs[p]
          /\ dirs' \in [DOMAIN dirs' -> Paths \X Nat]
      BY DEF Rmdir, TypeOK, WorldOK
    <2>2. \A p \in DOMAIN dirs' \ {<<>>} : Front(p) \in DOMAIN dirs'
      BY <1>0, <2>1 DEF Rmdir, TypeOK, WorldOK
    <2>3. DOMAIN dirs' \subseteq Paths /\ <<>> \in DOMAIN dirs'
      BY <1>0, <2>1 DEF TypeOK, WorldOK
    <2>4. files' \subseteq FilePaths /\ \A f \in files' : Front(f) \in DOMAIN dirs'
      BY <1>0, <2>1, PathTypes DEF Rmdir, TypeOK, WorldOK
    <2>5. \A p \in DOMAIN dirs' : dirs'[p][1] = p
      BY <2>1 DEF TypeOK, WorldOK
    <2>6. QED
      BY <1>1, <2>1, <2>2, <2>3, <2>4, <2>5 DEF WorldOK
  <1>3. inst' \in [DOMAIN inst -> Instances]
    <2> DEFINE told == Notify(Front(path), "rmdir", Last(path))
    <2>1. told \in [DOMAIN inst -> Instances]
      BY <1>0, NotifyType DEF Kinds
    <2>2. Event(path, "self", "") \in Events
      BY <1>0 DEF Event, Events, Kinds
    <2>3. inst' = [fd \in DOMAIN told |->
                      IF told[fd].on = dirs[path]
                      THEN [on    |-> NULL,
                            queue |-> Append(told[fd].queue, Event(path, "self", ""))]
                      ELSE told[fd]]
      BY DEF Rmdir
    <2> HIDE DEF told
    <2>4. ASSUME NEW fd \in DOMAIN inst
          PROVE  told[fd] \in Instances /\ Append(told[fd].queue, Event(path, "self", "")) \in Seq(Events)
      <3>1. told[fd] \in Instances /\ told[fd].queue \in Seq(Events)
        BY <2>1 DEF Instances
      <3>2. QED
        BY <2>2, <3>1, AppendProperties
    <2>5. QED
      BY <2>1, <2>3, <2>4 DEF Instances
  <1>4. BooksOK' /\ MembersOK'
    BY <1>3 DEF TypeOK, BooksOK, MembersOK, Rmdir, watched, control
  <1>5. QED
    BY <1>2, <1>3, <1>4 DEF TypeOK, BatchOK, EpollOpen, Rmdir, watched, control

LEMMA WriteFileBase ==
  ASSUME Base, NEW path \in FilePaths, WriteFile(path) \/ Unlink(path)
  PROVE  Base'
  <1> USE DEF Base
  <1>0. Last(path) \in Names /\ Front(path) \in DOMAIN dirs
    BY PathTypes, ParentAndName DEF WriteFile, Unlink, TypeOK, WorldOK
  <1>1. ops \in Nat /\ ops' = ops + 1 /\ ops' \in Nat
    BY DEF WriteFile, Unlink, Change, TypeOK, WorldOK
  <1>2. WorldOK'
    BY <1>1 DEF WriteFile, Unlink, TypeOK, WorldOK
  <1>3. inst' \in [DOMAIN inst -> Instances]
    <2>1. CASE WriteFile(path)
      BY <1>0, <2>1, NotifyType DEF WriteFile, Kinds
    <2>2. CASE Unlink(path)
      BY <1>0, <2>2, NotifyType DEF Unlink, Kinds
    <2>3. QED
      BY <2>1, <2>2
  <1>4. BooksOK' /\ MembersOK'
    BY <1>3 DEF TypeOK, BooksOK, MembersOK, WriteFile, Unlink, watched, control, ghosts
  <1>5. QED
    BY <1>2, <1>3, <1>4 DEF TypeOK, BatchOK, EpollOpen, WriteFile, Unlink, watched, control

\* addWatch: the books stay well formed, and epoll gains only what the other
\* books gain.
LEMMA AddWatchBase ==
  ASSUME TypeOK, EpollOpen, NEW dir \in Seq(Names), NEW next, addWatch(dir, next)
  PROVE  BooksOK' /\ EpollOpen' /\ pc' \in {next, "exit"} /\ DOMAIN map \subseteq DOMAIN map'
  <1>1. CASE UNCHANGED <<kernel, watched>> /\ pc' \in {next, "exit"}
    BY <1>1 DEF TypeOK, BooksOK, EpollOpen, kernel, watched
  <1>2. CASE ~ Fds \subseteq DOMAIN inst /\ dir \notin set /\ pc' = next /\ set' = set \cup {dir}
    <2> DEFINE fd == Min(Fds \ DOMAIN inst)
               inode == IF Lookup(dir) = {} THEN NULL
                        ELSE dirs[CHOOSE p \in Lookup(dir) : TRUE]
               new == [on |-> inode, queue |-> <<>>]
    <2>1. fd \in Fds \ DOMAIN inst
      BY <1>2, FreeFd
    <2>2. \/ UNCHANGED <<kernel, watched>>
          \/ /\ inst' = Inserted(inst, fd, new) /\ map' = Inserted(map, fd, dir)
             /\ epoll' = epoll \cup {fd}
      BY <1>2 DEF addWatch
    <2>3. new \in Instances
      <3>1. inode \in (Paths \X Nat) \cup {NULL}
        BY DEF Lookup, TypeOK, WorldOK
      <3>2. <<>> \in Seq(Events)
        BY EmptySeq
      <3> HIDE DEF inode
      <3>3. QED
        BY <3>1, <3>2 DEF Instances
    <2> HIDE DEF fd, new
    <2>4. CASE UNCHANGED <<kernel, watched>>
      BY <1>2, <2>4 DEF TypeOK, BooksOK, EpollOpen, kernel, watched
    <2>5. CASE /\ inst' = Inserted(inst, fd, new) /\ map' = Inserted(map, fd, dir)
               /\ epoll' = epoll \cup {fd}
      <3>1. /\ inst' \in [DOMAIN inst' -> Instances] /\ DOMAIN inst' = DOMAIN inst \cup {fd}
            /\ map' \in [DOMAIN map' -> Seq(Names)] /\ DOMAIN map' = DOMAIN map \cup {fd}
        BY <2>3, <2>5, InsertedType DEF TypeOK, BooksOK
      <3>2. QED
        BY <1>2, <2>1, <2>5, <3>1 DEF TypeOK, BooksOK, EpollOpen
    <2>6. QED
      BY <2>2, <2>4, <2>5
  <1>3. QED
    BY <1>1, <1>2 DEF addWatch

\* removeWatch: whatever the tree calls dropCbk for.
LEMMA RemoveWatchBase ==
  ASSUME TypeOK, EpollOpen, NEW dir, NEW next, removeWatch(dir, next)
  PROVE  BooksOK' /\ EpollOpen' /\ pc' \in {next, "crash"} /\ map' = map
  <1>1. CASE UNCHANGED <<kernel, watched>> /\ pc' = "crash"
    BY <1>1 DEF TypeOK, BooksOK, EpollOpen, kernel, watched
  <1>2. CASE /\ \E fds, paths : /\ set' = set \ paths /\ epoll' = epoll \ fds
                                /\ inst' = [fd \in DOMAIN inst \ fds |-> inst[fd]]
             /\ map' = map /\ pc' = next
    <2> PICK fds, paths : /\ set' = set \ paths /\ epoll' = epoll \ fds
                          /\ inst' = [fd \in DOMAIN inst \ fds |-> inst[fd]]
      BY <1>2
    <2>1. inst' \in [DOMAIN inst' -> Instances] /\ DOMAIN inst' = DOMAIN inst \ fds
      BY DEF TypeOK, BooksOK
    <2>2. QED
      BY <1>2, <2>1 DEF TypeOK, BooksOK, EpollOpen
  <1>3. QED
    <2> DEFINE calls == drop(tree, dir).calls
    <2>1. removeWatch(dir, next) <=>
            \/ (\E c \in calls : c.data = NULL) /\ pc' = "crash" /\ UNCHANGED <<kernel, watched>>
            \/ /\ \A c \in calls : c.data # NULL
               /\ set' = set \ {c.path : c \in calls}
               /\ epoll' = epoll \ {c.data.fd : c \in calls}
               /\ inst' = [fd \in DOMAIN inst \ {c.data.fd : c \in calls} |-> inst[fd]]
               /\ tree' = drop(tree, dir).tree /\ pc' = next /\ UNCHANGED map
      BY DEF removeWatch
    <2>2. QED
      BY <1>1, <1>2, <2>1

\* The sequences of SetToSeqs hold every member of the set.
LEMMA OrderOfSet ==
  ASSUME NEW S, IsFiniteSet(S), NEW order \in SetToSeqs(S)
  PROVE  order \in Seq(S) /\ Range(order) = S
  <1> DEFINE n == Cardinality(S)
  <1>1. n \in Nat
    BY FS_CardinalityType
  <1>2. order \in [1 .. n -> S] /\ \A i, j \in 1 .. n : i # j => order[i] # order[j]
    BY DEF SetToSeqs
  <1>3. IsFiniteSet(1 .. n) /\ Cardinality(1 .. n) = n
    <2>1. /\ IsFiniteSet(1 .. n)
          /\ Cardinality(1 .. n) = IF 1 > n THEN 0 ELSE n - 1 + 1
      BY <1>1, FS_Interval
    <2>2. QED
      BY <1>1, <2>1
  <1>4. order \in Injection(1 .. n, S)
    BY <1>2 DEF Injection, IsInjective
  <1>5. order \in Surjection(1 .. n, S)
    BY <1>3, <1>4, FS_Injection
  <1>6. order \in Seq(S)
    BY <1>1, <1>2, SeqDef
  <1>7. Range(order) = S
    BY <1>2, <1>5 DEF Range, Surjection
  <1>8. QED
    BY <1>6, <1>7

\* What fts_build finds in a directory.
Here(key) == IF Last(key) = "" THEN Front(key) ELSE key
Children(key, paths) == {p \in paths \ {<<>>} : Lookup(key) = {Front(p)}}
Found(key, kind, paths) == {Entry(kind, Append(Here(key), Last(p))) : p \in Children(key, paths)}

LEMMA FoundFinite ==
  ASSUME NEW key, NEW kind, NEW paths, IsFiniteSet(paths)
  PROVE  IsFiniteSet(Found(key, kind, paths))
  <1> DEFINE C == Children(key, paths)
             f == [p \in C |-> Entry(kind, Append(Here(key), Last(p)))]
  <1>1. IsFiniteSet(C)
    <2>1. C \in SUBSET paths
      BY DEF Children
    <2>2. QED
      BY <2>1, FS_Subset
  <1>2. f \in Surjection(C, Found(key, kind, paths))
    BY DEF Surjection, Found
  <1> HIDE DEF f, C
  <1>3. QED
    BY <1>1, <1>2, FS_Surjection

LEMMA ListedEntries ==
  ASSUME TypeOK, walk # <<>>, ListDir
  PROVE  LET key == Head(walk).key
         IN  \E order \in Seq(Entries) :
                /\ Range(order) = Found(key, "dir", DOMAIN dirs) \cup Found(key, "file", files)
                /\ walk' = order \o Tail(walk)
  <1> DEFINE key == Head(walk).key
             entries == Found(key, "dir", DOMAIN dirs) \cup Found(key, "file", files)
  <1>1. key \in Seq(Names)
    <2>1. Head(walk) \in Entries
      BY RangeOfHeadTail DEF TypeOK, MembersOK
    <2>2. QED
      BY <2>1 DEF Entries
  <1> HIDE DEF key
  <1>2. Here(key) \in Seq(Names)
    <2>1. Len(key) \in Nat /\ \A i \in 1 .. Len(key) : key[i] \in Names
      BY <1>1, LenProperties
    <2>2. \A i \in 1 .. Len(key) - 1 : key[i] \in Names
      BY <2>1
    <2>3. Front(key) \in Seq(Names)
      BY <2>1, <2>2, SubSeqProperties DEF Front
    <2>4. QED
      BY <1>1, <2>3 DEF Here
  <1>3. IsFiniteSet(DOMAIN dirs) /\ IsFiniteSet(files)
    <2>1. IsFiniteSet(Paths)
      BY NamesAreStrings, FS_AddElement DEF Paths
    <2>2. DOMAIN dirs \in SUBSET Paths /\ files \in SUBSET FilePaths
      BY DEF TypeOK, WorldOK
    <2>3. QED
      BY <2>1, <2>2, NamesAreStrings, FS_Subset
  <1>4. IsFiniteSet(entries)
    BY <1>3, FoundFinite, FS_Union
  <1>5. entries \subseteq Entries
    <2>1. ASSUME NEW p \in (DOMAIN dirs \cup files) \ {<<>>}
          PROVE  Append(Here(key), Last(p)) \in Seq(Names)
      <3>1. p \in Seq(Names)
        BY PathTypes DEF TypeOK, WorldOK
      <3>2. Last(p) \in Names
        BY <3>1, ParentAndName
      <3>3. QED
        BY <1>2, <3>2, AppendProperties
    <2>2. QED
      BY <2>1 DEF Found, Children, Entry, Entries
  <1>6. \E order \in SetToSeqs(entries) : walk' = order \o Tail(walk)
    BY DEF ListDir, Found, Children, Here, key
  <1>7. PICK order \in SetToSeqs(entries) : walk' = order \o Tail(walk)
    BY <1>6
  <1> HIDE DEF entries
  <1>8. order \in Seq(entries) /\ Range(order) = entries
    BY <1>4, OrderOfSet
  <1>9. order \in Seq(Entries)
    BY <1>5, <1>8, SeqMonotonic
  <1>10. QED
    BY <1>7, <1>8, <1>9 DEF entries, key

LEMMA WalkBase ==
  ASSUME Base, Walk
  PROVE  Base'
  <1> USE DEF Base
  <1>1. /\ Head(walk) \in Entries /\ Tail(walk) \in Seq(Entries) /\ walk # <<>>
        /\ Head(walk).key \in Seq(Names)
    <2>1. walk \in Seq(Entries) /\ walk # <<>>
      BY DEF TypeOK, MembersOK, Walk
    <2>2. Head(walk) \in Entries /\ Tail(walk) \in Seq(Entries)
      BY <2>1, RangeOfHeadTail
    <2>3. QED
      BY <2>1, <2>2 DEF Entries
  <1>2. ASSUME BooksOK', EpollOpen', pc' \in {pc, "exit"}, DOMAIN map \subseteq DOMAIN map',
               walk' \in Seq(Entries)
        PROVE  Base'
    BY <1>2 DEF TypeOK, WorldOK, MembersOK, BatchOK, Walk, world, ghosts, Places
  <1>3. ASSUME UNCHANGED <<kernel, map, set, pc>>
        PROVE  /\ BooksOK' /\ EpollOpen' /\ pc' \in {pc, "exit"}
               /\ DOMAIN map \subseteq DOMAIN map'
    BY <1>3 DEF TypeOK, BooksOK, EpollOpen, kernel
  <1>4. CASE OpenWalk
    <2>1. UNCHANGED <<kernel, map, set, pc>>
      BY <1>4 DEF OpenWalk, watched
    <2>2. walk' \in Seq(Entries)
      <3>1. ASSUME NEW kind \in {"dir", "file"}
            PROVE  <<Entry(kind, Head(walk).key)>> \in Seq(Entries)
        BY <1>1 DEF Entry, Entries
      <3>2. QED
        BY <1>4, <3>1 DEF OpenWalk
    <2>3. QED
      BY <1>2, <1>3, <2>1, <2>2
  <1>5. CASE VisitDir
    <2>1. walk' \in Seq(Entries)
      <3>1. <<Entry("list", Head(walk).key)>> \in Seq(Entries)
        BY <1>1 DEF Entry, Entries
      <3>2. QED
        BY <1>1, <1>5, <3>1, ConcatProperties DEF VisitDir
    <2>2. CASE UNCHANGED <<kernel, watched, pc>>
      BY <1>2, <1>3, <2>1, <2>2 DEF watched
    <2>3. CASE addWatch(Head(walk).key, pc)
      BY <1>1, <1>2, <2>1, <2>3, AddWatchBase
    <2>4. QED
      BY <1>5, <2>2, <2>3 DEF VisitDir
  <1>6. CASE VisitFile
    BY <1>1, <1>2, <1>3, <1>6 DEF VisitFile
  <1>7. CASE ListDir
    <2>1. walk' \in Seq(Entries)
      BY <1>1, <1>7, ListedEntries, ConcatProperties
    <2>2. UNCHANGED <<kernel, map, set, pc>>
      BY <1>7 DEF ListDir, watched
    <2>3. QED
      BY <1>2, <1>3, <2>1, <2>2
  <1>8. QED
    BY <1>4, <1>5, <1>6, <1>7 DEF Walk

LEMMA ClientBase ==
  ASSUME Base,
         FsWatchInit \/ InitDone \/ OnEmptyDirCbk \/ Start \/ Destroy \/ RemoveRoot
  PROVE  Base'
  <1> USE DEF Base
  <1>1. CASE FsWatchInit
    <2>1. root \in Seq(Names) /\ root \in Roots
      BY PathTypes DEF TypeOK, MembersOK
    <2>2. BooksOK' /\ EpollOpen' /\ pc' \in {"initwalk", "exit"}
      BY <1>1, <2>1, AddWatchBase DEF FsWatchInit
    <2>3. walk' \in Seq(Entries)
      <3>1. Entry("open", root) \in Entries
        BY <2>1 DEF Entry, Entries
      <3>2. QED
        BY <1>1, <3>1 DEF FsWatchInit
    <2>4. QED
      BY <1>1, <2>2, <2>3
      DEF FsWatchInit, TypeOK, WorldOK, MembersOK, BatchOK, world, ghosts, Places
  <1>2. CASE InitDone \/ OnEmptyDirCbk \/ Start \/ Destroy
    BY <1>2 DEF InitDone, OnEmptyDirCbk, Start, Destroy, TypeOK, WorldOK, BooksOK, MembersOK,
       BatchOK, EpollOpen, world, kernel, watched, control, ghosts, Places
  <1>3. CASE RemoveRoot
    <2>1. BooksOK' /\ EpollOpen' /\ pc' \in {"destroyed", "crash"} /\ map' = map
      BY <1>3, RemoveWatchBase DEF RemoveRoot
    <2>2. QED
      BY <1>3, <2>1
      DEF RemoveRoot, TypeOK, WorldOK, MembersOK, BatchOK, world, control, ghosts, Places
  <1>4. QED
    BY <1>1, <1>2, <1>3

LEMMA LoopBase ==
  ASSUME Base, LoopCheck \/ EpollWait \/ NextFd \/ ReadEvents \/ BufferDone
  PROVE  Base'
  <1> USE DEF Base
  <1>1. CASE LoopCheck \/ BufferDone
    BY <1>1 DEF LoopCheck, BufferDone, TypeOK, WorldOK, BooksOK, MembersOK,
       BatchOK, EpollOpen, world, kernel, watched, control, ghosts, Places
  <1>2. CASE EpollWait
    <2> DEFINE ready == {fd \in epoll : inst[fd].queue # <<>>}
    <2>1. ready \in SUBSET Fds /\ IsFiniteSet(Fds)
      BY SomeInstances, FS_Interval DEF TypeOK, BooksOK, Fds
    <2>2. batch' \in Seq(Fds)
      <3>1. PICK some \in SUBSET ready : batch' \in SetToSeqs(some)
        BY <1>2 DEF EpollWait
      <3>2. some \in SUBSET Fds /\ IsFiniteSet(some)
        BY <2>1, <3>1, FS_Subset
      <3>3. batch' \in Seq(some)
        BY <3>1, <3>2, OrderOfSet
      <3>4. QED
        BY <3>2, <3>3, SeqMonotonic
    <2>3. QED
      BY <1>2, <2>2 DEF EpollWait, TypeOK, WorldOK, BooksOK, MembersOK,
         BatchOK, EpollOpen, world, kernel, watched, ghosts, Places
  <1>3. CASE NextFd
    <2>1. batch # <<>> => Tail(batch) \in Seq(Fds)
      BY RangeOfHeadTail DEF TypeOK, MembersOK
    <2>2. /\ batch' \in Seq(Fds)
          /\ \/ pc' \in {"check", "next"}
             \/ pc' = "read" /\ batch' = batch /\ batch # <<>> /\ Head(batch) \in DOMAIN map
      BY <1>3, <2>1 DEF NextFd, TypeOK, MembersOK
    <2>3. UNCHANGED <<world, kernel, root, onEmptyDir, watched, stopWatching, buf, walk, ghosts>>
      BY <1>3 DEF NextFd
    <2>4. BatchOK'
      BY <2>2, <2>3 DEF BatchOK, watched
    <2>5. QED
      BY <2>2, <2>3, <2>4 DEF TypeOK, WorldOK, BooksOK, MembersOK,
         EpollOpen, world, kernel, watched, ghosts, Places
  <1>4. CASE ReadEvents
    <2>1. /\ Tail(batch) \in Seq(Fds) /\ Head(batch) \in DOMAIN map
      <3>1. batch \in Seq(Fds) /\ batch # <<>> /\ Head(batch) \in DOMAIN map
        BY <1>4 DEF ReadEvents, TypeOK, MembersOK, BatchOK
      <3>2. QED
        BY <3>1, RangeOfHeadTail
    <2>2. ASSUME Head(batch) \in DOMAIN inst
          PROVE  /\ inst[Head(batch)].queue \in Seq(Events)
                 /\ [inst EXCEPT ![Head(batch)].queue = <<>>] \in [DOMAIN inst -> Instances]
      <3>1. <<>> \in Seq(Events) /\ inst[Head(batch)] \in Instances
        BY <2>2, EmptySeq DEF TypeOK, BooksOK
      <3>2. QED
        BY <2>2, <3>1 DEF TypeOK, BooksOK, Instances
    <2>3. /\ inst' \in [DOMAIN inst -> Instances] /\ batch' \in Seq(Fds) /\ buf' \in Seq(Events)
          /\ pc' \in {"exit", "next", "handle"} /\ (pc' = "handle" => batch' = batch)
      BY <1>4, <2>1, <2>2 DEF ReadEvents, TypeOK, BooksOK, MembersOK
    <2>4. UNCHANGED <<world, epoll, root, onEmptyDir, watched, stopWatching, walk, ghosts>>
      BY <1>4 DEF ReadEvents
    <2>5. WorldOK'
      BY <2>4 DEF TypeOK, WorldOK, world
    <2>6. BooksOK' /\ EpollOpen'
      BY <2>3, <2>4 DEF TypeOK, BooksOK, EpollOpen, watched
    <2>7. MembersOK'
      BY <2>3, <2>4 DEF TypeOK, MembersOK, ghosts, Places
    <2>8. BatchOK'
      BY <1>4, <2>3, <2>4 DEF ReadEvents, BatchOK, watched
    <2>9. QED
      BY <2>5, <2>6, <2>7, <2>8 DEF TypeOK
  <1>5. QED
    BY <1>1, <1>2, <1>3, <1>4

\* The string under which an event is handled: its directory's and its name.
LEMMA EventPath ==
  ASSUME PlainRoots, Base, pc = "handle", buf # <<>>
  PROVE  /\ Head(buf) \in Events /\ Tail(buf) \in Seq(Events)
         /\ getFullPath(Head(batch), Head(buf).name) = Append(map[Head(batch)], Head(buf).name)
         /\ getFullPath(Head(batch), Head(buf).name) \in Seq(Names)
  <1>1. Head(buf) \in Events /\ Tail(buf) \in Seq(Events)
    BY RangeOfHeadTail DEF Base, TypeOK, MembersOK
  <1>2. Head(batch) \in DOMAIN map /\ map[Head(batch)] \in Seq(Names)
    BY DEF Base, TypeOK, BooksOK, BatchOK
  <1>3. Last(root) # ""
    BY KeyFacts DEF Base, TypeOK, MembersOK
  <1>4. Head(buf).name \in Names
    BY <1>1 DEF Events
  <1>5. Append(map[Head(batch)], Head(buf).name) \in Seq(Names)
    BY <1>2, <1>4, AppendProperties
  <1>6. QED
    BY <1>1, <1>3, <1>5 DEF getFullPath

LEMMA HandleEventBase ==
  ASSUME PlainRoots, Base, HandleEvent
  PROVE  Base'
  <1> USE DEF Base
  <1> DEFINE event == Head(buf)
             path  == getFullPath(Head(batch), event.name)
  <1>1. /\ pc = "handle" /\ buf # <<>> /\ walk = <<>> /\ buf' = Tail(buf)
        /\ UNCHANGED <<world, root, onEmptyDir, stopWatching, batch>>
    BY DEF HandleEvent
  <1>2. event \in Events /\ buf' \in Seq(Events) /\ path \in Seq(Names)
    BY <1>1, EventPath
  <1>3. ASSUME BooksOK', EpollOpen', pc' \in {"handle", "exit", "crash"},
               DOMAIN map \subseteq DOMAIN map', walk' \in Seq(Entries), removed' = removed
        PROVE  Base'
    BY <1>1, <1>2, <1>3 DEF TypeOK, WorldOK, MembersOK, BatchOK, world, Places
  <1>4. walk \in Seq(Entries)
    BY DEF TypeOK, MembersOK
  <1>5. \/ handleDirectoryCreate(path) \/ handleFileModify(path, event)
        \/ handleFileDelete(path, event) \/ handleDirectoryDelete(path) \/ handleIgnored
    BY DEF HandleEvent
  <1> HIDE DEF event, path
  <1>6. CASE handleDirectoryCreate(path)
    <2>1. Entry("open", path) \in Entries
      BY <1>2 DEF Entry, Entries
    <2>2. walk' \in Seq(Entries) /\ removed' = removed
      BY <1>6, <2>1 DEF handleDirectoryCreate, ghosts
    <2>3. BooksOK' /\ EpollOpen' /\ pc' \in {"handle", "exit"} /\ DOMAIN map \subseteq DOMAIN map'
      BY <1>2, <1>6, AddWatchBase DEF handleDirectoryCreate
    <2>4. QED
      BY <1>3, <2>2, <2>3
  <1>7. CASE handleFileModify(path, event) \/ handleFileDelete(path, event) \/ handleIgnored
    <2>1. /\ UNCHANGED <<kernel, map, set, walk, removed>>
          /\ pc' \in {"handle", "crash"}
      BY <1>1, <1>7
      DEF handleFileModify, handleFileDelete, handleIgnored, checkEmptyDir, watched, ghosts
    <2>2. BooksOK' /\ EpollOpen'
      BY <2>1 DEF TypeOK, BooksOK, EpollOpen, kernel
    <2>3. QED
      BY <1>3, <1>4, <2>1, <2>2
  <1>8. CASE handleDirectoryDelete(path)
    <2>1. PICK next \in {"handle", "crash"} : removeWatch(path, next)
      BY <1>8 DEF handleDirectoryDelete, checkEmptyDir
    <2>2. BooksOK' /\ EpollOpen' /\ pc' \in {next, "crash"} /\ map' = map
      BY <2>1, RemoveWatchBase
    <2>3. UNCHANGED <<walk, removed>>
      BY <1>8 DEF handleDirectoryDelete, ghosts
    <2>4. QED
      BY <1>3, <1>4, <2>2, <2>3
  <1>9. QED
    BY <1>5, <1>6, <1>7, <1>8

LEMMA InitBase ==
  ASSUME Init
  PROVE  Base
  <1>1. PICK old \in SUBSET DirPaths :
           /\ \A p \in old : Front(p) \in old \cup {<<>>}
           /\ dirs = [p \in old \cup {<<>>} |-> <<p, 0>>]
    BY DEF Init
  <1>2. WorldOK
    <2>1. DOMAIN dirs = old \cup {<<>>} /\ DOMAIN dirs \subseteq Paths /\ <<>> \in DOMAIN dirs
      BY <1>1, PathTypes
    <2>2. dirs \in [DOMAIN dirs -> Paths \X Nat] /\ \A p \in DOMAIN dirs : dirs[p][1] = p
      BY <1>1, <2>1
    <2>3. \A p \in DOMAIN dirs \ {<<>>} : Front(p) \in DOMAIN dirs
      BY <1>1, <2>1
    <2>4. files \subseteq FilePaths /\ \A f \in files : Front(f) \in DOMAIN dirs
      BY DEF Init
    <2>5. ops \in Nat
      BY DEF Init
    <2>6. QED
      BY <2>1, <2>2, <2>3, <2>4, <2>5 DEF WorldOK
  <1>3. BooksOK
    BY DEF Init, BooksOK
  <1>4. MembersOK
    BY EmptySeq DEF Init, MembersOK, Places
  <1>5. BatchOK /\ EpollOpen
    BY DEF Init, BatchOK, EpollOpen
  <1>6. QED
    BY <1>2, <1>3, <1>4, <1>5 DEF Base, TypeOK

LEMMA NextBase ==
  ASSUME PlainRoots, Base, [Next]_vars
  PROVE  Base'
  <1>1. CASE World
    BY <1>1, MkdirBase, RmdirBase, WriteFileBase DEF World
  <1>2. CASE Watcher
    BY <1>2, LoopBase, HandleEventBase, WalkBase DEF Watcher
  <1>3. CASE FsWatchInit \/ InitDone \/ OnEmptyDirCbk \/ Start \/ Destroy \/ RemoveRoot
    BY <1>3, ClientBase
  <1>4. CASE UNCHANGED vars
    BY <1>4 DEF Base, TypeOK, WorldOK, BooksOK, MembersOK, BatchOK, EpollOpen,
       vars, world, kernel, watched, control, ghosts
  <1>5. QED
    BY <1>1, <1>2, <1>3, <1>4 DEF Next
-----------------------------------------------------------------------------
(* While nothing has been removed: what the watcher believes is true *)

Truth == Watching /\ Handling /\ Reported

\* A step that leaves the root alone and removes no directory.
Grows ==
    /\ root' = root
    /\ \A p \in DOMAIN dirs : p \in DOMAIN dirs' /\ dirs'[p] = dirs[p]

LEMMA TruthfulStays ==
  ASSUME Grows, NEW event, NEW key, Truthful(event, key, root, DOMAIN dirs)
  PROVE  Truthful(event, key, root', DOMAIN dirs')
  BY DEF Grows, Truthful

\* Two directories have two inodes.
LEMMA InodesDiffer ==
  ASSUME TypeOK, NEW p \in DOMAIN dirs, NEW q \in DOMAIN dirs, dirs[p] = dirs[q]
  PROVE  p = q
  BY DEF TypeOK, WorldOK

\* addWatch of a directory that is there: it gets an instance of its own, which
\* the map and the set know, or it has one; nothing else changes.
LEMMA AddWatchTruth ==
  ASSUME PlainRoots, Base, Watching, NEW p \in DOMAIN dirs, NEW next,
         addWatch(Key(p), next), UNCHANGED <<world, root>>
  PROVE  /\ Watching'
         /\ \A fd \in DOMAIN inst : /\ fd \in DOMAIN inst' /\ inst'[fd] = inst[fd]
                                    /\ fd \in DOMAIN map' /\ map'[fd] = map[fd]
         /\ \/ pc' = "exit" /\ set' = set
            \/ pc' = next /\ set' = set \cup {Key(p)}
  <1>0. Grows /\ \A q \in DOMAIN dirs : Key(q)' = Key(q)
    BY DEF Grows, world, Key
  <1>1. CASE UNCHANGED <<kernel, watched>> /\ (pc' = "exit" \/ (pc' = next /\ Key(p) \in set))
    <2>1. inst' = inst /\ map' = map /\ set' = set /\ epoll' = epoll /\ dirs' = dirs
      BY <1>1 DEF kernel, watched, world
    <2>2. \A event, key : Truthful(event, key, root, DOMAIN dirs)
                          => Truthful(event, key, root', DOMAIN dirs')
      BY <1>0, TruthfulStays
    <2>3. Watching'
      BY <1>0, <2>1, <2>2 DEF Watching
    <2>4. QED
      BY <1>1, <2>1, <2>3 DEF Watching
  <1>2. CASE /\ Key(p) \notin set /\ ~ Fds \subseteq DOMAIN inst
             /\ pc' = next /\ set' = set \cup {Key(p)}
    <2> DEFINE fd == Min(Fds \ DOMAIN inst)
               new == [on |-> dirs[p], queue |-> <<>>]
    <2>1. fd \in Fds \ DOMAIN inst
      BY <1>2, FreeFd
    <2>2. Lookup(Key(p)) = {p}
      BY LookupOfKey DEF Base
    <2>3. (CHOOSE q \in Lookup(Key(p)) : TRUE) = p
      BY <2>2
    <2>4. /\ inst' = Inserted(inst, fd, new) /\ epoll' = epoll \cup {fd}
          /\ map' = Inserted(map, fd, Key(p))
      BY <1>2, <2>2, <2>3 DEF addWatch
    <2> HIDE DEF fd
    <2>5. DOMAIN map = DOMAIN inst /\ epoll = DOMAIN inst
      BY DEF Watching
    <2>6. /\ DOMAIN inst' = DOMAIN inst \cup {fd} /\ inst'[fd] = new
          /\ \A other \in DOMAIN inst : inst'[other] = inst[other]
      BY <2>1, <2>4 DEF Inserted
    <2>7. /\ DOMAIN map' = DOMAIN inst \cup {fd} /\ map'[fd] = Key(p)
          /\ \A other \in DOMAIN inst : map'[other] = map[other]
      BY <2>1, <2>4, <2>5 DEF Inserted
    <2>8. \A other \in DOMAIN inst : map[other] # Key(p)
      BY <1>2, <2>5 DEF Watching
    <2>9. \A event, key : Truthful(event, key, root, DOMAIN dirs)
                          => Truthful(event, key, root', DOMAIN dirs')
      BY <1>0, TruthfulStays
    <2>10. dirs' = dirs
      BY DEF world
    <2>11. ASSUME NEW other \in DOMAIN inst'
           PROVE  /\ \E q \in DOMAIN dirs' : inst'[other].on = dirs'[q] /\ map'[other] = Key(q)'
                  /\ \A event \in Range(inst'[other].queue) : Truthful(event, map'[other], root', DOMAIN dirs')
      <3>1. CASE other = fd
        <4>1. inst'[other].on = dirs'[p] /\ map'[other] = Key(p)'
          BY <1>0, <2>6, <2>7, <2>10, <3>1
        <4>2. Range(inst'[other].queue) = {}
          BY <2>6, <3>1, RangeOfEmpty
        <4>3. QED
          BY <2>10, <4>1, <4>2
      <3>2. CASE other \in DOMAIN inst
        <4>1. inst'[other] = inst[other] /\ map'[other] = map[other]
          BY <2>6, <2>7, <3>2
        <4>2. PICK q \in DOMAIN dirs : inst[other].on = dirs[q] /\ map[other] = Key(q)
          BY <3>2 DEF Watching
        <4>3. \A event \in Range(inst[other].queue) : Truthful(event, map[other], root, DOMAIN dirs)
          BY <3>2 DEF Watching
        <4>4. Key(q)' = Key(q)
          BY <1>0
        <4>5. QED
          BY <2>9, <2>10, <4>1, <4>2, <4>3, <4>4
      <3>3. QED
        BY <2>6, <3>1, <3>2
    <2>12. \A x, y \in DOMAIN map' : map'[x] = map'[y] => x = y
      BY <2>5, <2>7, <2>8 DEF Watching
    <2>13. set' = {map'[x] : x \in DOMAIN map'}
      <3>1. set = {map[x] : x \in DOMAIN inst}
        BY <2>5 DEF Watching
      <3>2. QED
        BY <1>2, <2>7, <3>1
    <2>14. DOMAIN map' = DOMAIN inst' /\ epoll' = DOMAIN inst'
      BY <2>4, <2>5, <2>6, <2>7
    <2>15. Watching'
      BY <2>11, <2>12, <2>13, <2>14 DEF Watching
    <2>16. QED
      BY <1>2, <2>6, <2>7, <2>15
  <1>3. \/ UNCHANGED <<kernel, watched>> /\ (pc' = "exit" \/ (pc' = next /\ Key(p) \in set))
        \/ /\ Key(p) \notin set /\ ~ Fds \subseteq DOMAIN inst
           /\ pc' = next /\ set' = set \cup {Key(p)}
    BY DEF addWatch
  <1>4. QED
    BY <1>1, <1>2, <1>3

\* A change below a directory that is there is told to that directory's instance,
\* under that directory's name.
LEMMA NotifyTruth ==
  ASSUME PlainRoots, Base, Truth, Grows,
         NEW d \in DOMAIN dirs, NEW kind \in {"mkdir", "write", "unlink"}, NEW name \in Names,
         inst' = Notify(d, kind, name),
         kind = "mkdir" => Append(d, name) \in DOMAIN dirs',
         UNCHANGED <<epoll, map, set, pc, control, lies>>
  PROVE  Truth'
  <1> DEFINE event == Event(d, kind, name)
  <1>0. DOMAIN dirs \subseteq Seq(Names) /\ root' = root /\ DOMAIN dirs \subseteq DOMAIN dirs'
    BY PathTypes DEF Base, TypeOK, WorldOK, Grows
  <1>1. \A e, key : Truthful(e, key, root, DOMAIN dirs) => Truthful(e, key, root', DOMAIN dirs')
    BY TruthfulStays
  <1>2. /\ inst' \in [DOMAIN inst -> Instances] /\ event \in Events
        /\ \A fd \in DOMAIN inst :
              /\ inst'[fd].on = inst[fd].on
              /\ inst'[fd].queue = IF inst[fd].on = dirs[d]
                                   THEN Append(inst[fd].queue, event) ELSE inst[fd].queue
    BY NotifyType DEF Base, Kinds
  <1>3. Truthful(event, Key(d), root', DOMAIN dirs')
    BY <1>0 DEF Truthful, Event, Key
  <1> HIDE DEF event
  <1>4. ASSUME NEW fd \in DOMAIN inst
        PROVE  /\ \E q \in DOMAIN dirs' : inst'[fd].on = dirs'[q] /\ map'[fd] = Key(q)'
               /\ \A e \in Range(inst'[fd].queue) : Truthful(e, map'[fd], root', DOMAIN dirs')
    <2>1. PICK q \in DOMAIN dirs : inst[fd].on = dirs[q] /\ map[fd] = Key(q)
      BY DEF Truth, Watching
    <2>2. Key(q)' = Key(q) /\ q \in DOMAIN dirs' /\ dirs'[q] = dirs[q]
      BY DEF Grows, Key
    <2>3. \A e \in Range(inst[fd].queue) : Truthful(e, map[fd], root, DOMAIN dirs)
      BY DEF Truth, Watching
    <2>4. inst[fd].queue \in Seq(Events)
      BY DEF Base, TypeOK, BooksOK, Instances
    <2>5. CASE inst[fd].on = dirs[d]
      <3>1. q = d
        BY <2>1, <2>5, InodesDiffer DEF Base
      <3>2. Range(inst'[fd].queue) = Range(inst[fd].queue) \cup {event}
        BY <1>2, <2>4, <2>5, RangeOfAppend
      <3>3. QED
        BY <1>1, <1>2, <1>3, <2>1, <2>2, <2>3, <3>1, <3>2
    <2>6. CASE inst[fd].on # dirs[d]
      BY <1>1, <1>2, <2>1, <2>2, <2>3, <2>6
    <2>7. QED
      BY <2>5, <2>6
  <1>5. Watching'
    BY <1>2, <1>4 DEF Truth, Watching
  <1>6. Handling'
    <2>1. \A e \in Range(walk) : e.kind # "file" => \E p \in DOMAIN dirs' : e.key = Key(p)'
      BY <1>0 DEF Truth, Handling, Key
    <2>2. QED
      BY <1>1, <2>1 DEF Truth, Handling, control
  <1>7. QED
    BY <1>5, <1>6 DEF Truth, Reported

LEMMA WorldTruth ==
  ASSUME PlainRoots, Base, Truth, World, ~removed'
  PROVE  Truth'
  <1>1. ASSUME NEW path \in DirPaths, Mkdir(path)
        PROVE  Truth'
    <2>1. /\ path \in Seq(Names) \ {<<>>} /\ Front(path) \in DOMAIN dirs /\ Last(path) \in Names
          /\ path = Append(Front(path), Last(path))
      BY <1>1, PathTypes, ParentAndName DEF Mkdir
    <2>2. DOMAIN dirs' = DOMAIN dirs \cup {path} /\ \A p \in DOMAIN dirs : dirs'[p] = dirs[p]
      BY <1>1 DEF Mkdir, Inserted
    <2>3. Grows
      BY <1>1, <2>2 DEF Grows, Mkdir
    <2>4. /\ inst' = Notify(Front(path), "mkdir", Last(path))
          /\ UNCHANGED <<epoll, map, set, pc, control, lies>>
      BY <1>1 DEF Mkdir, watched, ghosts
    <2>5. QED
      BY <2>1, <2>2, <2>3, <2>4, NotifyTruth
  <1>2. ASSUME NEW path \in DirPaths, Rmdir(path)
        PROVE  FALSE
    BY <1>2 DEF Rmdir
  <1>3. ASSUME NEW path \in FilePaths, WriteFile(path) \/ Unlink(path)
        PROVE  Truth'
    <2>1. Last(path) \in Names /\ Front(path) \in DOMAIN dirs
      BY <1>3, PathTypes, ParentAndName DEF WriteFile, Unlink, Base, TypeOK, WorldOK
    <2>2. Grows /\ UNCHANGED <<epoll, map, set, pc, control, lies>>
      BY <1>3 DEF Grows, WriteFile, Unlink, watched, ghosts
    <2>3. PICK kind \in {"write", "unlink"} : inst' = Notify(Front(path), kind, Last(path))
      BY <1>3 DEF WriteFile, Unlink
    <2>4. QED
      BY <2>1, <2>2, <2>3, NotifyTruth
  <1>4. QED
    BY <1>1, <1>2, <1>3 DEF World

\* The key of a directory ends in its name, and not in a slash.
LEMMA KeyEndsInName ==
  ASSUME PlainRoots, root \in Roots, NEW q \in Paths
  PROVE  Last(Key(q)) # "" /\ (q # <<>> => Last(Key(q)) = Last(q))
  <1>1. root \in Seq(Names) /\ q \in Seq(Names) /\ Last(root) # ""
    BY PathTypes, KeyFacts
  <1>2. CASE q = <<>>
    BY <1>1, <1>2, KeyFacts
  <1>3. CASE q # <<>>
    <2>1. Len(root) \in Nat /\ Len(q) \in Nat \ {0}
      BY <1>1, <1>3, LenProperties, EmptySeq
    <2>2. q[Len(q)] # ""
      <3>1. q \in DirPaths /\ Len(q) \in DOMAIN q
        <4>1. q \in DirPaths
          BY <1>3 DEF Paths
        <4>2. DOMAIN q = 1 .. Len(q)
          BY <1>1, LenProperties
        <4>3. QED
          BY <2>1, <4>1, <4>2
      <3>2. QED
        BY <3>1, NamesAreStrings
    <2>3. Len(Key(q)) = Len(root) + Len(q) /\ Key(q)[Len(root) + Len(q)] = q[Len(q)]
      <3>1. /\ Len(root \o q) = Len(root) + Len(q)
            /\ \A i \in 1 .. Len(root) + Len(q) : (root \o q)[i] =
                  IF i <= Len(root) THEN root[i] ELSE q[i - Len(root)]
        BY <1>1, ConcatProperties
      <3>2. /\ Len(root) + Len(q) \in 1 .. Len(root) + Len(q)
            /\ ~(Len(root) + Len(q) <= Len(root)) /\ Len(root) + Len(q) - Len(root) = Len(q)
        BY <2>1
      <3>3. QED
        BY <3>1, <3>2 DEF Key
    <2>4. QED
      BY <2>2, <2>3 DEF Last
  <1>4. QED
    BY <1>2, <1>3

\* fts_build returns the keys of the children of a directory that is there.
LEMMA FoundKeys ==
  ASSUME PlainRoots, Base, NEW q \in DOMAIN dirs, NEW kind,
         NEW paths, paths \subseteq Seq(Names)
  PROVE  /\ \A e \in Found(Key(q), kind, paths) :
               \E p \in paths \ {<<>>} : Front(p) = q /\ e = Entry(kind, Key(p))
         /\ \A p \in paths \ {<<>>} : Front(p) = q =>
               Entry(kind, Key(p)) \in Found(Key(q), kind, paths)
  <1>1. Lookup(Key(q)) = {q} /\ q \in Paths /\ q \in Seq(Names) /\ root \in Roots
    BY LookupOfKey, PathTypes DEF Base, TypeOK, WorldOK, MembersOK
  <1>2. Here(Key(q)) = Key(q)
    BY <1>1, KeyEndsInName DEF Here
  <1>3. ASSUME NEW p \in paths \ {<<>>}, Front(p) = q
        PROVE  Append(Here(Key(q)), Last(p)) = Key(p)
    <2>1. p \in Seq(Names)
      OBVIOUS
    <2>2. Last(p) \in Names /\ p = Append(q, Last(p))
      BY <1>3, <2>1, ParentAndName
    <2>3. Append(Key(q), Last(p)) = Key(Append(q, Last(p)))
      BY <1>1, <2>2, KeyFacts
    <2>4. QED
      BY <1>2, <2>2, <2>3
  <1>4. \A p \in paths \ {<<>>} : p \in Children(Key(q), paths) <=> Front(p) = q
    BY <1>1 DEF Children
  <1>5. Children(Key(q), paths) \subseteq paths \ {<<>>}
    BY DEF Children
  <1>6. QED
    BY <1>3, <1>4, <1>5 DEF Found

\* The first entry of the walk, and the rest of it.
LEMMA WalkHead ==
  ASSUME Base, Truth, walk # <<>>
  PROVE  /\ Head(walk) \in Entries /\ Tail(walk) \in Seq(Entries)
         /\ Range(walk) = {Head(walk)} \cup Range(Tail(walk))
         /\ Head(walk) = Entry(Head(walk).kind, Head(walk).key)
         /\ Head(walk).kind # "file" => \E p \in DOMAIN dirs : Head(walk).key = Key(p)
         /\ \A e \in Range(Tail(walk)) :
               /\ e.kind # "open"
               /\ e.kind # "file" => \E p \in DOMAIN dirs : e.key = Key(p)
  <1>1. walk \in Seq(Entries)
    BY DEF Base, TypeOK, MembersOK
  <1>2. /\ Head(walk) \in Entries /\ Tail(walk) \in Seq(Entries)
        /\ Range(walk) = {Head(walk)} \cup Range(Tail(walk))
    BY <1>1, RangeOfHeadTail
  <1>3. Head(walk) = Entry(Head(walk).kind, Head(walk).key)
    BY <1>2 DEF Entries, Entry
  <1>4. \A e \in Range(walk) : /\ e.kind # "file" => \E p \in DOMAIN dirs : e.key = Key(p)
                               /\ e.kind = "open" => Tail(walk) = <<>>
    BY DEF Truth, Handling
  <1>5. Tail(walk) = <<>> => Range(Tail(walk)) = {}
    BY RangeOfEmpty
  <1>6. QED
    BY <1>2, <1>3, <1>4, <1>5

LEMMA WalkTruth ==
  ASSUME PlainRoots, Base, Truth, Walk
  PROVE  Truth'
  <1>0. /\ pc \in {"initwalk", "handle"} /\ walk # <<>>
        /\ dirs' = dirs /\ root' = root /\ batch' = batch /\ buf' = buf /\ lies' = lies
        /\ UNCHANGED <<world, root>>
    BY DEF Walk, world, ghosts
  <1>1. Watching /\ Handling /\ Reported /\ \A p : Key(p)' = Key(p)
    BY <1>0 DEF Truth, Key
  <1> DEFINE key == Head(walk).key
  \* What remains to be shown of a step of the walk.
  <1>2. ASSUME Watching', pc' \in {pc, "exit"},
               \A fd \in DOMAIN map : map'[fd] = map[fd],
               \A e \in Range(walk') :
                  /\ e.kind # "open"
                  /\ e.kind # "file" => \E p \in DOMAIN dirs : e.key = Key(p)
        PROVE  Truth'
    <2>1. Reported'
      BY <1>0, <1>1 DEF Reported
    <2>2. \A e \in Range(walk') :
             /\ e.kind # "file" => \E p \in DOMAIN dirs' : e.key = Key(p)'
             /\ e.kind = "open" => Tail(walk') = <<>>
      BY <1>0, <1>1, <1>2
    <2>3. pc' = "handle" => \A event \in Range(buf') :
             Truthful(event, map'[Head(batch')], root', DOMAIN dirs')
      BY <1>0, <1>1, <1>2 DEF Handling, Base, BatchOK
    <2>4. pc' \notin {"handle", "exit", "crash"} => buf' = <<>>
      BY <1>0, <1>1, <1>2 DEF Handling
    <2>5. pc' \in {"initwalk", "handle", "exit"}
      BY <1>0, <1>2
    <2>6. Handling'
      BY <2>2, <2>3, <2>4, <2>5 DEF Handling
    <2>7. QED
      BY <1>2, <2>1, <2>6 DEF Truth
  <1>3. ASSUME UNCHANGED <<kernel, map, set, pc>>
        PROVE  Watching' /\ pc' \in {pc, "exit"} /\ \A fd \in DOMAIN map : map'[fd] = map[fd]
    <2>1. Watching'
      BY <1>0, <1>1, <1>3 DEF Watching, kernel
    <2>2. QED
      BY <1>3, <2>1
  <1>4. CASE OpenWalk
    <2>1. PICK p \in DOMAIN dirs : key = Key(p)
      BY <1>0, <1>4, WalkHead DEF OpenWalk
    <2>2. Lookup(key) # {}
      BY <2>1, LookupOfKey DEF Base
    <2>3. walk' = <<Entry("dir", key)>>
      BY <1>4, <2>2 DEF OpenWalk
    <2>4. Range(walk') = {Entry("dir", key)}
      BY <2>3, RangeOfSingle
    <2>5. \A e \in Range(walk') : e.kind = "dir" /\ e.key = Key(p)
      BY <2>1, <2>4 DEF Entry
    <2>6. UNCHANGED <<kernel, map, set, pc>>
      BY <1>4 DEF OpenWalk, watched
    <2>7. QED
      BY <1>2, <1>3, <2>5, <2>6
  <1>5. CASE VisitDir
    <2>1. PICK p \in DOMAIN dirs : key = Key(p)
      BY <1>0, <1>5, WalkHead DEF VisitDir
    <2>2. Range(walk') = {Entry("list", key)} \cup Range(Tail(walk))
      <3>1. key \in Seq(Names) /\ Tail(walk) \in Seq(Entries)
        BY <1>0, WalkHead DEF Entries
      <3>2. Entry("list", key) \in Entries
        BY <3>1 DEF Entries, Entry
      <3>3. walk' = <<Entry("list", key)>> \o Tail(walk) /\ <<Entry("list", key)>> \in Seq(Entries)
        BY <1>5, <3>2 DEF VisitDir
      <3>4. Range(walk') = Range(<<Entry("list", key)>>) \cup Range(Tail(walk))
        BY <3>1, <3>3, RangeConcatenation, ZenonT(30)
      <3>5. QED
        BY <3>4, RangeOfSingle
    <2>3. Entry("list", key).kind = "list" /\ Entry("list", key).key = Key(p)
      BY <2>1 DEF Entry
    <2>4. \A e \in Range(walk') :
             /\ e.kind # "open"
             /\ e.kind # "file" => \E q \in DOMAIN dirs : e.key = Key(q)
      BY <1>0, <2>2, <2>3, WalkHead
    <2>5. CASE UNCHANGED <<kernel, watched, pc>>
      BY <1>2, <1>3, <2>4, <2>5 DEF watched
    <2>6. CASE addWatch(key, pc)
      <3>1. /\ Watching' /\ pc' \in {pc, "exit"}
            /\ \A fd \in DOMAIN inst : map'[fd] = map[fd]
        BY <1>0, <1>1, <2>1, <2>6, AddWatchTruth
      <3>2. DOMAIN map = DOMAIN inst
        BY <1>1 DEF Watching
      <3>3. QED
        BY <1>2, <2>4, <3>1, <3>2
    <2>7. QED
      BY <1>5, <2>5, <2>6 DEF VisitDir
  <1>6. CASE VisitFile
    <2>1. walk' = Tail(walk) /\ UNCHANGED <<kernel, map, set, pc>>
      BY <1>6 DEF VisitFile
    <2>2. QED
      BY <1>0, <1>2, <1>3, <2>1, WalkHead
  <1>7. CASE ListDir
    <2>1. PICK q \in DOMAIN dirs : key = Key(q)
      BY <1>0, <1>7, WalkHead DEF ListDir
    <2>2. PICK order \in Seq(Entries) :
             /\ Range(order) = Found(key, "dir", DOMAIN dirs) \cup Found(key, "file", files)
             /\ walk' = order \o Tail(walk)
      BY <1>0, <1>7, ListedEntries DEF Base
    <2>3. Range(walk') = Range(order) \cup Range(Tail(walk))
      <3>1. Tail(walk) \in Seq(Entries)
        BY <1>0, WalkHead
      <3>2. QED
        BY <2>2, <3>1, RangeConcatenation, ZenonT(30)
    <2>4. DOMAIN dirs \subseteq Seq(Names) /\ files \subseteq Seq(Names)
      BY PathTypes DEF Base, TypeOK, WorldOK
    <2>5. /\ \A e \in Found(key, "dir", DOMAIN dirs) : \E p \in DOMAIN dirs : e = Entry("dir", Key(p))
          /\ \A e \in Found(key, "file", files) : \E p \in files : e = Entry("file", Key(p))
      BY <2>1, <2>4, FoundKeys
    <2>6. \A p : /\ Entry("dir", Key(p)).kind = "dir" /\ Entry("dir", Key(p)).key = Key(p)
                 /\ Entry("file", Key(p)).kind = "file"
      BY DEF Entry
    <2>7. \A e \in Range(order) : /\ e.kind # "open"
                                  /\ e.kind # "file" => \E p \in DOMAIN dirs : e.key = Key(p)
      BY <2>2, <2>5, <2>6
    <2>8. UNCHANGED <<kernel, map, set, pc>>
      BY <1>7 DEF ListDir, watched
    <2>9. \A e \in Range(walk') : /\ e.kind # "open"
                                  /\ e.kind # "file" => \E p \in DOMAIN dirs : e.key = Key(p)
      BY <1>0, <2>3, <2>7, WalkHead
    <2>10. QED
      BY <1>2, <1>3, <2>8, <2>9
  <1>8. QED
    BY <1>4, <1>5, <1>6, <1>7 DEF Walk

LEMMA ClientTruth ==
  ASSUME PlainRoots, Base, Truth, pc' # "destroyed",
         FsWatchInit \/ InitDone \/ OnEmptyDirCbk \/ Start \/ Destroy \/ RemoveRoot
  PROVE  Truth'
  <1>0. Watching /\ Handling /\ Reported
    BY DEF Truth
  <1>1. CASE FsWatchInit
    <2>1. /\ pc = "new" /\ walk' = <<Entry("open", root)>> /\ buf' = buf /\ lies' = lies
          /\ dirs' = dirs /\ root' = root /\ UNCHANGED <<world, root>>
      BY <1>1 DEF FsWatchInit, world, ghosts
    <2>2. <<>> \in DOMAIN dirs /\ Key(<<>>) = root /\ Key(<<>>)' = root
      BY <2>1, KeyFacts DEF Base, TypeOK, WorldOK, MembersOK, Key
    <2>3. addWatch(Key(<<>>), "initwalk")
      BY <1>1, <2>2 DEF FsWatchInit
    <2>4. Watching' /\ pc' \in {"initwalk", "exit"}
      BY <1>0, <2>1, <2>2, <2>3, AddWatchTruth
    <2>5. Range(walk') = {Entry("open", root)} /\ Tail(walk') = <<>>
      BY <2>1, RangeOfSingle
    <2>6. Entry("open", root).kind = "open" /\ Entry("open", root).key = root
      BY DEF Entry
    <2>7. buf' = <<>>
      BY <1>0, <2>1 DEF Handling
    <2>8. Handling'
      BY <2>1, <2>2, <2>4, <2>5, <2>6, <2>7 DEF Handling
    <2>9. QED
      BY <1>0, <2>1, <2>4, <2>8 DEF Truth, Reported
  <1>2. CASE InitDone \/ OnEmptyDirCbk \/ Start \/ Destroy \/ (RemoveRoot /\ pc' = "crash")
    <2>1. UNCHANGED <<world, kernel, root, map, set, control, lies>>
      BY <1>2 DEF InitDone, OnEmptyDirCbk, Start, Destroy, RemoveRoot, removeWatch, watched, ghosts
    <2>2. /\ inst' = inst /\ epoll' = epoll /\ dirs' = dirs /\ root' = root /\ map' = map
          /\ set' = set /\ batch' = batch /\ buf' = buf /\ walk' = walk /\ lies' = lies
          /\ \A p : Key(p)' = Key(p)
      BY <2>1 DEF world, kernel, control, Key
    <2>3. \/ pc' = "crash" \/ pc' = pc
          \/ /\ pc' \in {"ready", "check", "stopped"}
             /\ buf = <<>> /\ walk = <<>>
      BY <1>0, <1>2 DEF InitDone, OnEmptyDirCbk, Start, Destroy, Handling
    <2>4. Watching'
      BY <1>0, <2>2 DEF Watching
    <2>5. Handling'
      BY <1>0, <2>2, <2>3 DEF Handling
    <2>6. QED
      BY <1>0, <2>2, <2>4, <2>5 DEF Truth, Reported
  <1>3. RemoveRoot => pc' = "crash"
    BY DEF RemoveRoot, removeWatch
  <1>4. QED
    BY <1>1, <1>2, <1>3

LEMMA LoopTruth ==
  ASSUME PlainRoots, Base, Truth, LoopCheck \/ EpollWait \/ NextFd \/ ReadEvents \/ BufferDone
  PROVE  Truth'
  <1>0. Watching /\ Handling /\ Reported
    BY DEF Truth
  <1>1. CASE LoopCheck \/ EpollWait \/ NextFd \/ BufferDone
    <2>1. UNCHANGED <<world, kernel, root, map, set, buf, walk, lies>>
      BY <1>1 DEF LoopCheck, EpollWait, NextFd, BufferDone, watched, control, ghosts
    <2>2. /\ inst' = inst /\ epoll' = epoll /\ dirs' = dirs /\ root' = root /\ map' = map
          /\ set' = set /\ buf' = buf /\ walk' = walk /\ lies' = lies
          /\ \A p : Key(p)' = Key(p)
      BY <2>1 DEF world, kernel, Key
    <2>3. pc' \in {"stopped", "epoll", "next", "check", "read"} /\ buf = <<>> /\ walk = <<>>
      BY <1>0, <1>1 DEF LoopCheck, EpollWait, NextFd, BufferDone, Handling
    <2>4. Watching'
      BY <1>0, <2>2 DEF Watching
    <2>5. Handling'
      BY <1>0, <2>2, <2>3 DEF Handling
    <2>6. QED
      BY <1>0, <2>2, <2>4, <2>5 DEF Truth, Reported
  <1>2. CASE ReadEvents
    <2> DEFINE fd == Head(batch)
    <2>1. /\ dirs' = dirs /\ root' = root /\ map' = map /\ set' = set /\ epoll' = epoll
          /\ walk' = walk /\ lies' = lies /\ pc = "read" /\ \A p : Key(p)' = Key(p)
      BY <1>2 DEF ReadEvents, world, watched, ghosts, Key
    <2>2. buf = <<>> /\ walk = <<>> /\ fd \in DOMAIN map /\ DOMAIN map = DOMAIN inst
      BY <1>0, <2>1 DEF Handling, Watching, Base, BatchOK
    <2>3. CASE inst' = inst /\ buf' = buf /\ pc' \in {"exit", "next"}
      <3>1. Watching'
        BY <1>0, <2>1, <2>3 DEF Watching
      <3>2. Handling'
        BY <1>0, <2>1, <2>2, <2>3, RangeOfEmpty DEF Handling
      <3>3. QED
        BY <1>0, <2>1, <3>1, <3>2 DEF Truth, Reported
    <2>4. CASE /\ pc' = "handle" /\ batch' = batch /\ buf' = inst[fd].queue
               /\ inst' = [inst EXCEPT ![fd].queue = <<>>]
      <3>1. /\ DOMAIN inst' = DOMAIN inst
            /\ \A x \in DOMAIN inst : /\ inst'[x].on = inst[x].on
                                      /\ inst'[x].queue \in {inst[x].queue, <<>>}
        BY <2>2, <2>4 DEF Base, TypeOK, BooksOK, Instances
      <3>2. \A x \in DOMAIN inst : Range(inst'[x].queue) \subseteq Range(inst[x].queue)
        BY <3>1, RangeOfEmpty
      <3>3. Watching'
        BY <1>0, <2>1, <3>1, <3>2 DEF Watching
      <3>4. Range(walk') = {}
        BY <2>1, <2>2, RangeOfEmpty
      <3>5. \A event \in Range(buf') : Truthful(event, map'[Head(batch')], root', DOMAIN dirs')
        BY <1>0, <2>1, <2>2, <2>4 DEF Watching
      <3>6. Handling'
        BY <2>4, <3>4, <3>5 DEF Handling
      <3>7. QED
        BY <1>0, <2>1, <3>3, <3>6 DEF Truth, Reported
    <2>5. QED
      BY <1>2, <2>3, <2>4 DEF ReadEvents
  <1>3. QED
    BY <1>1, <1>2

\* While nothing has been removed an event is handled under the true path of what
\* it is about.
LEMMA EventTruth ==
  ASSUME PlainRoots, Base, Truth, pc = "handle", buf # <<>>
  PROVE  LET event == Head(buf)
             child == Append(event.dir, event.name)
         IN  /\ event \in Events /\ event.kind \in {"mkdir", "write", "unlink"}
             /\ child \in Seq(Names) \ {<<>>} /\ Front(child) = event.dir /\ Last(child) = event.name
             /\ event.kind = "mkdir" => child \in DOMAIN dirs
             /\ getFullPath(Head(batch), event.name) = Key(child)
             /\ Range(buf) = {event} \cup Range(Tail(buf))
  <1> DEFINE event == Head(buf)
             child == Append(event.dir, event.name)
  <1>1. event \in Events /\ Range(buf) = {event} \cup Range(Tail(buf))
    BY RangeOfHeadTail DEF Base, TypeOK, MembersOK
  <1>2. Truthful(event, map[Head(batch)], root, DOMAIN dirs)
    BY <1>1 DEF Truth, Handling
  <1>3. /\ map[Head(batch)] = Key(event.dir) /\ event.kind \in {"mkdir", "write", "unlink"}
        /\ event.kind = "mkdir" => child \in DOMAIN dirs
    BY <1>2 DEF Truthful, Key
  <1>4. event.dir \in Seq(Names) /\ event.name \in Names
    BY <1>1, PathTypes DEF Events
  <1>5. child \in Seq(Names) \ {<<>>} /\ Front(child) = event.dir /\ Last(child) = event.name
    BY <1>4, ParentOfChild
  <1>6. getFullPath(Head(batch), event.name) = Append(Key(event.dir), event.name)
    BY <1>3, EventPath
  <1>7. Append(Key(event.dir), event.name) = Key(child)
    BY <1>4, KeyFacts DEF Base, TypeOK, MembersOK
  <1>8. QED
    BY <1>1, <1>3, <1>5, <1>6, <1>7

LEMMA HandleEventTruth ==
  ASSUME PlainRoots, Base, Truth, HandleEvent
  PROVE  Truth'
  <1> DEFINE event == Head(buf)
             child == Append(event.dir, event.name)
             path  == getFullPath(Head(batch), event.name)
  <1>0. Watching /\ Handling /\ Reported
    BY DEF Truth
  <1>1. /\ pc = "handle" /\ buf # <<>> /\ walk = <<>> /\ buf' = Tail(buf) /\ batch' = batch
        /\ dirs' = dirs /\ root' = root /\ UNCHANGED <<world, root>> /\ \A p : Key(p)' = Key(p)
    BY DEF HandleEvent, world, Key
  <1>2. /\ event.kind \in {"mkdir", "write", "unlink"} /\ event \in Events
        /\ child \in Seq(Names)
        /\ event.kind = "mkdir" => child \in DOMAIN dirs
        /\ path = Key(child) /\ TrueKey(child) = Key(child)
        /\ Range(buf') \subseteq Range(buf)
    BY <1>1, EventTruth, KeyFacts DEF Base, TypeOK, MembersOK
  <1>3. \/ event.kind = "mkdir" /\ handleDirectoryCreate(path)
        \/ handleFileModify(path, event)
        \/ handleFileDelete(path, event)
    BY <1>2 DEF HandleEvent
  <1> HIDE DEF event, child, path
  <1>5. Head(batch) \in DOMAIN map
    BY <1>1 DEF Base, BatchOK
  <1>6. CASE event.kind = "mkdir" /\ handleDirectoryCreate(path)
    <2>1. child \in DOMAIN dirs /\ addWatch(Key(child), "handle")
      BY <1>2, <1>6 DEF handleDirectoryCreate
    <2>2. /\ Watching' /\ pc' \in {"handle", "exit"}
          /\ \A fd \in DOMAIN inst : map'[fd] = map[fd]
      BY <1>0, <1>1, <2>1, AddWatchTruth
    <2>3. walk' = <<Entry("open", Key(child))>> /\ lies' = lies
      BY <1>2, <1>6 DEF handleDirectoryCreate, ghosts
    <2>4. Range(walk') = {Entry("open", Key(child))} /\ Tail(walk') = <<>>
      BY <2>3, RangeOfSingle
    <2>5. Entry("open", Key(child)).kind = "open" /\ Entry("open", Key(child)).key = Key(child)
      BY DEF Entry
    <2>6. map'[Head(batch')] = map[Head(batch)]
      BY <1>0, <1>1, <1>5, <2>2 DEF Watching
    <2>7. \A e \in Range(buf') : Truthful(e, map'[Head(batch')], root', DOMAIN dirs')
      BY <1>0, <1>1, <1>2, <2>6 DEF Handling
    <2>8. Handling'
      BY <1>1, <2>1, <2>2, <2>4, <2>5, <2>7 DEF Handling
    <2>9. QED
      BY <1>0, <2>2, <2>3, <2>8 DEF Truth, Reported
  <1>7. CASE handleFileModify(path, event) \/ handleFileDelete(path, event)
    <2>1. UNCHANGED <<inst, epoll, map, set, walk>> /\ pc' \in {"handle", "crash"}
      BY <1>1, <1>7 DEF handleFileModify, handleFileDelete, checkEmptyDir, kernel
    <2>2. lies' = lies
      BY <1>2, <1>7 DEF handleFileModify, handleFileDelete, child
    <2>3. Watching'
      BY <1>0, <1>1, <2>1 DEF Watching
    <2>4. \A e \in Range(buf') : Truthful(e, map'[Head(batch')], root', DOMAIN dirs')
      BY <1>0, <1>1, <1>2, <2>1 DEF Handling
    <2>5. Range(walk') = {}
      BY <1>1, <2>1, RangeOfEmpty
    <2>6. Handling'
      BY <2>1, <2>4, <2>5 DEF Handling
    <2>7. QED
      BY <1>0, <2>2, <2>3, <2>6 DEF Truth, Reported
  <1>8. QED
    BY <1>3, <1>6, <1>7

\* What has been removed or destroyed stays so.
LEMMA StaysGone ==
  ASSUME [Next]_vars
  PROVE  (removed => removed') /\ (pc = "destroyed" => pc' = "destroyed")
  <1>1. removed => removed'
    BY DEF Next, vars, World, Mkdir, Rmdir, WriteFile, Unlink, Watcher, LoopCheck, EpollWait,
       NextFd, ReadEvents, HandleEvent, handleDirectoryCreate, handleFileModify,
       handleFileDelete, handleDirectoryDelete, handleIgnored, BufferDone, Walk, FsWatchInit,
       InitDone, OnEmptyDirCbk, Start, Destroy, RemoveRoot, ghosts
  <1>2. pc = "destroyed" => pc' = "destroyed"
    BY DEF Next, vars, World, Mkdir, Rmdir, WriteFile, Unlink, Change, Watcher, LoopCheck,
       EpollWait, NextFd, ReadEvents, HandleEvent, BufferDone, Walk, FsWatchInit,
       InitDone, OnEmptyDirCbk, Start, Destroy, RemoveRoot
  <1>3. QED
    BY <1>1, <1>2

\* A file is reported only by a step after which the watcher still stands.
LEMMA ReportsStand ==
  ASSUME [Next]_vars, pc' = "destroyed"
  PROVE  lies' = lies
  <1>1. CASE HandleEvent
    BY <1>1 DEF HandleEvent, handleDirectoryCreate, handleFileModify, handleFileDelete,
       handleDirectoryDelete, handleIgnored, ghosts
  <1>2. CASE World
    BY <1>2 DEF World, Mkdir, Rmdir, WriteFile, Unlink, ghosts
  <1>3. CASE LoopCheck \/ EpollWait \/ NextFd \/ ReadEvents \/ BufferDone \/ Walk
    BY <1>3 DEF LoopCheck, EpollWait, NextFd, ReadEvents, BufferDone, Walk, ghosts
  <1>4. CASE FsWatchInit \/ InitDone \/ OnEmptyDirCbk \/ Start \/ Destroy \/ RemoveRoot
    BY <1>4 DEF FsWatchInit, InitDone, OnEmptyDirCbk, Start, Destroy, RemoveRoot, ghosts
  <1>5. CASE UNCHANGED vars
    BY <1>5 DEF vars, ghosts
  <1>6. QED
    BY <1>1, <1>2, <1>3, <1>4, <1>5 DEF Next, Watcher

LEMMA NextTruth ==
  ASSUME PlainRoots, Inv, [Next]_vars
  PROVE  Inv'
  <1>1. Base /\ Base'
    BY NextBase DEF Inv
  <1>2. ASSUME Intact'
        PROVE  Truth'
    <2>1. Intact
      BY <1>2, StaysGone DEF Intact
    <2>2. Truth
      BY <2>1 DEF Inv, Truth
    <2>3. CASE World
      BY <1>1, <1>2, <2>2, <2>3, WorldTruth DEF Intact
    <2>4. CASE Watcher
      BY <1>1, <2>2, <2>4, LoopTruth, HandleEventTruth, WalkTruth DEF Watcher
    <2>5. CASE FsWatchInit \/ InitDone \/ OnEmptyDirCbk \/ Start \/ Destroy \/ RemoveRoot
      BY <1>1, <1>2, <2>2, <2>5, ClientTruth DEF Intact
    <2>6. CASE UNCHANGED vars
      BY <2>2, <2>6 DEF Truth, Watching, Handling, Reported, Key,
         vars, world, kernel, watched, control, ghosts
    <2>7. QED
      BY <2>3, <2>4, <2>5, <2>6 DEF Next
  <1>3. PathsTrue'
    <2>1. CASE Intact'
      BY <1>2, <2>1 DEF Truth, Reported, PathsTrue
    <2>2. CASE removed'
      BY <2>2 DEF PathsTrue
    <2>3. CASE ~removed' /\ pc' = "destroyed"
      <3>1. lies' = lies /\ ~removed
        BY <2>3, ReportsStand, StaysGone
      <3>2. QED
        BY <3>1 DEF Inv, PathsTrue
    <2>4. QED
      BY <2>1, <2>2, <2>3 DEF Intact
  <1>4. QED
    BY <1>1, <1>2, <1>3 DEF Inv, Truth
-----------------------------------------------------------------------------
(* While nothing has been removed: no directory is forgotten *)

\* What keeps a directory coming: its parent stays out of the set, or an event or
\* an entry of the walk stays where it is.
LEMMA ComingStays ==
  ASSUME root' = root, NEW p, Coming(p), pc = "new" => pc' = "new",
         set' = set, Range(buf) \subseteq Range(buf'), Range(walk) \subseteq Range(walk'),
         \A fd \in DOMAIN inst : /\ fd \in DOMAIN inst'
                                 /\ Range(inst[fd].queue) \subseteq Range(inst'[fd].queue)
  PROVE  Coming(p)'
  <1>1. Key(Front(p))' = Key(Front(p)) /\ Key(p)' = Key(p)
    BY DEF Key
  <1>2. CASE p = <<>> /\ pc = "new"
    BY <1>2 DEF Coming
  <1>3. CASE p # <<>>
    <2>1. CASE Key(Front(p)) \notin set
      BY <1>1, <1>3, <2>1 DEF Coming
    <2>2. CASE \E fd \in DOMAIN inst : Born(p) \in Range(inst[fd].queue)
      BY <1>3, <2>2 DEF Coming, Born, Event
    <2>3. CASE Born(p) \in Range(buf)
      BY <1>3, <2>3 DEF Coming, Born, Event
    <2>4. CASE Entry("dir", Key(p)) \in Range(walk)
      BY <1>1, <1>3, <2>4 DEF Coming, Entry
    <2>5. CASE \E kind \in {"open", "dir", "list"} : Entry(kind, Key(Front(p))) \in Range(walk)
      BY <1>1, <1>3, <2>5 DEF Coming, Entry
    <2>6. CASE Last(p) \in DotNames
      BY <1>3, <2>6 DEF Coming
    <2>7. QED
      BY <1>3, <2>1, <2>2, <2>3, <2>4, <2>5, <2>6 DEF Coming
  <1>4. QED
    BY <1>2, <1>3 DEF Coming

\* The same for a step that may put directories in the set and take entries off
\* the walk and the buffer: what is left to show is what becomes of those.
LEMMA ComingMoves ==
  ASSUME root' = root, NEW p, p # <<>>, Coming(p),
         \A fd \in DOMAIN inst : fd \in DOMAIN inst' /\ inst'[fd].queue = inst[fd].queue,
         Key(Front(p)) \notin set /\ Key(Front(p)) \in set' =>
            \E kind \in {"open", "dir", "list"} : Entry(kind, Key(Front(p))) \in Range(walk'),
         Born(p) \in Range(buf) => Born(p) \in Range(buf'),
         Entry("dir", Key(p)) \in Range(walk) => Entry("dir", Key(p)) \in Range(walk'),
         \A kind \in {"open", "dir", "list"} : Entry(kind, Key(Front(p))) \in Range(walk) =>
            \/ Entry("dir", Key(p)) \in Range(walk')
            \/ \E k \in {"open", "dir", "list"} : Entry(k, Key(Front(p))) \in Range(walk')
  PROVE  Coming(p)'
  <1>1. Key(Front(p))' = Key(Front(p)) /\ Key(p)' = Key(p)
    BY DEF Key
  <1>2. \/ Last(p) \in DotNames
        \/ Key(Front(p)) \notin set'
        \/ \E fd \in DOMAIN inst' : Born(p) \in Range(inst'[fd].queue)
        \/ Born(p) \in Range(buf')
        \/ Entry("dir", Key(p)) \in Range(walk')
        \/ \E kind \in {"open", "dir", "list"} : Entry(kind, Key(Front(p))) \in Range(walk')
    BY DEF Coming
  <1>3. QED
    BY <1>1, <1>2 DEF Coming, Born, Event, Entry

LEMMA WorldComing ==
  ASSUME PlainRoots, Base, Truth, NoneForgotten, World, ~removed'
  PROVE  NoneForgotten'
  <1>0. pc \notin {"exit", "crash"}
    BY DEF World, Mkdir, Rmdir, WriteFile, Unlink, Change
  <1>1. ASSUME NEW d \in DOMAIN dirs, NEW kind \in Kinds, NEW name \in Names,
               inst' = Notify(d, kind, name), UNCHANGED <<root, set, pc, control>>,
               NEW p \in DOMAIN dirs, Key(p)' \notin set'
        PROVE  Coming(p)'
    <2>1. Key(p) \notin set
      BY <1>1 DEF Key
    <2>2. Coming(p)
      BY <1>0, <2>1 DEF NoneForgotten
    <2>3. \A fd \in DOMAIN inst : inst[fd].queue \in Seq(Events)
      BY DEF Base, TypeOK, BooksOK, Instances
    <2>4. /\ DOMAIN inst' = DOMAIN inst /\ Event(d, kind, name) \in Events
          /\ \A fd \in DOMAIN inst :
                inst'[fd].queue = IF inst[fd].on = dirs[d]
                                  THEN Append(inst[fd].queue, Event(d, kind, name))
                                  ELSE inst[fd].queue
      BY <1>1, NotifyType DEF Base
    <2>5. ASSUME NEW fd \in DOMAIN inst
          PROVE  Range(inst[fd].queue) \subseteq Range(inst'[fd].queue)
      <3>1. Range(Append(inst[fd].queue, Event(d, kind, name)))
              = Range(inst[fd].queue) \cup {Event(d, kind, name)}
        BY <2>3, <2>4, RangeOfAppend
      <3>2. QED
        BY <2>4, <3>1
    <2>6. QED
      BY <1>1, <2>2, <2>4, <2>5, ComingStays DEF control
  <1>2. ASSUME NEW path \in DirPaths, Mkdir(path)
        PROVE  NoneForgotten'
    <2>1. /\ path \in Seq(Names) \ {<<>>} /\ Front(path) \in DOMAIN dirs /\ Last(path) \in Names
      BY <1>2, PathTypes, ParentAndName DEF Mkdir
    <2>2. DOMAIN dirs' = DOMAIN dirs \cup {path}
      BY <1>2 DEF Mkdir, Inserted
    <2>3. /\ inst' = Notify(Front(path), "mkdir", Last(path))
          /\ UNCHANGED <<root, set, map, pc, control>>
      BY <1>2 DEF Mkdir, watched
    <2>4. \A p \in DOMAIN dirs : Key(p)' \notin set' => Coming(p)'
      BY <1>1, <2>1, <2>3 DEF Kinds
    <2>5. Coming(path)'
      <3>1. CASE Key(Front(path)) \notin set
        <4>1. (Key(Front(path)) \notin set)'
          BY <2>3, <3>1 DEF Key
        <4>2. QED
          BY <2>1, <4>1 DEF Coming
      <3>2. CASE Key(Front(path)) \in set
        <4>1. PICK fd \in DOMAIN map : map[fd] = Key(Front(path))
          BY <3>2 DEF Truth, Watching
        <4>2. fd \in DOMAIN inst
          BY DEF Truth, Watching
        <4>3. PICK q \in DOMAIN dirs : inst[fd].on = dirs[q] /\ map[fd] = Key(q)
          BY <4>2 DEF Truth, Watching
        <4>4. q = Front(path)
          BY <2>1, <4>1, <4>3, KeyFacts, PathTypes DEF Base, TypeOK, WorldOK, MembersOK
        <4>5. /\ DOMAIN inst' = DOMAIN inst
              /\ inst'[fd].queue = Append(inst[fd].queue, Event(Front(path), "mkdir", Last(path)))
              /\ Event(Front(path), "mkdir", Last(path)) \in Events
          <5>1. inst[fd].on = dirs[Front(path)] /\ "mkdir" \in Kinds
            BY <4>3, <4>4 DEF Kinds
          <5>2. /\ Event(Front(path), "mkdir", Last(path)) \in Events
                /\ inst' \in [DOMAIN inst -> Instances]
                /\ \A x \in DOMAIN inst :
                      inst'[x].queue =
                        IF inst[x].on = dirs[Front(path)]
                        THEN Append(inst[x].queue, Event(Front(path), "mkdir", Last(path)))
                        ELSE inst[x].queue
            BY <2>1, <2>3, <5>1, NotifyType DEF Base
          <5>3. QED
            BY <4>2, <5>1, <5>2
        <4>6. inst[fd].queue \in Seq(Events)
          BY <4>2 DEF Base, TypeOK, BooksOK, Instances
        <4>7. Born(path) \in Range(inst'[fd].queue)
          BY <4>5, <4>6, RangeOfAppend DEF Born
        <4>8. QED
          BY <2>1, <4>2, <4>5, <4>7 DEF Coming, Born, Event
      <3>3. QED
        BY <3>1, <3>2
    <2>6. QED
      BY <2>2, <2>4, <2>5 DEF NoneForgotten
  <1>3. ASSUME NEW path \in DirPaths, Rmdir(path)
        PROVE  FALSE
    BY <1>3 DEF Rmdir
  <1>4. ASSUME NEW path \in FilePaths, WriteFile(path) \/ Unlink(path)
        PROVE  NoneForgotten'
    <2>1. Last(path) \in Names /\ Front(path) \in DOMAIN dirs
      BY <1>4, PathTypes, ParentAndName DEF WriteFile, Unlink, Base, TypeOK, WorldOK
    <2>2. dirs' = dirs /\ UNCHANGED <<root, set, pc, control>>
      BY <1>4 DEF WriteFile, Unlink, watched
    <2>3. PICK kind \in Kinds : inst' = Notify(Front(path), kind, Last(path))
      BY <1>4 DEF WriteFile, Unlink, Kinds
    <2>4. \A p \in DOMAIN dirs : Key(p)' \notin set' => Coming(p)'
      BY <1>1, <2>1, <2>2, <2>3
    <2>5. QED
      BY <2>2, <2>4 DEF NoneForgotten
  <1>5. QED
    BY <1>2, <1>3, <1>4 DEF World

LEMMA WalkComing ==
  ASSUME PlainRoots, Base, Truth, NoneForgotten, Walk, pc' \notin {"exit", "crash"}
  PROVE  NoneForgotten'
  <1>0. /\ pc \in {"initwalk", "handle"} /\ walk # <<>> /\ buf' = buf
        /\ dirs' = dirs /\ root' = root /\ UNCHANGED <<world, root>>
        /\ DOMAIN dirs \subseteq Seq(Names) /\ root \in Roots
    BY PathTypes DEF Walk, world, Base, TypeOK, WorldOK, MembersOK
  <1>1. Watching /\ \A p \in DOMAIN dirs : Key(p) \notin set => p # <<>> /\ Coming(p)
    BY <1>0 DEF Truth, NoneForgotten, Coming
  <1> DEFINE key == Head(walk).key
  <1>2. /\ Head(walk) \in Entries /\ Tail(walk) \in Seq(Entries)
        /\ Range(walk) = {Head(walk)} \cup Range(Tail(walk))
        /\ Head(walk) = Entry(Head(walk).kind, key)
    BY <1>0, WalkHead
  <1>3. \A k, l, x, y : Entry(k, x) = Entry(l, y) => k = l /\ x = y
    BY DEF Entry
  <1>4. \A p, q \in DOMAIN dirs : Key(p) = Key(q) => p = q
    BY <1>0, KeyFacts
  <1>5. \A p \in DOMAIN dirs \ {<<>>} : Front(p) \in DOMAIN dirs
    BY DEF Base, TypeOK, WorldOK
  <1>6. SUFFICES ASSUME NEW p \in DOMAIN dirs, Key(p) \notin set'
                 PROVE  Coming(p)'
    <2>1. \A p \in DOMAIN dirs : Key(p)' = Key(p)
      BY <1>0 DEF Key
    <2>2. QED
      BY <1>0, <1>6, <2>1 DEF NoneForgotten
  <1> HIDE DEF key
  <1>7. CASE OpenWalk
    <2>1. /\ Head(walk).kind = "open" /\ UNCHANGED <<kernel, watched>>
          /\ Tail(walk) = <<>>
      <3>1. Head(walk).kind = "open" /\ UNCHANGED <<kernel, watched>>
        BY <1>7 DEF OpenWalk
      <3>2. QED
        BY <1>2, <3>1 DEF Truth, Handling
    <2>2. PICK q \in DOMAIN dirs : key = Key(q)
      BY <1>0, <2>1, WalkHead DEF key
    <2>3. Lookup(key) # {}
      BY <2>2, LookupOfKey DEF Base
    <2>4. walk' = <<Entry("dir", key)>>
      BY <1>7, <2>3 DEF OpenWalk, key
    <2>5. Range(walk') = {Entry("dir", key)} /\ Range(walk) = {Entry("open", key)}
      BY <1>2, <2>1, <2>4, RangeOfSingle, RangeOfEmpty
    <2>6. set' = set /\ inst' = inst
      BY <2>1 DEF kernel, watched
    <2>7. p # <<>> /\ Coming(p)
      BY <1>1, <1>6, <2>6
    <2>8. QED
      BY <1>0, <1>3, <2>5, <2>6, <2>7, ComingMoves
  <1>8. CASE VisitDir
    <2>1. Head(walk).kind = "dir" /\ Head(walk) = Entry("dir", key)
      BY <1>2, <1>8 DEF VisitDir
    <2>2. PICK q \in DOMAIN dirs : key = Key(q)
      BY <1>0, <2>1, WalkHead DEF key
    <2>3. Range(walk') = {Entry("list", key)} \cup Range(Tail(walk))
      <3>1. Entry("list", key) \in Entries
        BY <1>2 DEF Entries, Entry, key
      <3>2. walk' = <<Entry("list", key)>> \o Tail(walk) /\ <<Entry("list", key)>> \in Seq(Entries)
        BY <1>8, <3>1 DEF VisitDir, key
      <3>3. Range(walk') = Range(<<Entry("list", key)>>) \cup Range(Tail(walk))
        <4> DEFINE one == <<Entry("list", key)>>
        <4>1. Tail(walk) \in Seq(Entries) /\ one \in Seq(Entries) /\ walk' = one \o Tail(walk)
          BY <1>2, <3>2
        <4> HIDE DEF one
        <4>2. Range(one \o Tail(walk)) = Range(one) \cup Range(Tail(walk))
          BY <4>1, RangeConcatenation, ZenonT(30)
        <4>3. QED
          BY <4>1, <4>2 DEF one
      <3>4. QED
        BY <3>3, RangeOfSingle
    <2>4. /\ set' = set \/ set' = set \cup {key}
          /\ key \in set' \/ (q # <<>> /\ Last(key) = Last(q) /\ Last(q) \in DotNames)
          /\ \A fd \in DOMAIN inst : fd \in DOMAIN inst' /\ inst'[fd].queue = inst[fd].queue
      <3>1. CASE Last(key) \in DotNames /\ UNCHANGED <<kernel, watched, pc>>
        \* The root is in the set since init, and any other is hidden.
        <4>1. q # <<>> => Last(key) = Last(q)
          BY <1>0, <2>2, KeyEndsInName DEF Base, TypeOK, WorldOK
        <4>2. q = <<>> => key \in set
          BY <1>1, <2>2
        <4>3. QED
          BY <3>1, <4>1, <4>2 DEF kernel, watched
      <3>2. CASE addWatch(key, pc)
        <4>1. addWatch(Key(q), pc)
          BY <2>2, <3>2
        <4>2. /\ \A fd \in DOMAIN inst : fd \in DOMAIN inst' /\ inst'[fd] = inst[fd]
              /\ \/ pc' = "exit" /\ set' = set
                 \/ pc' = pc /\ set' = set \cup {Key(q)}
          BY <1>0, <1>1, <4>1, AddWatchTruth
        <4>3. QED
          BY <2>2, <4>2
      <3>3. QED
        BY <1>8, <3>1, <3>2 DEF VisitDir, key
    <2>5. p # <<>> /\ Coming(p)
      BY <1>1, <1>6, <2>4
    <2>6. Key(Front(p)) \notin set /\ Key(Front(p)) \in set' =>
             Entry("list", Key(Front(p))) \in Range(walk')
      BY <2>3, <2>4
    <2>7. CASE Last(p) \in DotNames
      BY <2>5, <2>7 DEF Coming
    <2>8. CASE Last(p) \notin DotNames
      <3>1. Key(p) # key
        BY <1>4, <1>6, <2>2, <2>4, <2>8
      <3>2. Entry("dir", Key(p)) \in Range(walk) => Entry("dir", Key(p)) \in Range(walk')
        BY <1>2, <1>3, <2>1, <2>3, <3>1
      <3>3. \A kind \in {"open", "dir", "list"} : Entry(kind, Key(Front(p))) \in Range(walk) =>
               \E k \in {"open", "dir", "list"} : Entry(k, Key(Front(p))) \in Range(walk')
        BY <1>2, <1>3, <2>1, <2>3
      <3>4. QED
        BY <1>0, <2>4, <2>5, <2>6, <3>2, <3>3, ComingMoves
    <2>9. QED
      BY <2>7, <2>8
  <1>9. CASE VisitFile
    <2>1. /\ Head(walk) = Entry("file", key) /\ walk' = Tail(walk)
          /\ set' = set /\ inst' = inst
      BY <1>2, <1>9 DEF VisitFile, kernel
    <2>2. p # <<>> /\ Coming(p)
      BY <1>1, <1>6, <2>1
    <2>3. \A kind \in {"open", "dir", "list"} : \A x :
             Entry(kind, x) \in Range(walk) => Entry(kind, x) \in Range(walk')
      BY <1>2, <1>3, <2>1
    <2>4. QED
      BY <1>0, <2>1, <2>2, <2>3, ComingMoves
  <1>10. CASE ListDir
    <2>1. Head(walk) = Entry("list", key) /\ set' = set /\ inst' = inst
      BY <1>2, <1>10 DEF ListDir, kernel, watched
    <2>2. PICK q \in DOMAIN dirs : key = Key(q)
      <3>1. Head(walk).kind = "list"
        BY <1>10 DEF ListDir
      <3>2. QED
        BY <1>0, <3>1, WalkHead DEF key
    <2>3. PICK order \in Seq(Entries) :
             /\ Range(order) = Found(key, "dir", DOMAIN dirs) \cup Found(key, "file", files)
             /\ walk' = order \o Tail(walk)
      BY <1>0, <1>10, ListedEntries DEF Base, key
    <2>4. Range(walk') = Range(order) \cup Range(Tail(walk))
      <3>1. Tail(walk) \in Seq(Entries)
        BY <1>2
      <3>2. QED
        BY <2>3, <3>1, RangeConcatenation, ZenonT(30)
    <2>5. p # <<>> /\ Coming(p)
      BY <1>1, <1>6, <2>1
    <2>6. Key(Front(p)) = key => Entry("dir", Key(p)) \in Range(walk')
      <3>1. Key(Front(p)) = key => Front(p) = q
        BY <1>4, <1>5, <2>2, <2>5
      <3>2. Front(p) = q => Entry("dir", Key(p)) \in Found(key, "dir", DOMAIN dirs)
        BY <1>0, <2>2, <2>5, FoundKeys
      <3>3. QED
        BY <2>3, <2>4, <3>1, <3>2
    <2>7. Entry("dir", Key(p)) \in Range(walk) => Entry("dir", Key(p)) \in Range(walk')
      BY <1>2, <1>3, <2>1, <2>4
    <2>8. \A kind \in {"open", "dir", "list"} : Entry(kind, Key(Front(p))) \in Range(walk) =>
             \/ Entry("dir", Key(p)) \in Range(walk')
             \/ \E k \in {"open", "dir", "list"} : Entry(k, Key(Front(p))) \in Range(walk')
      BY <1>2, <1>3, <2>1, <2>4, <2>6
    <2>9. QED
      BY <1>0, <2>1, <2>5, <2>7, <2>8, ComingMoves
  <1>11. QED
    BY <1>7, <1>8, <1>9, <1>10 DEF Walk

LEMMA ClientComing ==
  ASSUME PlainRoots, Base, Truth, NoneForgotten, pc' \notin {"destroyed", "exit", "crash"},
         FsWatchInit \/ InitDone \/ OnEmptyDirCbk \/ Start \/ Destroy \/ RemoveRoot
  PROVE  NoneForgotten'
  <1>1. CASE FsWatchInit
    <2>1. /\ pc = "new" /\ walk' = <<Entry("open", root)>> /\ buf' = buf
          /\ dirs' = dirs /\ root' = root /\ UNCHANGED <<world, root>>
      BY <1>1 DEF FsWatchInit, world
    <2>2. <<>> \in DOMAIN dirs /\ Key(<<>>) = root
      BY KeyFacts DEF Base, TypeOK, WorldOK, MembersOK
    <2>3. addWatch(Key(<<>>), "initwalk") /\ Watching
      BY <1>1, <2>2 DEF FsWatchInit, Truth
    <2>4. /\ \A fd \in DOMAIN inst : fd \in DOMAIN inst' /\ inst'[fd] = inst[fd]
          /\ set' = set \cup {root}
      BY <2>1, <2>2, <2>3, AddWatchTruth
    <2>5. Range(walk') = {Entry("open", root)} /\ Range(walk) = {}
      <3>1. walk = <<>>
        BY <2>1 DEF Truth, Handling
      <3>2. QED
        BY <2>1, <3>1, RangeOfSingle, RangeOfEmpty
    <2>6. ASSUME NEW p \in DOMAIN dirs, Key(p) \notin set'
          PROVE  Coming(p)'
      <3>1. p # <<>> /\ Coming(p)
        BY <2>1, <2>2, <2>4, <2>6 DEF NoneForgotten
      <3>2. QED
        BY <2>1, <2>4, <2>5, <3>1, ComingMoves
    <2>7. \A p \in DOMAIN dirs : Key(p)' = Key(p)
      BY <2>1 DEF Key
    <2>8. QED
      BY <2>1, <2>6, <2>7 DEF NoneForgotten
  <1>2. CASE InitDone \/ OnEmptyDirCbk \/ Start \/ Destroy
    <2>1. /\ inst' = inst /\ dirs' = dirs /\ root' = root /\ set' = set
          /\ buf' = buf /\ walk' = walk
          /\ pc \notin {"exit", "crash"} /\ (pc = "new" => pc' = "new")
      BY <1>2 DEF InitDone, OnEmptyDirCbk, Start, Destroy, world, kernel, watched, control
    <2>2. ASSUME NEW p \in DOMAIN dirs, Key(p) \notin set
          PROVE  Coming(p)'
      <3>1. Coming(p)
        BY <2>1, <2>2 DEF NoneForgotten
      <3>2. QED
        BY <2>1, <3>1, ComingStays
    <2>3. \A p \in DOMAIN dirs : Key(p)' = Key(p)
      BY <2>1 DEF Key
    <2>4. QED
      BY <2>1, <2>2, <2>3 DEF NoneForgotten
  <1>3. ~ RemoveRoot
    BY DEF RemoveRoot, removeWatch
  <1>4. QED
    BY <1>1, <1>2, <1>3

LEMMA LoopComing ==
  ASSUME PlainRoots, Base, Truth, NoneForgotten, pc' \notin {"exit", "crash"},
         LoopCheck \/ EpollWait \/ NextFd \/ ReadEvents \/ BufferDone
  PROVE  NoneForgotten'
  <1>0. /\ dirs' = dirs /\ root' = root /\ set' = set /\ walk' = walk
        /\ pc \in {"check", "epoll", "next", "read", "handle"}
    BY DEF LoopCheck, EpollWait, NextFd, ReadEvents, BufferDone, world, watched, control
  <1>1. \A p \in DOMAIN dirs : Key(p)' = Key(p) /\ (Key(p) \notin set => p # <<>> /\ Coming(p))
    BY <1>0 DEF Key, NoneForgotten, Coming
  <1>2. SUFFICES ASSUME NEW p \in DOMAIN dirs, p # <<>>, Coming(p)
                 PROVE  Coming(p)'
    BY <1>0, <1>1, <1>2 DEF NoneForgotten
  <1>3. CASE inst' = inst /\ buf' = buf
    BY <1>0, <1>2, <1>3, ComingStays
  <1>4. CASE /\ pc = "read" /\ Head(batch) \in DOMAIN inst
             /\ buf' = inst[Head(batch)].queue
             /\ inst' = [inst EXCEPT ![Head(batch)].queue = <<>>]
    <2> DEFINE fd == Head(batch)
    <2>1. /\ fd \in DOMAIN inst /\ buf' = inst[fd].queue
          /\ inst' = [inst EXCEPT ![fd].queue = <<>>] /\ buf = <<>>
      BY <1>4 DEF Truth, Handling
    <2>2. /\ DOMAIN inst' = DOMAIN inst
          /\ \A x \in DOMAIN inst \ {fd} : inst'[x] = inst[x]
      BY <2>1
    <2>3. Range(buf) = {}
      BY <2>1, RangeOfEmpty
    <2>4. \/ Last(p) \in DotNames
          \/ Key(Front(p)) \notin set'
          \/ \E x \in DOMAIN inst' : Born(p) \in Range(inst'[x].queue)
          \/ Born(p) \in Range(buf')
          \/ Entry("dir", Key(p)) \in Range(walk')
          \/ \E kind \in {"open", "dir", "list"} : Entry(kind, Key(Front(p))) \in Range(walk')
      BY <1>0, <1>2, <2>1, <2>2, <2>3 DEF Coming
    <2>5. Key(Front(p))' = Key(Front(p)) /\ Key(p)' = Key(p)
      BY <1>0 DEF Key
    <2>6. QED
      BY <1>2, <2>4, <2>5 DEF Coming, Born, Event, Entry
  <1>5. \/ inst' = inst /\ buf' = buf
        \/ /\ pc = "read" /\ Head(batch) \in DOMAIN inst
           /\ buf' = inst[Head(batch)].queue
           /\ inst' = [inst EXCEPT ![Head(batch)].queue = <<>>]
    BY DEF LoopCheck, EpollWait, NextFd, ReadEvents, BufferDone, kernel, control
  <1>6. QED
    BY <1>3, <1>4, <1>5

LEMMA HandleEventComing ==
  ASSUME PlainRoots, Base, Truth, NoneForgotten, pc' \notin {"exit", "crash"}, HandleEvent
  PROVE  NoneForgotten'
  <1> DEFINE event == Head(buf)
             child == Append(event.dir, event.name)
             path  == getFullPath(Head(batch), event.name)
  <1>1. /\ pc = "handle" /\ buf # <<>> /\ walk = <<>> /\ buf' = Tail(buf)
        /\ dirs' = dirs /\ root' = root /\ UNCHANGED <<world, root>>
    BY DEF HandleEvent, world
  <1>2. /\ event.kind \in {"mkdir", "write", "unlink"} /\ event \in Events
        /\ event.kind = "mkdir" => child \in DOMAIN dirs
        /\ path = Key(child)
        /\ Range(buf) = {event} \cup Range(buf')
    BY <1>1, EventTruth
  <1>3. \/ event.kind = "mkdir" /\ handleDirectoryCreate(path)
        \/ event.kind # "mkdir" /\ (handleFileModify(path, event) \/ handleFileDelete(path, event))
    BY <1>2 DEF HandleEvent
  <1>4. \A p \in DOMAIN dirs : Key(p)' = Key(p) /\ (Key(p) \notin set => p # <<>> /\ Coming(p))
    BY <1>1 DEF Key, NoneForgotten, Coming
  <1>5. \A p \in DOMAIN dirs \ {<<>>} : event = Born(p) => event.kind = "mkdir" /\ child = p
    <2> TAKE p \in DOMAIN dirs \ {<<>>}
    <2>1. p \in Seq(Names) /\ p # <<>>
      BY PathTypes DEF Base, TypeOK, WorldOK
    <2>2. p = Append(Front(p), Last(p))
      BY <2>1, ParentAndName
    <2>3. QED
      BY <2>2 DEF Born, Event
  <1>6. SUFFICES ASSUME NEW p \in DOMAIN dirs, Key(p) \notin set'
                 PROVE  Coming(p)'
    BY <1>1, <1>4, <1>6 DEF NoneForgotten
  <1>7. Range(walk) = {}
    BY <1>1, RangeOfEmpty
  <1> HIDE DEF event, child, path
  <1>8. CASE event.kind = "mkdir" /\ handleDirectoryCreate(path)
    <2>1. child \in DOMAIN dirs /\ addWatch(Key(child), "handle") /\ Watching
      BY <1>2, <1>8 DEF handleDirectoryCreate, Truth
    <2>2. /\ \A fd \in DOMAIN inst : fd \in DOMAIN inst' /\ inst'[fd] = inst[fd]
          /\ set' = set \cup {Key(child)}
      BY <1>1, <2>1, AddWatchTruth
    <2>3. Range(walk') = {Entry("open", Key(child))}
      BY <1>2, <1>8, RangeOfSingle DEF handleDirectoryCreate
    <2>4. p # <<>> /\ Coming(p) /\ p # child
      BY <1>4, <1>6, <2>2
    <2>5. Born(p) \in Range(buf) => Born(p) \in Range(buf')
      BY <1>2, <1>5, <2>4
    <2>6. QED
      BY <1>1, <1>7, <2>2, <2>3, <2>4, <2>5, ComingMoves
  <1>9. CASE event.kind # "mkdir" /\ (handleFileModify(path, event) \/ handleFileDelete(path, event))
    <2>1. inst' = inst /\ set' = set /\ walk' = walk
      BY <1>9 DEF handleFileModify, handleFileDelete, kernel
    <2>2. p # <<>> /\ Coming(p)
      BY <1>4, <1>6, <2>1
    <2>3. Born(p) \in Range(buf) => Born(p) \in Range(buf')
      BY <1>2, <1>5, <1>9, <2>2
    <2>4. QED
      BY <1>1, <2>1, <2>2, <2>3, ComingMoves
  <1>10. QED
    BY <1>3, <1>8, <1>9

LEMMA NextComing ==
  ASSUME PlainRoots, FullInv, [Next]_vars
  PROVE  FullInv'
  <1>1. Inv /\ Inv' /\ Base
    BY NextTruth DEF FullInv, Inv
  <1>2. ASSUME Intact', pc' \notin {"exit", "crash"}
        PROVE  NoneForgotten'
    <2>1. Intact
      BY <1>2, StaysGone DEF Intact
    <2>2. Truth /\ NoneForgotten
      BY <2>1 DEF FullInv, Inv, Truth
    <2>3. CASE World
      BY <1>1, <1>2, <2>2, <2>3, WorldComing DEF Intact
    <2>4. CASE Watcher
      BY <1>1, <1>2, <2>2, <2>4, LoopComing, HandleEventComing, WalkComing DEF Watcher
    <2>5. CASE FsWatchInit \/ InitDone \/ OnEmptyDirCbk \/ Start \/ Destroy \/ RemoveRoot
      BY <1>1, <1>2, <2>2, <2>5, ClientComing DEF Intact
    <2>6. CASE UNCHANGED vars
      <3>1. /\ inst' = inst /\ dirs' = dirs /\ root' = root /\ set' = set
            /\ buf' = buf /\ walk' = walk /\ pc' = pc
        BY <2>6 DEF vars, world, kernel, watched, control
      <3>2. \A p \in DOMAIN dirs : Coming(p) => Coming(p)'
        BY <3>1, ComingStays
      <3>3. \A p \in DOMAIN dirs : Key(p)' = Key(p)
        BY <3>1 DEF Key
      <3>4. QED
        BY <2>2, <3>1, <3>2, <3>3 DEF NoneForgotten
    <2>7. QED
      BY <2>3, <2>4, <2>5, <2>6 DEF Next
  <1>3. pc' \in {"exit", "crash"} => NoneForgotten'
    BY DEF NoneForgotten
  <1>4. QED
    BY <1>1, <1>2, <1>3 DEF FullInv

LEMMA InitInv ==
  ASSUME PlainRoots, Init
  PROVE  FullInv
  <1>1. Base
    BY InitBase
  <1>2. Truth
    BY RangeOfEmpty DEF Init, Truth, Watching, Handling, Reported
  <1>3. NoneForgotten
    <2>1. set = {} /\ pc = "new"
      BY DEF Init
    <2>2. QED
      BY <2>1 DEF NoneForgotten, Coming
  <1>4. QED
    BY <1>1, <1>2, <1>3 DEF FullInv, Inv, Truth, Reported, PathsTrue

\* A directory is hidden by its own name or by its parent's path.
LEMMA HiddenParent ==
  ASSUME NEW p \in Seq(Names), p # <<>>
  PROVE  Hidden(p) <=> Last(p) \in DotNames \/ Hidden(Front(p))
  <1>1. /\ Front(p) \in Seq(Names) /\ Len(Front(p)) = Len(p) - 1 /\ p = Append(Front(p), Last(p))
        /\ Len(p) \in Nat
    BY ParentAndName, LenProperties
  <1> DEFINE f == Front(p)
             l == Last(p)
  <1>2. f \in Seq(Names) /\ Len(f) \in Nat /\ Len(p) = Len(f) + 1 /\ p = Append(f, l)
    BY <1>1, LenProperties
  <1>3. DOMAIN f = 1 .. Len(f) /\ DOMAIN p = 1 .. Len(f) + 1
    BY <1>2, LenProperties
  <1> HIDE DEF f, l
  <1>4. l \in Names
    BY <1>1 DEF l, Last
  <1>5. \A i \in DOMAIN f : i \in DOMAIN p /\ p[i] = f[i]
    BY <1>2, <1>3, <1>4, AppendProperties
  <1>6. p[Len(f) + 1] = l
    BY <1>2, <1>3, <1>4, AppendProperties
  <1>7. \A i \in DOMAIN p : i \in DOMAIN f \/ i = Len(f) + 1
    BY <1>2, <1>3
  <1>8. Len(f) + 1 \in DOMAIN p
    BY <1>2, <1>3
  <1>9. Hidden(p) <=> l \in DotNames \/ Hidden(f)
    BY <1>5, <1>6, <1>7, <1>8 DEF Hidden
  <1>10. QED
    BY <1>9 DEF f, l

\* When the watcher has caught up nothing is coming any more, so that a directory
\* that is not watched would have a parent that is not watched, up to the root.
LEMMA CaughtUp ==
  ASSUME PlainRoots, FullInv
  PROVE  AllWatched
  <1> SUFFICES ASSUME Quiet, Plain
               PROVE  \A p \in {q \in DOMAIN dirs : ~Hidden(q)} :
                         \E fd \in epoll :
                            /\ Watches(dirs[p]) = {fd}
                            /\ map[fd] = (IF p = <<>> THEN root ELSE TrueKey(p))
    BY DEF AllWatched
  <1>1. Base /\ Truth /\ NoneForgotten /\ pc = "epoll"
    BY DEF FullInv, Inv, Intact, Quiet, Plain, Truth
  <1>2. DOMAIN dirs \subseteq Seq(Names) /\ root \in Roots
    BY <1>1, PathTypes DEF Base, TypeOK, WorldOK, MembersOK
  <1>3. ASSUME NEW p \in DOMAIN dirs, ~Hidden(p), Key(p) \notin set
        PROVE  p # <<>> /\ Key(Front(p)) \notin set /\ Front(p) \in DOMAIN dirs /\ ~Hidden(Front(p))
    <2>1. buf = <<>> /\ walk = <<>> /\ \A fd \in DOMAIN inst : inst[fd].queue = <<>>
      BY <1>1 DEF Truth, Handling, Quiet
    <2>2. Coming(p)
      BY <1>1, <1>3 DEF NoneForgotten
    <2>3. p # <<>> => Last(p) \notin DotNames /\ ~Hidden(Front(p))
      BY <1>2, <1>3, HiddenParent
    <2>4. p # <<>> /\ Key(Front(p)) \notin set
      BY <1>1, <2>1, <2>2, <2>3, RangeOfEmpty DEF Coming
    <2>5. QED
      BY <1>1, <2>3, <2>4 DEF Base, TypeOK, WorldOK
  <1>4. \A p \in DOMAIN dirs : Hidden(p) \/ Key(p) \in set
    <2> DEFINE lost == {p \in DOMAIN dirs : ~Hidden(p) /\ Key(p) \notin set}
               sizes == {Len(p) : p \in lost}
    <2>1. SUFFICES ASSUME lost # {}
                   PROVE  FALSE
      OBVIOUS
    <2>2. sizes \subseteq Nat /\ sizes # {}
      <3>1. \A p \in DOMAIN dirs : Len(p) \in Nat
        BY <1>2, LenProperties
      <3>2. sizes \subseteq Nat
        BY <3>1
      <3>3. PICK p \in lost : TRUE
        BY <2>1
      <3>4. Len(p) \in sizes
        BY <3>3
      <3>5. QED
        BY <3>2, <3>4
    <2>3. PICK n \in sizes : \A m \in sizes : n <= m
      BY <2>2, LeastNumber
    <2>4. PICK p \in lost : Len(p) = n
      BY <2>3
    <2>5. p # <<>> /\ Front(p) \in lost /\ p \in Seq(Names)
      BY <1>2, <1>3
    <2>6. Len(Front(p)) = Len(p) - 1 /\ Len(p) \in Nat
      BY <2>5, ParentAndName, LenProperties
    <2>7. QED
      BY <2>3, <2>4, <2>5, <2>6
  <1>5. TAKE p \in {q \in DOMAIN dirs : ~Hidden(q)}
  <1>6. PICK fd \in DOMAIN map : map[fd] = Key(p)
    BY <1>1, <1>4 DEF Truth, Watching
  <1>7. /\ fd \in epoll /\ epoll = DOMAIN inst /\ DOMAIN map = DOMAIN inst
        /\ \A x \in DOMAIN inst : \E q \in DOMAIN dirs : inst[x].on = dirs[q] /\ map[x] = Key(q)
        /\ \A x \in DOMAIN inst : map[x] = map[fd] => x = fd
    BY <1>1, <1>6 DEF Truth, Watching
  <1>8. inst[fd].on = dirs[p]
    BY <1>2, <1>6, <1>7, KeyFacts
  <1>9. ASSUME NEW x \in epoll, inst[x].on = dirs[p]
        PROVE  x = fd
    <2>1. PICK q \in DOMAIN dirs : inst[x].on = dirs[q] /\ map[x] = Key(q)
      BY <1>7
    <2>2. q = p
      BY <1>1, <1>9, <2>1, InodesDiffer DEF Base
    <2>3. QED
      BY <1>6, <1>7, <2>1, <2>2
  <1>10. Watches(dirs[p]) = {fd}
    BY <1>7, <1>8, <1>9 DEF Watches
  <1>11. map[fd] = (IF p = <<>> THEN root ELSE TrueKey(p))
    BY <1>2, <1>6, KeyFacts
  <1>12. QED
    BY <1>7, <1>10, <1>11
-----------------------------------------------------------------------------
(* The theorems *)

\* The inductive invariant, for roots that do not end in a slash.
THEOREM BeliefsAreTrue ==
  ASSUME PlainRoots
  PROVE  Spec => []Inv
  <1>1. Init => Inv
    BY InitInv DEF FullInv
  <1>2. Inv /\ [Next]_vars => Inv'
    BY NextTruth
  <1>3. QED
    BY <1>1, <1>2, PTL DEF Spec

\* Epoll holds only descriptors that are open and that epollThreadRoutine finds in
\* the map, however directories come and go and whatever the tree calls dropCbk for
\* (fs-watch.cpp: addWatch, dropCbk, epollThreadRoutine).
THEOREM EpollIsOpen ==
  ASSUME PlainRoots
  PROVE  Spec => []EpollOpen
  <1>1. Inv => EpollOpen
    BY DEF Inv, Base
  <1>2. QED
    BY <1>1, BeliefsAreTrue, PTL

\* While no directory has been removed a file is reported to onNewFile under its
\* own path, for every file system (fs-watch.cpp: getFullPath, handleFileModify).
THEOREM ReportsAreTrue ==
  ASSUME PlainRoots
  PROVE  Spec => []PathsTrue
  <1>1. Inv => PathsTrue
    BY DEF Inv
  <1>2. QED
    BY <1>1, BeliefsAreTrue, PTL

\* Whenever the watcher has caught up, every directory is watched by exactly one
\* instance under its own key, whatever the races of mkdir with addWatch and the
\* walk were, unless it is hidden or below one that is (fs-watch.cpp: addWatch, onFile,
\* handleDirectoryCreate; fts.cpp: walk).
THEOREM NoDirectoryIsForgotten ==
  ASSUME PlainRoots
  PROVE  Spec => []AllWatched
  <1>1. Init => FullInv
    BY InitInv
  <1>2. FullInv /\ [Next]_vars => FullInv'
    BY NextComing
  <1>3. FullInv => AllWatched
    BY CaughtUp
  <1>4. QED
    BY <1>1, <1>2, <1>3, PTL DEF Spec
-----------------------------------------------------------------------------
(* The books: the set, the tree and the open instances *)

\* The roots under which DirTree calls back with the strings it was given: those that
\* begin with a dot and have no empty name.
DottedRoots == \A r \in Roots : r[1] \in DotNames /\ \A i \in DOMAIN r : r[i] # ""

\* Where files can be tracked, no name is both a directory's and a file's.
DirNames  == {Last(p) : p \in DirPaths}
FileNames == {Last(p) : p \in FilePaths}
NamesApart == MayTrack => DirNames \cap FileNames = {}

\* The strings of directories, there or not.
DirKeys(r) == {r \o q : q \in Seq(DirNames)}

LEMMA NameTypes ==
  /\ DirNames \subseteq STRING /\ FileNames \subseteq STRING
  /\ DirNames \subseteq Names /\ FileNames \subseteq Names
  /\ "" \notin DirNames /\ "" \notin FileNames
  <1>1. ASSUME NEW p \in DirPaths \cup FilePaths
        PROVE  Last(p) \in STRING /\ Last(p) # ""
    <2>1. p \in Seq(STRING) /\ p # <<>> /\ \A i \in DOMAIN p : p[i] # ""
      BY NamesAreStrings
    <2>2. Len(p) \in DOMAIN p
      <3>1. Len(p) \in Nat /\ Len(p) # 0 /\ DOMAIN p = 1 .. Len(p)
        BY <2>1, LenProperties, EmptySeq
      <3>2. Len(p) \in 1 .. Len(p)
        BY <3>1
      <3>3. QED
        BY <3>1, <3>2
    <2>3. Last(p) \in STRING
      BY <2>1, ParentAndName
    <2>4. QED
      BY <2>1, <2>2, <2>3 DEF Last
  <1>2. QED
    BY <1>1 DEF DirNames, FileNames, Names

\* A name below a plain root and plain names below it make a plain key.
LEMMA PlainBelow ==
  ASSUME DottedRoots, NEW r \in Roots, NEW S, S \subseteq STRING, "" \notin S, NEW q \in Seq(S)
  PROVE  /\ r \o q \in Seq(Names) /\ r \o q \in Seq(STRING) /\ r \o q # <<>>
         /\ Len(r) \in Nat \ {0} /\ Len(q) \in Nat /\ Len(r \o q) = Len(r) + Len(q)
         /\ normalize(r \o q) = r \o q /\ TokensOf(r \o q) = r \o q
         /\ Len(r) <= Len(r \o q) /\ Prefix(r \o q, Len(r)) = r
         /\ \A i \in 1 .. Len(q) : (r \o q)[Len(r) + i] = q[i]
         /\ \A i \in DOMAIN (r \o q) : (r \o q)[i] # ""
  <1>1. r \in Seq(STRING) /\ r # <<>> /\ r[1] \in DotNames /\ \A i \in DOMAIN r : r[i] # ""
    BY NamesAreStrings DEF DottedRoots
  <1>2. q \in Seq(STRING)
    BY SeqMonotonic
  <1>3. /\ Len(r) \in Nat \ {0} /\ Len(q) \in Nat /\ DOMAIN r = 1 .. Len(r)
        /\ \A i \in 1 .. Len(q) : q[i] \in S
    BY <1>1, LenProperties, EmptySeq
  <1>4. /\ r \o q \in Seq(STRING) /\ Len(r \o q) = Len(r) + Len(q)
        /\ \A i \in 1 .. Len(r) + Len(q) : (r \o q)[i] = IF i <= Len(r) THEN r[i] ELSE q[i - Len(r)]
    BY <1>1, <1>2, ConcatProperties
  <1>n. Len(r) \in Nat /\ Len(r) >= 1 /\ Len(q) \in Nat
    BY ONLY <1>3
  <1> DEFINE k == r \o q
  <1> HIDE DEF k
  <1>5. k \in Seq(STRING) /\ Len(k) = Len(r) + Len(q)
    BY <1>4 DEF k
  <1>6. \A i \in 1 .. Len(r) + Len(q) : k[i] = IF i <= Len(r) THEN r[i] ELSE q[i - Len(r)]
    BY <1>4 DEF k
  <1>7. k \in Seq(Names)
    BY <1>5, SeqMonotonic DEF Names
  <1>8. k # <<>> /\ k[1] = r[1] /\ DOMAIN k = 1 .. Len(r) + Len(q)
    <2>1. 1 \in 1 .. Len(r) + Len(q) /\ 1 <= Len(r) /\ Len(r) + Len(q) # 0
      BY ONLY <1>n
    <2>2. k[1] = r[1]
      BY <1>6, <2>1
    <2>3. k # <<>> /\ DOMAIN k = 1 .. Len(r) + Len(q)
      BY <1>5, <2>1, LenProperties, EmptySeq
    <2>4. QED
      BY <2>2, <2>3
  <1>9. \A i \in 1 .. Len(q) : k[Len(r) + i] = q[i]
    <2> TAKE i \in 1 .. Len(q)
    <2> DEFINE j == Len(r) + i
    <2>1. j \in 1 .. Len(r) + Len(q) /\ ~(j <= Len(r)) /\ j - Len(r) = i
      BY ONLY <1>n, i \in 1 .. Len(q)
    <2> HIDE DEF j
    <2>2. k[j] = q[j - Len(r)]
      BY <1>6, <2>1
    <2>3. QED
      BY <2>1, <2>2 DEF j
  <1>10. \A i \in DOMAIN k : k[i] # ""
    <2> TAKE i \in DOMAIN k
    <2>1. i \in 1 .. Len(r) + Len(q)
      BY <1>8
    <2>2. CASE i <= Len(r)
      <3>1. i \in 1 .. Len(r)
        BY ONLY <1>n, <2>1, <2>2
      <3>0. i \in DOMAIN r /\ k[i] = r[i]
        BY <1>3, <1>6, <2>1, <2>2, <3>1
      <3>2. QED
        BY <1>1, <3>0
    <2>3. CASE ~(i <= Len(r))
      <3>1. i - Len(r) \in 1 .. Len(q)
        BY ONLY <1>n, <2>1, <2>3
      <3>0. k[i] = q[i - Len(r)]
        BY <1>6, <2>1, <2>3
      <3>2. k[i] \in S
        BY <1>3, <3>0, <3>1
      <3>3. QED
        BY <3>2
    <2>4. QED
      BY <2>2, <2>3
  <1>11. k[1] \in DotNames
    BY <1>1, <1>8
  <1>12. normalize(k) = k /\ TokensOf(k) = k
    BY <1>7, <1>8, <1>10, <1>11, PlainKey
  <1>13. Len(r) \in 0 .. Len(k) /\ Len(r) <= Len(k)
    <2>1. Len(k) = Len(r) + Len(q)
      BY <1>5
    <2>2. QED
      BY ONLY <1>n, <2>1
  <1>14. Prefix(k, Len(r)) = r
    <2>1. /\ Prefix(k, Len(r)) \in Seq(STRING) /\ Len(Prefix(k, Len(r))) = Len(r)
          /\ \A i \in 1 .. Len(r) : Prefix(k, Len(r))[i] = k[i]
      <3>1. k \in Seq(STRING) /\ Len(r) \in 0 .. Len(k)
        BY <1>5, <1>13
      <3>2. QED
        BY <3>1, PrefixFacts, ZenonT(30)
    <2>2. \A i \in 1 .. Len(r) : k[i] = r[i]
      <3> TAKE i \in 1 .. Len(r)
      <3>1. i \in 1 .. Len(r) + Len(q) /\ i <= Len(r)
        BY ONLY <1>n, i \in 1 .. Len(r)
      <3>2. QED
        BY <1>6, <3>1
    <2>3. QED
      BY <1>1, <2>1, <2>2, SeqEqual
  <1>15. QED
    BY <1>3, <1>5, <1>7, <1>8, <1>9, <1>10, <1>12, <1>13, <1>14 DEF k

LEMMA DirKeyFacts ==
  ASSUME DottedRoots, NEW r \in Roots, NEW k \in DirKeys(r)
  PROVE  /\ k \in Seq(Names) /\ k \in Seq(STRING) /\ k # <<>>
         /\ normalize(k) = k /\ TokensOf(k) = k
         /\ Len(r) <= Len(k) /\ Prefix(k, Len(r)) = r /\ Last(k) # ""
  <1>1. PICK q \in Seq(DirNames) : k = r \o q
    BY DEF DirKeys
  <1>2. DirNames \subseteq STRING /\ "" \notin DirNames
    BY NameTypes
  <1>3. /\ k \in Seq(Names) /\ k \in Seq(STRING) /\ k # <<>>
        /\ normalize(k) = k /\ TokensOf(k) = k
        /\ Len(r) <= Len(k) /\ Prefix(k, Len(r)) = r
    BY <1>1, <1>2, PlainBelow
  <1>4. \A i \in DOMAIN k : k[i] # ""
    BY <1>1, <1>2, PlainBelow
  <1>5. Len(k) \in Nat /\ Len(k) # 0 /\ DOMAIN k = 1 .. Len(k)
    BY <1>3, LenProperties, EmptySeq
  <1>6. Len(k) \in 1 .. Len(k)
    BY ONLY <1>5
  <1>7. Last(k) # ""
    BY <1>4, <1>5, <1>6 DEF Last
  <1>8. QED
    BY <1>3, <1>7

LEMMA RootIsDirKey ==
  ASSUME NEW r \in Roots
  PROVE  r \in DirKeys(r)
  <1>1. r \in Seq(Names) /\ <<>> \in Seq(DirNames)
    BY PathTypes, EmptySeq
  <1>2. r = r \o <<>>
    BY <1>1, ConcatEmptySeq
  <1>3. QED
    BY <1>1, <1>2 DEF DirKeys

Under(r, q) == r \o q

\* A name more at the end of a key is a name more at the end of its path.
LEMMA KeyAppend ==
  ASSUME NEW S, NEW r \in Seq(S), NEW q \in Seq(S), NEW name \in S
  PROVE  Append(Under(r, q), name) = Under(r, Append(q, name))
  <1>1. r \o q \in Seq(S) /\ <<name>> \in Seq(S)
    BY ConcatProperties
  <1>2. Append(r \o q, name) = (r \o q) \o <<name>> /\ Append(q, name) = q \o <<name>>
    BY <1>1, AppendIsConcat
  <1>3. (r \o q) \o <<name>> = r \o (q \o <<name>>)
    BY <1>1, ConcatAssociative
  <1>4. QED
    BY <1>2, <1>3 DEF Under

LEMMA ChildDirKey ==
  ASSUME DottedRoots, NEW r \in Roots, NEW k \in DirKeys(r), NEW name \in DirNames
  PROVE  Append(k, name) \in DirKeys(r) /\ Len(Append(k, name)) > 1
  <1>1. PICK q \in Seq(DirNames) : k = r \o q
    BY DEF DirKeys
  <1>2. q \in Seq(STRING) /\ r \in Seq(STRING) /\ name \in STRING
    BY NameTypes, NamesAreStrings, SeqMonotonic
  <1>3. Append(k, name) = r \o Append(q, name)
    <2>1. q \in Seq(Names) /\ r \in Seq(Names) /\ name \in Names
      BY NameTypes, PathTypes, SeqMonotonic
    <2>2. Append(Under(r, q), name) = Under(r, Append(q, name))
      BY <2>1, KeyAppend
    <2>3. QED
      BY <1>1, <2>2 DEF Under
  <1>4. Append(q, name) \in Seq(DirNames)
    BY AppendProperties
  <1>5. k \in Seq(STRING) /\ k # <<>>
    BY DirKeyFacts
  <1>6. Len(k) \in Nat /\ Len(k) # 0 /\ Len(Append(k, name)) = Len(k) + 1
    BY <1>2, <1>5, LenOfAppend, EmptySeq, LenProperties
  <1>7. Len(Append(k, name)) > 1
    BY ONLY <1>6
  <1>8. QED
    BY <1>3, <1>4, <1>7 DEF DirKeys

\* No directory's string is at or below a file's.
IsFileKey(f, r) ==
    /\ f \in Seq(Names) /\ f # <<>> /\ TokensOf(f) = f
    /\ \A d \in DirKeys(r) : ~(Len(f) <= Len(d) /\ Prefix(d, Len(f)) = f)

LEMMA FileKeyFacts ==
  ASSUME DottedRoots, NamesApart, MayTrack,
         NEW r \in Roots, NEW k \in DirKeys(r), NEW name \in FileNames
  PROVE  IsFileKey(Append(k, name), r)
  <1> DEFINE f == Append(k, name)
  <1>0. f = Append(k, name)
    OBVIOUS
  <1> HIDE DEF f
  <1>1. PICK q \in Seq(DirNames) : k = r \o q
    BY DEF DirKeys
  <1>2. q \in Seq(STRING) /\ r \in Seq(STRING) /\ name \in STRING
    BY NameTypes, NamesAreStrings, SeqMonotonic
  <1>3. f = r \o Append(q, name)
    <2>1. q \in Seq(Names) /\ r \in Seq(Names) /\ name \in Names
      BY NameTypes, PathTypes, SeqMonotonic
    <2>2. Append(Under(r, q), name) = Under(r, Append(q, name))
      BY <2>1, KeyAppend
    <2>3. QED
      BY <1>0, <1>1, <2>2 DEF Under
  <1> DEFINE S == DirNames \cup FileNames
             fq == Append(q, name)
  <1>4. S \subseteq STRING /\ "" \notin S /\ DirNames \subseteq S /\ name \in S
    BY NameTypes
  <1> HIDE DEF S
  <1>5. q \in Seq(S)
    BY <1>4, SeqMonotonic
  <1>6. fq \in Seq(S) /\ Len(fq) = Len(q) + 1 /\ fq[Len(q) + 1] = name /\ Len(q) \in Nat
    <2>1. q \in Seq(S) /\ name \in S
      BY <1>4, <1>5
    <2>2. QED
      BY ONLY <2>1, AppendProperties, LenProperties
  <1> HIDE DEF fq
  <1>7. f = r \o fq
    BY <1>3 DEF fq
  <1>8. /\ f \in Seq(Names) /\ f # <<>> /\ TokensOf(f) = f
        /\ Len(r) \in Nat \ {0} /\ Len(fq) \in Nat /\ Len(f) = Len(r) + Len(fq)
        /\ \A i \in 1 .. Len(fq) : f[Len(r) + i] = fq[i]
    <2>1. fq \in Seq(S)
      BY <1>6
    <2>2. /\ f \in Seq(Names) /\ f # <<>> /\ TokensOf(f) = f
          /\ Len(r) \in Nat \ {0} /\ Len(fq) \in Nat /\ Len(f) = Len(r) + Len(fq)
      BY <1>4, <1>7, <2>1, PlainBelow
    <2>3. \A i \in 1 .. Len(fq) : f[Len(r) + i] = fq[i]
      <3> DEFINE u == Under(r, fq)
      <3>1. \A i \in 1 .. Len(fq) : u[Len(r) + i] = fq[i]
        BY <1>4, <2>1, PlainBelow DEF Under
      <3> HIDE DEF u
      <3>2. f = u
        BY <1>7 DEF u, Under
      <3>3. QED
        BY <3>1, <3>2
    <2>4. QED
      BY <2>2, <2>3
  <1>9. ASSUME NEW d \in DirKeys(r), Len(f) <= Len(d), Prefix(d, Len(f)) = f
        PROVE  FALSE
    <2>1. PICK p \in Seq(DirNames) : d = r \o p
      BY DEF DirKeys
    <2>2. DirNames \subseteq STRING /\ "" \notin DirNames
      BY NameTypes
    <2>3. /\ d \in Seq(Names) /\ Len(p) \in Nat /\ Len(d) = Len(r) + Len(p)
          /\ \A i \in 1 .. Len(p) : d[Len(r) + i] = p[i]
      BY <2>1, <2>2, PlainBelow
    <2> DEFINE i == Len(fq)
    <2>4. i \in 1 .. Len(fq) /\ i \in 1 .. Len(p) /\ Len(r) + i = Len(f)
      <3>1. Len(fq) \in Nat /\ Len(fq) >= 1 /\ Len(r) \in Nat
        BY <1>6, <1>8
      <3>2. Len(f) = Len(r) + Len(fq) /\ Len(d) = Len(r) + Len(p) /\ Len(p) \in Nat /\ Len(f) <= Len(d)
        BY <1>8, <1>9, <2>3
      <3>3. QED
        BY ONLY <3>1, <3>2
    <2>5. Len(f) \in 0 .. Len(d) /\ Len(f) \in 1 .. Len(f)
      <3>1. Len(f) \in Nat /\ Len(d) \in Nat
        BY <1>8, <2>3, LenProperties
      <3>2. Len(f) # 0
        BY <1>8, EmptySeq, LenProperties
      <3>3. QED
        BY ONLY <1>9, <3>1, <3>2
    <2>6. \A j \in 1 .. Len(f) : Prefix(d, Len(f))[j] = d[j]
      <3>1. d \in Seq(Names) /\ Len(f) \in 0 .. Len(d)
        BY <2>3, <2>5
      <3>2. QED
        BY <3>1, PrefixFacts
    <2>7. f[Len(f)] = d[Len(f)]
      BY <1>9, <2>5, <2>6
    <2> HIDE DEF i
    <2>8. f[Len(r) + i] = fq[i] /\ d[Len(r) + i] = p[i]
      BY <1>8, <2>3, <2>4
    <2>9. fq[i] = name
      BY <1>6 DEF i
    <2>10. p[i] \in DirNames
      BY <2>4, LenProperties
    <2>11. QED
      BY <2>4, <2>7, <2>8, <2>9, <2>10 DEF NamesApart
  <1>10. QED
    BY <1>0, <1>8, <1>9 DEF IsFileKey
-----------------------------------------------------------------------------
(* What insert and drop do to the books *)

\* Every directory of a set has its node.
Filed(t, at, s) == \A d \in s : \E n \in DOMAIN t : at[n] = d

\* A node with a TreeNode is a watched directory's, and the open descriptors are those
\* of the TreeNodes, one each.
Owned(t, at, s, fds) ==
    /\ \A n \in DOMAIN t : t[n].data # NULL => at[n] \in s /\ t[n].data.fd \in fds
    /\ \A m, n \in DOMAIN t :
          t[m].data # NULL /\ t[n].data # NULL /\ t[m].data.fd = t[n].data.fd => m = n
    /\ \A fd \in fds : \E n \in DOMAIN t : t[n].data # NULL /\ t[n].data.fd = fd

\* Whatever is inserted, what was filed stays so.
LEMMA InsertFiles ==
  ASSUME NEW t, NEW at, IsTree(t, at), NEW s, Filed(t, at, s),
         NEW key \in Seq(Names), key # <<>>, NEW data
  PROVE  \E bt : IsTree(insert(t, key, data), bt) /\ Filed(insert(t, key, data), bt, s)
  <1>1. TokensOf(key) \in Seq(Names)
    BY TokensFacts
  <1> DEFINE u == insert(t, key, data)
  <1>2. PICK bt, end : PathAdded(t, at, u, bt, TokensOf(key), end, data)
    BY <1>1, InsertMeans
  <1> HIDE DEF u
  <1>3. IsTree(u, bt) /\ DOMAIN t \subseteq DOMAIN u /\ \A n \in DOMAIN t : bt[n] = at[n]
    BY <1>2 DEF PathAdded
  <1>4. Filed(u, bt, s)
    BY <1>3 DEF Filed
  <1>5. QED
    BY <1>3, <1>4 DEF u

\* A directory that is not in the set gets a node with its TreeNode.
LEMMA WatchAdded ==
  ASSUME NEW t, NEW at, IsTree(t, at), NEW s, Filed(t, at, s),
         NEW dir \in Seq(Names), dir # <<>>, TokensOf(dir) = dir, dir \notin s,
         NEW fds, NEW data, data # NULL, data.fd \notin fds
  PROVE  \E bt :
            /\ IsTree(insert(t, dir, data), bt)
            /\ Filed(insert(t, dir, data), bt, s \cup {dir})
            /\ Owned(t, at, s, fds) =>
                  Owned(insert(t, dir, data), bt, s \cup {dir}, fds \cup {data.fd})
  <1> DEFINE u == insert(t, dir, data)
  <1>1. \E bt, end : PathAdded(t, at, u, bt, TokensOf(dir), end, data)
    BY InsertMeans
  <1> HIDE DEF u
  <1>2. PICK bt, end : PathAdded(t, at, u, bt, dir, end, data)
    BY <1>1
  <1>3. /\ IsTree(u, bt) /\ DOMAIN t \subseteq DOMAIN u
        /\ end \in DOMAIN u /\ bt[end] = dir /\ u[end].data = data
        /\ \A n \in DOMAIN t : bt[n] = at[n]
        /\ \A n \in DOMAIN t \ {end} : u[n].data = t[n].data
        /\ \A n \in (DOMAIN u \ DOMAIN t) \ {end} : u[n].data = NULL
    BY <1>2 DEF PathAdded
  <1>4. Filed(u, bt, s \cup {dir})
    BY <1>3 DEF Filed
  <1>5. ASSUME Owned(t, at, s, fds)
        PROVE  Owned(u, bt, s \cup {dir}, fds \cup {data.fd})
    <2>1. ASSUME NEW n \in DOMAIN u, u[n].data # NULL, n # end
          PROVE  n \in DOMAIN t /\ t[n].data = u[n].data /\ t[n].data # NULL
      BY <1>3, <2>1
    <2>2. ASSUME NEW n \in DOMAIN t, t[n].data # NULL
          PROVE  n \in DOMAIN u /\ n # end /\ u[n].data = t[n].data
      <3>1. at[n] \in s /\ bt[n] = at[n]
        BY <1>3, <1>5, <2>2 DEF Owned
      <3>2. n # end
        BY <1>3, <3>1
      <3>3. QED
        BY <1>3, <3>2
    <2>3. ASSUME NEW n \in DOMAIN u, u[n].data # NULL
          PROVE  bt[n] \in s \cup {dir} /\ u[n].data.fd \in fds \cup {data.fd}
      <3>1. CASE n = end
        BY <1>3, <3>1
      <3>2. CASE n # end
        <4>1. n \in DOMAIN t /\ t[n].data = u[n].data /\ t[n].data # NULL
          BY <2>1, <2>3, <3>2
        <4>2. at[n] \in s /\ t[n].data.fd \in fds
          BY <1>5, <4>1 DEF Owned
        <4>3. QED
          BY <1>3, <4>1, <4>2
      <3>3. QED
        BY <3>1, <3>2
    <2>4. ASSUME NEW n \in DOMAIN u, u[n].data # NULL, n # end
          PROVE  u[n].data.fd \in fds
      BY <1>5, <2>1, <2>4 DEF Owned
    <2>5. ASSUME NEW m \in DOMAIN u, NEW n \in DOMAIN u, u[m].data # NULL, u[n].data # NULL,
                 u[m].data.fd = u[n].data.fd
          PROVE  m = n
      <3>1. CASE m = end \/ n = end
        BY <1>3, <2>4, <2>5, <3>1
      <3>2. CASE m # end /\ n # end
        <4>1. /\ m \in DOMAIN t /\ t[m].data = u[m].data
              /\ n \in DOMAIN t /\ t[n].data = u[n].data
          BY <2>1, <2>5, <3>2
        <4>2. QED
          BY <1>5, <2>5, <4>1 DEF Owned
      <3>3. QED
        BY <3>1, <3>2
    <2>6. ASSUME NEW fd \in fds \cup {data.fd}
          PROVE  \E n \in DOMAIN u : u[n].data # NULL /\ u[n].data.fd = fd
      <3>1. CASE fd = data.fd
        BY <1>3, <3>1
      <3>2. CASE fd \in fds
        <4>1. PICK n \in DOMAIN t : t[n].data # NULL /\ t[n].data.fd = fd
          BY <1>5, <3>2 DEF Owned
        <4>2. QED
          BY <2>2, <4>1
      <3>3. QED
        BY <3>1, <3>2
    <2>7. QED
      BY <2>3, <2>5, <2>6 DEF Owned
  <1>6. QED
    BY <1>3, <1>4, <1>5 DEF u

\* What is not at or below a key stays filed when the key is dropped.
LEMMA OthersStayFiled ==
  ASSUME NEW t, NEW at, IsTree(t, at), NEW s, Filed(t, at, s),
         NEW key \in Seq(Names), key # <<>>, TokensOf(key) = key,
         \A d \in s : ~(Len(key) <= Len(d) /\ Prefix(d, Len(key)) = key)
  PROVE  \E bt : IsTree(drop(t, key).tree, bt) /\ Filed(drop(t, key).tree, bt, s)
  <1> DEFINE u == drop(t, key).tree
             kept == DOMAIN t \ Below(t, at, key)
             bt == [n \in kept |-> at[n]]
  <1>1. PathRemoved(t, at, u, key)
    BY DropMeans
  <1> HIDE DEF u
  <1>2. IsTree(u, bt) /\ DOMAIN u = kept
    BY <1>1 DEF PathRemoved
  <1>3. Filed(u, bt, s)
    BY <1>2 DEF Filed, Below
  <1>4. QED
    BY <1>2, <1>3 DEF u

\* The paths and the descriptors that dropCbk is called with.
CalledWith(calls, paths, closed) ==
    /\ \A c \in calls : c.data # NULL
    /\ paths = {c.path : c \in calls} /\ closed = {c.data.fd : c \in calls}

\* The books of tree t and those of tree u agree, when the directories below a key are
\* taken out of the set, and their descriptors closed.
Cleared(t, at, u, s, fds, key, paths, closed) ==
    /\ Owned(t, at, s, fds) /\ (\A d \in s : Len(key) <= Len(d) /\ Prefix(d, Len(key)) = key)
          => fds \ closed = {}
    /\ \E bt :
          /\ IsTree(u, bt)
          /\ Len(key) > 1 =>
                /\ Filed(u, bt, s \ paths)
                /\ Owned(t, at, s, fds) => Owned(u, bt, s \ paths, fds \ closed)

LEMMA WatchesRemoved ==
  ASSUME NEW t, NEW at, IsTree(t, at), NEW s, Filed(t, at, s),
         NEW key \in Seq(Names), key # <<>>, TokensOf(key) = key, normalize(key) = key,
         NEW paths, NEW closed, CalledWith(drop(t, key).calls, paths, closed), NEW fds
  PROVE  Cleared(t, at, drop(t, key).tree, s, fds, key, paths, closed)
  <1> DEFINE calls == drop(t, key).calls
  <1>0. /\ \A c \in calls : c.data # NULL
        /\ paths = {c.path : c \in calls} /\ closed = {c.data.fd : c \in calls}
    BY DEF CalledWith
  <1> DEFINE u == drop(t, key).tree
             B == Below(t, at, key)
             kept == DOMAIN t \ B
             bt == [n \in kept |-> at[n]]
  <1>1. PathRemoved(t, at, u, key)
    BY DropMeans
  <1>2. calls = {DropCall(t, at, key, n) : n \in B}
    BY DropMeans
  <1>3. \A n \in B : n \in DOMAIN t /\ DropCall(t, at, key, n).data = t[n].data
    BY DEF DropCall, Below
  <1>4. Len(key) > 1 => \A n \in B : DropCall(t, at, key, n).path = at[n]
    <2>1. \A n \in Below(t, at, key) : Len(key) > 1 =>
               DropCall(t, at, key, n) = [path |-> at[n], data |-> t[n].data]
      BY DropCalls
    <2>2. QED
      BY <2>1
  <1> HIDE DEF u, B, calls
  <1>5. IsTree(u, bt) /\ DOMAIN u = kept /\ \A n \in kept : u[n].data = t[n].data /\ bt[n] = at[n]
    BY <1>1 DEF PathRemoved, B
  <1>6. /\ closed = {t[n].data.fd : n \in B}
        /\ \A n \in B : t[n].data # NULL
    BY <1>0, <1>2, <1>3
  <1>7. Len(key) > 1 => paths = {at[n] : n \in B}
    BY <1>0, <1>2, <1>4
  <1> HIDE DEF kept, bt
  <1>8. DOMAIN u \subseteq DOMAIN t /\ DOMAIN u \cap B = {} /\ DOMAIN t \subseteq DOMAIN u \cup B
    BY <1>5 DEF kept
  <1>9. \A n \in DOMAIN u : u[n].data = t[n].data /\ bt[n] = at[n]
    BY <1>5
  <1>10. \A m, n \in DOMAIN t : at[m] = at[n] => m = n
    BY DEF IsTree
  <1>11. ASSUME Len(key) > 1
         PROVE  Filed(u, bt, s \ paths)
    <2>1. ASSUME NEW d \in s \ paths
          PROVE  \E n \in DOMAIN u : bt[n] = d
      <3>1. PICK n \in DOMAIN t : at[n] = d
        BY DEF Filed
      <3>2. n \notin B
        BY <1>7, <1>11, <3>1
      <3>3. QED
        BY <1>8, <1>9, <3>1, <3>2
    <2>2. QED
      BY <2>1 DEF Filed
  <1>12. ASSUME Len(key) > 1, Owned(t, at, s, fds)
         PROVE  Owned(u, bt, s \ paths, fds \ closed)
    <2>1. ASSUME NEW n \in DOMAIN u, u[n].data # NULL
          PROVE  bt[n] \in s \ paths /\ u[n].data.fd \in fds \ closed
      <3>1. n \in DOMAIN t /\ n \notin B /\ t[n].data # NULL /\ u[n].data = t[n].data /\ bt[n] = at[n]
        BY <1>8, <1>9, <2>1
      <3>2. at[n] \in s /\ t[n].data.fd \in fds
        BY <1>12, <3>1 DEF Owned
      <3>3. at[n] \notin paths
        BY <1>3, <1>7, <1>10, <1>12, <3>1
      <3>4. t[n].data.fd \notin closed
        <4>1. ASSUME NEW m \in B, t[m].data.fd = t[n].data.fd
              PROVE  m = n
          BY <1>3, <1>6, <1>12, <3>1, <4>1 DEF Owned
        <4>2. QED
          BY <1>6, <3>1, <4>1
      <3>5. QED
        BY <3>1, <3>2, <3>3, <3>4
    <2>2. \A m, n \in DOMAIN u :
             u[m].data # NULL /\ u[n].data # NULL /\ u[m].data.fd = u[n].data.fd => m = n
      BY <1>8, <1>9, <1>12 DEF Owned
    <2>3. ASSUME NEW fd \in fds \ closed
          PROVE  \E n \in DOMAIN u : u[n].data # NULL /\ u[n].data.fd = fd
      <3>1. PICK n \in DOMAIN t : t[n].data # NULL /\ t[n].data.fd = fd
        BY <1>12 DEF Owned
      <3>2. n \notin B
        BY <1>6, <3>1
      <3>3. QED
        BY <1>8, <1>9, <3>1, <3>2
    <2>4. QED
      BY <2>1, <2>2, <2>3 DEF Owned
  <1>13. ASSUME Owned(t, at, s, fds), \A d \in s : Len(key) <= Len(d) /\ Prefix(d, Len(key)) = key,
                NEW fd \in fds \ closed
         PROVE  FALSE
    <2>1. PICK n \in DOMAIN t : t[n].data # NULL /\ t[n].data.fd = fd
      BY <1>13 DEF Owned
    <2>2. at[n] \in s
      BY <1>13, <2>1 DEF Owned
    <2>3. n \in B
      BY <1>13, <2>2 DEF B, Below
    <2>4. QED
      BY <1>6, <2>1, <2>3
  <1>14. QED
    BY <1>5, <1>11, <1>12, <1>13 DEF u, Cleared
-----------------------------------------------------------------------------
(* The invariant of the books *)

\* An event names what it says: a directory that comes or goes, a file that goes.
Named(event) ==
    /\ event.kind \in {"mkdir", "rmdir"} => event.name \in DirNames
    /\ event.kind = "unlink" => event.name \in FileNames

QueuesNamed(instances) ==
    \A fd \in DOMAIN instances : \A event \in Range(instances[fd].queue) : Named(event)

\* The walk goes over directories.
Walked(entry, r) == entry.key # <<>> /\ (entry.kind # "file" => entry.key \in DirKeys(r))

\* Only strings of directories are watched, although a descriptor that is used again
\* may have an old one in the map.
KeysOK ==
    /\ set \subseteq DirKeys(root)
    /\ \A fd \in DOMAIN map : map[fd] \in DirKeys(root)
    /\ QueuesNamed(inst)
    /\ \A event \in Range(buf) : Named(event)
    /\ \A entry \in Range(walk) : Walked(entry, root)

TreeOK ==
    \E at : /\ IsTree(tree, at)
            /\ pc # "destroyed" => /\ Filed(tree, at, set)
                                   /\ ~onEmptyDir => Owned(tree, at, set, DOMAIN inst)

NoneLeft == pc = "destroyed" /\ ~onEmptyDir => DOMAIN inst = {}

\* What addWatch and removeWatch leave behind.
WatchesOK ==
    /\ set \subseteq DirKeys(root)
    /\ \A fd \in DOMAIN map : map[fd] \in DirKeys(root)
    /\ QueuesNamed(inst) /\ TreeOK /\ NoneLeft

BooksInv == Base /\ KeysOK /\ TreeOK /\ NoneLeft /\ (onEmptyDir => MayTrack)

\* The steps that open, close and drop nothing.
LEMMA OtherSteps ==
  ASSUME TreeOK, NoneLeft, tree' = tree, set' = set, DOMAIN inst' = DOMAIN inst,
         onEmptyDir => onEmptyDir', pc' = "destroyed" <=> pc = "destroyed"
  PROVE  TreeOK' /\ NoneLeft'
  <1>1. PICK at : /\ IsTree(tree, at)
                  /\ pc # "destroyed" => /\ Filed(tree, at, set)
                                         /\ ~onEmptyDir => Owned(tree, at, set, DOMAIN inst)
    BY DEF TreeOK
  <1>2. TreeOK'
    BY <1>1 DEF TreeOK
  <1>3. QED
    BY <1>2 DEF NoneLeft

LEMMA AddWatchBooks ==
  ASSUME DottedRoots, BooksInv, pc # "destroyed", NEW dir \in DirKeys(root),
         NEW next, next # "destroyed", addWatch(dir, next), UNCHANGED <<root, onEmptyDir>>
  PROVE  WatchesOK'
  <1> USE DEF BooksInv, WatchesOK
  <1>0. pc' # "destroyed"
    BY DEF addWatch
  <1>1. CASE UNCHANGED <<kernel, watched>>
    <2>1. tree' = tree /\ set' = set /\ inst' = inst /\ map' = map
      BY <1>1 DEF kernel, watched
    <2>2. TreeOK' /\ NoneLeft'
      BY <1>0, <2>1, OtherSteps
    <2>3. QED
      BY <2>1, <2>2 DEF KeysOK
  <1>2. CASE dir \notin set /\ ~ Fds \subseteq DOMAIN inst /\ ~UNCHANGED <<kernel, watched>>
    <2> DEFINE fd == Min(Fds \ DOMAIN inst)
               inode == IF Lookup(dir) = {} THEN NULL
                        ELSE dirs[CHOOSE p \in Lookup(dir) : TRUE]
               new == [on |-> inode, queue |-> <<>>]
               data == [fd |-> fd, path |-> dir]
    <2>1. fd \in Fds \ DOMAIN inst
      BY <1>2, FreeFd
    <2>2. /\ inst' = Inserted(inst, fd, new) /\ map' = Inserted(map, fd, dir)
          /\ tree' = insert(tree, dir, data) /\ set' = set \cup {dir}
      BY <1>2 DEF addWatch
    <2>3. new.queue = <<>> /\ data.fd = fd
      OBVIOUS
    <2>4. root \in Roots
      BY DEF Base, TypeOK, MembersOK
    <2>5. dir \in Seq(Names) /\ dir \in Seq(STRING) /\ dir # <<>> /\ TokensOf(dir) = dir
      BY <2>4, DirKeyFacts
    <2>6. data # NULL
      <3>1. fd \in Nat
        BY <2>1, SomeInstances DEF Fds
      <3> HIDE DEF fd
      <3>2. data \in [fd : Nat, path : Seq(STRING)]
        BY <2>5, <3>1
      <3>3. QED
        BY <3>2, NullIsNoTreeNode
    <2> HIDE DEF fd, new, data
    <2>7. /\ DOMAIN inst' = DOMAIN inst \cup {fd} /\ inst'[fd] = new
          /\ \A x \in DOMAIN inst : inst'[x] = inst[x]
      <3>1. fd \notin DOMAIN inst /\ inst' = Inserted(inst, fd, new)
        BY <2>1, <2>2
      <3>2. QED
        BY <3>1 DEF Inserted
    <2>8. QueuesNamed(inst')
      BY <2>3, <2>7, RangeOfEmpty DEF QueuesNamed, KeysOK
    <2>9. set' \subseteq DirKeys(root)
      BY <2>2 DEF KeysOK
    <2>10. \A x \in DOMAIN map' : map'[x] \in DirKeys(root)
      BY <2>2 DEF KeysOK, Inserted
    <2>11. PICK at : /\ IsTree(tree, at) /\ Filed(tree, at, set)
                     /\ ~onEmptyDir => Owned(tree, at, set, DOMAIN inst)
      BY DEF TreeOK
    <2>12. data.fd \notin DOMAIN inst
      BY <2>1, <2>3
    <2>13. PICK bt :
              /\ IsTree(insert(tree, dir, data), bt)
              /\ Filed(insert(tree, dir, data), bt, set \cup {dir})
              /\ Owned(tree, at, set, DOMAIN inst) =>
                    Owned(insert(tree, dir, data), bt, set \cup {dir}, DOMAIN inst \cup {data.fd})
      <3>1. IsTree(tree, at) /\ Filed(tree, at, set)
        BY <2>11
      <3>2. QED
        BY <1>2, <2>5, <2>6, <2>12, <3>1, WatchAdded
    <2>14. /\ IsTree(tree', bt) /\ Filed(tree', bt, set')
           /\ ~onEmptyDir => Owned(tree', bt, set', DOMAIN inst')
      BY <2>2, <2>3, <2>7, <2>11, <2>13
    <2>15. TreeOK'
      BY <2>14 DEF TreeOK
    <2>16. QED
      BY <1>0, <2>2, <2>8, <2>9, <2>10, <2>15 DEF NoneLeft
  <1>3. QED
    BY <1>1, <1>2 DEF addWatch

\* removeWatch of a directory below the root, or of the root in the destructor.
LEMMA RemoveWatchBooks ==
  ASSUME DottedRoots, BooksInv, pc # "destroyed", NEW dir \in DirKeys(root), NEW next,
         removeWatch(dir, next), UNCHANGED <<root, onEmptyDir>>,
         IF next = "destroyed" THEN dir = root ELSE Len(dir) > 1
  PROVE  WatchesOK'
  <1> USE DEF BooksInv, WatchesOK
  <1> DEFINE calls == drop(tree, dir).calls
             paths == {c.path : c \in calls}
             closed == {c.data.fd : c \in calls}
  <1>1. \/ (\E c \in calls : c.data = NULL) /\ pc' = "crash" /\ UNCHANGED <<kernel, watched>>
        \/ /\ \A c \in calls : c.data # NULL
           /\ set' = set \ paths
           /\ inst' = [fd \in DOMAIN inst \ closed |-> inst[fd]]
           /\ tree' = drop(tree, dir).tree /\ pc' = next /\ UNCHANGED map
    BY DEF removeWatch
  <1>2. CASE pc' = "crash" /\ UNCHANGED <<kernel, watched>>
    <2>1. tree' = tree /\ set' = set /\ inst' = inst /\ map' = map
      BY <1>2 DEF kernel, watched
    <2>2. TreeOK' /\ NoneLeft'
      BY <1>2, <2>1, OtherSteps
    <2>3. QED
      BY <2>1, <2>2 DEF KeysOK
  <1>3. CASE /\ \A c \in calls : c.data # NULL
             /\ set' = set \ paths
             /\ inst' = [fd \in DOMAIN inst \ closed |-> inst[fd]]
             /\ tree' = drop(tree, dir).tree /\ pc' = next /\ UNCHANGED map
    <2>1. PICK at : /\ IsTree(tree, at) /\ Filed(tree, at, set)
                    /\ ~onEmptyDir => Owned(tree, at, set, DOMAIN inst)
      BY DEF TreeOK
    <2>2. root \in Roots
      BY DEF Base, TypeOK, MembersOK
    <2>3. dir \in Seq(Names) /\ dir # <<>> /\ TokensOf(dir) = dir /\ normalize(dir) = dir
      BY <2>2, DirKeyFacts
    <2>4. Cleared(tree, at, drop(tree, dir).tree, set, DOMAIN inst, dir, paths, closed)
      <3>1. IsTree(tree, at) /\ Filed(tree, at, set)
        BY <2>1
      <3>2. CalledWith(drop(tree, dir).calls, paths, closed)
        BY <1>3 DEF CalledWith
      <3> HIDE DEF calls, paths, closed
      <3>3. QED
        BY <2>3, <3>1, <3>2, WatchesRemoved
    <2> HIDE DEF calls, paths, closed
    <2>5. DOMAIN inst' = DOMAIN inst \ closed /\ \A fd \in DOMAIN inst' : inst'[fd] = inst[fd]
      BY <1>3
    <2>6. /\ QueuesNamed(inst') /\ set' \subseteq DirKeys(root)
          /\ \A fd \in DOMAIN map' : map'[fd] \in DirKeys(root)
      BY <1>3, <2>5 DEF QueuesNamed, KeysOK
    <2>7. CASE next = "destroyed"
      <3>1. \A d \in set : Len(dir) <= Len(d) /\ Prefix(d, Len(dir)) = dir
        BY <2>2, <2>7, DirKeyFacts DEF KeysOK
      <3>2. ~onEmptyDir => DOMAIN inst' = {}
        BY <2>1, <2>4, <2>5, <3>1 DEF Cleared
      <3>3. PICK bt : IsTree(tree', bt)
        BY <1>3, <2>4 DEF Cleared
      <3>4. TreeOK' /\ NoneLeft'
        BY <1>3, <2>7, <3>2, <3>3 DEF TreeOK, NoneLeft
      <3>5. QED
        BY <2>6, <3>4
    <2>8. CASE next # "destroyed"
      <3>1. PICK bt :
               /\ IsTree(tree', bt) /\ Filed(tree', bt, set')
               /\ Owned(tree, at, set, DOMAIN inst) => Owned(tree', bt, set', DOMAIN inst')
        BY <1>3, <2>4, <2>5, <2>8 DEF Cleared
      <3>2. TreeOK' /\ NoneLeft'
        BY <1>3, <2>1, <2>8, <3>1 DEF TreeOK, NoneLeft
      <3>3. QED
        BY <2>6, <3>2
    <2>9. QED
      BY <2>7, <2>8
  <1>4. QED
    BY <1>1, <1>2, <1>3

\* What is queued is named after what has come or gone.
LEMMA NotifyNamed ==
  ASSUME TypeOK, QueuesNamed(inst), NEW path \in DOMAIN dirs, NEW kind \in Kinds,
         NEW name \in Names, Named(Event(path, kind, name))
  PROVE  /\ QueuesNamed(Notify(path, kind, name))
         /\ DOMAIN Notify(path, kind, name) = DOMAIN inst
         /\ Notify(path, kind, name) \in [DOMAIN inst -> Instances]
  <1> DEFINE told == Notify(path, kind, name)
             e == Event(path, kind, name)
  <1>1. /\ told \in [DOMAIN inst -> Instances] /\ e \in Events
        /\ \A fd \in DOMAIN inst :
              told[fd].queue = IF inst[fd].on = dirs[path] THEN Append(inst[fd].queue, e)
                               ELSE inst[fd].queue
    BY NotifyType
  <1>2. Named(e)
    OBVIOUS
  <1> HIDE DEF told, e
  <1>3. ASSUME NEW fd \in DOMAIN inst, NEW event \in Range(told[fd].queue)
        PROVE  Named(event)
    <2>1. inst[fd].queue \in Seq(Events)
      BY DEF TypeOK, BooksOK, Instances
    <2>2. Range(Append(inst[fd].queue, e)) = Range(inst[fd].queue) \cup {e}
      BY <1>1, <2>1, RangeOfAppend
    <2>3. event \in Range(inst[fd].queue) \cup {e}
      BY <1>1, <1>3, <2>2
    <2>4. QED
      BY <1>2, <2>3 DEF QueuesNamed
  <1>4. QED
    BY <1>1, <1>3 DEF QueuesNamed, told

LEMMA WorldBooks ==
  ASSUME BooksInv, World
  PROVE  KeysOK' /\ TreeOK' /\ NoneLeft'
  <1> USE DEF BooksInv, Base
  <1>1. pc # "destroyed" /\ UNCHANGED <<root, onEmptyDir, watched, pc, control>>
    BY DEF World, Mkdir, Rmdir, WriteFile, Unlink, Change
  <1>2. ASSUME QueuesNamed(inst'), DOMAIN inst' = DOMAIN inst
        PROVE  KeysOK' /\ TreeOK' /\ NoneLeft'
    <2>1. tree' = tree /\ set' = set /\ map' = map /\ buf' = buf /\ walk' = walk
          /\ root' = root /\ pc' = pc /\ onEmptyDir' = onEmptyDir
      BY <1>1 DEF watched, control
    <2>2. TreeOK' /\ NoneLeft'
      BY <1>2, <2>1, OtherSteps
    <2>3. KeysOK'
      BY <1>2, <2>1 DEF KeysOK
    <2>4. QED
      BY <2>2, <2>3
  <1>3. QueuesNamed(inst)
    BY DEF KeysOK
  <1>4. ASSUME NEW p \in DirPaths, Mkdir(p)
        PROVE  KeysOK' /\ TreeOK' /\ NoneLeft'
    <2>1. Front(p) \in DOMAIN dirs /\ Last(p) \in DirNames /\ Last(p) \in Names /\ "mkdir" \in Kinds
      BY <1>4, NameTypes DEF Mkdir, DirNames, Kinds
    <2>2. Named(Event(Front(p), "mkdir", Last(p)))
      BY <2>1 DEF Named, Event
    <2>3. inst' = Notify(Front(p), "mkdir", Last(p))
      BY <1>4 DEF Mkdir
    <2>4. QED
      BY <1>2, <1>3, <2>1, <2>2, <2>3, NotifyNamed
  <1>5. ASSUME NEW p \in DirPaths, Rmdir(p)
        PROVE  KeysOK' /\ TreeOK' /\ NoneLeft'
    <2> DEFINE told == Notify(Front(p), "rmdir", Last(p))
               self == Event(p, "self", "")
    <2>0. p \in DOMAIN dirs \ {<<>>}
      BY <1>5 DEF Rmdir
    <2>1. /\ Front(p) \in DOMAIN dirs /\ Last(p) \in DirNames /\ Last(p) \in Names
          /\ "rmdir" \in Kinds
      BY <2>0, NameTypes DEF DirNames, Kinds, TypeOK, WorldOK
    <2>2. Named(Event(Front(p), "rmdir", Last(p)))
      BY <2>1 DEF Named, Event
    <2>3. QueuesNamed(told) /\ DOMAIN told = DOMAIN inst /\ told \in [DOMAIN inst -> Instances]
      BY <1>3, <2>1, <2>2, NotifyNamed
    <2>4. inst' = [fd \in DOMAIN told |->
                      IF told[fd].on = dirs[p]
                      THEN [on |-> NULL, queue |-> Append(told[fd].queue, self)]
                      ELSE told[fd]]
      BY <1>5 DEF Rmdir
    <2>5. self \in Events /\ Named(self)
      BY <2>0 DEF Event, Events, Kinds, Names, Named, TypeOK, WorldOK
    <2> HIDE DEF told, self
    <2>6. ASSUME NEW fd \in DOMAIN inst', NEW event \in Range(inst'[fd].queue)
          PROVE  Named(event)
      <3>1. fd \in DOMAIN inst /\ told[fd].queue \in Seq(Events)
        BY <2>3, <2>4 DEF Instances
      <3>2. Range(Append(told[fd].queue, self)) = Range(told[fd].queue) \cup {self}
        BY <2>5, <3>1, RangeOfAppend
      <3>3. inst'[fd].queue = Append(told[fd].queue, self) \/ inst'[fd].queue = told[fd].queue
        BY <2>4
      <3>4. event \in Range(told[fd].queue) \cup {self}
        BY <2>6, <3>2, <3>3
      <3>5. QED
        BY <2>3, <2>5, <3>1, <3>4 DEF QueuesNamed
    <2>7. QueuesNamed(inst') /\ DOMAIN inst' = DOMAIN inst
      BY <2>3, <2>4, <2>6 DEF QueuesNamed
    <2>8. QED
      BY <1>2, <2>7
  <1>6. ASSUME NEW f \in FilePaths, WriteFile(f) \/ Unlink(f)
        PROVE  KeysOK' /\ TreeOK' /\ NoneLeft'
    <2>1. PICK kind \in {"write", "unlink"} : inst' = Notify(Front(f), kind, Last(f))
      BY <1>6 DEF WriteFile, Unlink
    <2>2. Front(f) \in DOMAIN dirs /\ Last(f) \in FileNames /\ Last(f) \in Names /\ kind \in Kinds
      BY <1>6, NameTypes DEF WriteFile, Unlink, FileNames, Kinds, TypeOK, WorldOK
    <2>3. Named(Event(Front(f), kind, Last(f)))
      BY <2>2 DEF Named, Event
    <2>4. QED
      BY <1>2, <1>3, <2>1, <2>2, <2>3, NotifyNamed
  <1>7. QED
    BY <1>4, <1>5, <1>6 DEF World

LEMMA WalkBooks ==
  ASSUME PlainRoots, DottedRoots, BooksInv, Walk
  PROVE  KeysOK' /\ TreeOK' /\ NoneLeft'
  <1> USE DEF BooksInv, Base
  <1>1. /\ pc \in {"initwalk", "handle"} /\ walk # <<>> /\ walk \in Seq(Entries)
        /\ UNCHANGED <<world, root, onEmptyDir, stopWatching, batch, buf, ghosts>>
    BY DEF Walk, TypeOK, MembersOK
  <1>2. /\ Head(walk) \in Entries /\ Tail(walk) \in Seq(Entries)
        /\ Range(walk) = {Head(walk)} \cup Range(Tail(walk))
    BY <1>1, RangeOfHeadTail
  <1> DEFINE key == Head(walk).key
  <1>3. /\ Walked(Head(walk), root) /\ \A entry \in Range(Tail(walk)) : Walked(entry, root)
        /\ key \in Seq(Names) /\ root \in Roots
    BY <1>2 DEF KeysOK, Entries, TypeOK, MembersOK
  <1> HIDE DEF key
  <1>4. pc # "destroyed" /\ root' = root /\ buf' = buf /\ onEmptyDir' = onEmptyDir
    BY <1>1
  <1>5. ASSUME UNCHANGED <<kernel, watched, pc>>, \A entry \in Range(walk') : Walked(entry, root)
        PROVE  KeysOK' /\ TreeOK' /\ NoneLeft'
    <2>1. tree' = tree /\ set' = set /\ inst' = inst /\ map' = map /\ pc' = pc
      BY <1>5 DEF kernel, watched
    <2>2. TreeOK' /\ NoneLeft'
      BY <1>4, <2>1, OtherSteps
    <2>3. KeysOK'
      BY <1>4, <1>5, <2>1 DEF KeysOK
    <2>4. QED
      BY <2>2, <2>3
  <1>6. CASE OpenWalk
    <2>1. Head(walk).kind = "open" /\ key # <<>> /\ key \in DirKeys(root)
      BY <1>3, <1>6 DEF OpenWalk, Walked, key
    <2>2. PICK kind \in {"file", "dir"} : walk' = <<Entry(kind, key)>>
      BY <1>6 DEF OpenWalk, key
    <2>3. Range(walk') = {Entry(kind, key)} /\ Walked(Entry(kind, key), root)
      BY <2>1, <2>2, RangeOfSingle DEF Entry, Walked
    <2>4. QED
      BY <1>5, <1>6, <2>3 DEF OpenWalk
  <1>7. CASE VisitDir
    <2>1. Head(walk).kind = "dir" /\ key # <<>> /\ key \in DirKeys(root)
      BY <1>3, <1>7 DEF VisitDir, Walked, key
    <2>2. walk' = <<Entry("list", key)>> \o Tail(walk)
      BY <1>7 DEF VisitDir, key
    <2>3. \A entry \in Range(walk') : Walked(entry, root)
      <3>1. /\ <<Entry("list", key)>> \in Seq(Entries)
            /\ Range(<<Entry("list", key)>>) = {Entry("list", key)}
        BY <1>3, RangeOfSingle DEF Entry, Entries
      <3>2. Range(walk') = {Entry("list", key)} \cup Range(Tail(walk))
        <4> DEFINE one == <<Entry("list", key)>>
        <4>1. one \in Seq(Entries) /\ Tail(walk) \in Seq(Entries) /\ walk' = one \o Tail(walk)
          BY <1>2, <2>2, <3>1
        <4> HIDE DEF one
        <4>2. Range(one \o Tail(walk)) = Range(one) \cup Range(Tail(walk))
          BY <4>1, RangeConcatenation, ZenonT(30)
        <4>3. QED
          BY <3>1, <4>1, <4>2 DEF one
      <3>3. Walked(Entry("list", key), root)
        BY <2>1 DEF Entry, Walked
      <3>4. QED
        BY <1>3, <3>2, <3>3
    <2>4. CASE UNCHANGED <<kernel, watched, pc>>
      BY <1>5, <2>3, <2>4
    <2>5. CASE addWatch(key, pc)
      <3>1. WatchesOK'
        BY <1>4, <2>1, <2>5, AddWatchBooks
      <3>2. KeysOK'
        BY <1>4, <2>3, <3>1 DEF KeysOK, WatchesOK
      <3>3. QED
        BY <3>1, <3>2 DEF WatchesOK
    <2>6. QED
      BY <1>7, <2>4, <2>5 DEF VisitDir, key
  <1>8. CASE VisitFile
    <2>1. walk' = Tail(walk) /\ UNCHANGED <<kernel, map, set, pc>>
      BY <1>8 DEF VisitFile
    <2>2. KeysOK'
      BY <1>3, <1>4, <2>1 DEF KeysOK, kernel
    <2>3. CASE tree' = tree
      BY <1>5, <1>3, <2>1, <2>3 DEF watched
    <2>4. CASE onEmptyDir /\ tree' = insert(tree, key, NoWatch(key))
      <3>1. key # <<>>
        BY <1>3 DEF Walked, key
      <3>2. PICK at : IsTree(tree, at) /\ Filed(tree, at, set)
        BY <1>4 DEF TreeOK
      <3>3. PICK bt : IsTree(insert(tree, key, NoWatch(key)), bt)
                      /\ Filed(insert(tree, key, NoWatch(key)), bt, set)
        BY <1>3, <3>1, <3>2, InsertFiles
      <3>4. IsTree(tree', bt) /\ Filed(tree', bt, set') /\ onEmptyDir' /\ pc' # "destroyed"
        BY <1>4, <2>1, <2>4, <3>3
      <3>5. QED
        BY <2>2, <3>4 DEF TreeOK, NoneLeft
    <2>5. QED
      BY <1>8, <2>3, <2>4 DEF VisitFile, key
  <1>9. CASE ListDir
    <2>1. Head(walk).kind = "list" /\ key # <<>> /\ key \in DirKeys(root)
      BY <1>3, <1>9 DEF ListDir, Walked, key
    <2>2. PICK order \in Seq(Entries) :
             /\ Range(order) = Found(key, "dir", DOMAIN dirs) \cup Found(key, "file", files)
             /\ walk' = order \o Tail(walk)
      BY <1>1, <1>9, ListedEntries DEF key
    <2>3. Range(walk') = Range(order) \cup Range(Tail(walk))
      <3>0. order \in Seq(Entries) /\ Tail(walk) \in Seq(Entries)
        BY <1>2
      <3>1. Range(order \o Tail(walk)) = Range(order) \cup Range(Tail(walk))
        BY <3>0, RangeConcatenation, ZenonT(30)
      <3>2. QED
        BY <2>2, <3>1
    <2>4. Here(key) = key
      <3>1. Last(key) # ""
        BY <1>3, <2>1, DirKeyFacts
      <3>2. QED
        BY <3>1 DEF Here
    <2>5. ASSUME NEW p \in (DOMAIN dirs \cup files) \ {<<>>}
          PROVE  /\ Append(key, Last(p)) # <<>>
                 /\ p \in DOMAIN dirs => Append(key, Last(p)) \in DirKeys(root)
      <3>1. p \in Seq(Names) /\ (p \in DOMAIN dirs => p \in DirPaths)
        BY PathTypes DEF TypeOK, WorldOK, Paths
      <3>2. Last(p) \in Names
        BY <3>1, ParentAndName
      <3>3. Append(key, Last(p)) # <<>>
        BY <1>3, <3>2, AppendProperties
      <3>4. p \in DOMAIN dirs => Last(p) \in DirNames
        BY <3>1 DEF DirNames
      <3>5. QED
        BY <1>3, <2>1, <3>3, <3>4, ChildDirKey
    <2>6. ASSUME NEW entry \in Range(order)
          PROVE  Walked(entry, root)
      <3>1. CASE entry \in Found(key, "dir", DOMAIN dirs)
        <4>1. PICK p \in DOMAIN dirs \ {<<>>} : entry = Entry("dir", Append(key, Last(p)))
          BY <2>4, <3>1 DEF Found, Children
        <4>2. Append(key, Last(p)) # <<>> /\ Append(key, Last(p)) \in DirKeys(root)
          BY <2>5
        <4>3. QED
          BY <4>1, <4>2 DEF Entry, Walked
      <3>2. CASE entry \in Found(key, "file", files)
        <4>1. PICK p \in files \ {<<>>} : entry = Entry("file", Append(key, Last(p)))
          BY <2>4, <3>2 DEF Found, Children
        <4>2. Append(key, Last(p)) # <<>>
          BY <2>5
        <4>3. QED
          BY <4>1, <4>2 DEF Entry, Walked
      <3>3. QED
        BY <2>2, <2>6, <3>1, <3>2
    <2>7. QED
      BY <1>3, <1>5, <1>9, <2>3, <2>6 DEF ListDir
  <1>10. QED
    BY <1>6, <1>7, <1>8, <1>9 DEF Walk

LEMMA ClientBooks ==
  ASSUME DottedRoots, BooksInv,
         FsWatchInit \/ InitDone \/ OnEmptyDirCbk \/ Start \/ Destroy \/ RemoveRoot
  PROVE  KeysOK' /\ TreeOK' /\ NoneLeft'
  <1>1. root \in Roots /\ KeysOK /\ TreeOK /\ NoneLeft /\ root \in DirKeys(root)
    BY RootIsDirKey DEF BooksInv, Base, TypeOK, MembersOK
  <1>2. CASE FsWatchInit
    <2>1. /\ pc = "new" /\ addWatch(root, "initwalk") /\ walk' = <<Entry("open", root)>>
          /\ root' = root /\ onEmptyDir' = onEmptyDir /\ buf' = buf
      BY <1>2 DEF FsWatchInit
    <2>2. WatchesOK'
      BY <1>1, <2>1, AddWatchBooks
    <2>3. \A entry \in Range(walk') : Walked(entry, root)
      <3>1. root # <<>>
        BY <1>1, PathTypes
      <3>2. QED
        BY <1>1, <2>1, <3>1, RangeOfSingle DEF Entry, Walked
    <2>4. QED
      BY <1>1, <2>1, <2>2, <2>3 DEF WatchesOK, KeysOK
  <1>3. CASE InitDone \/ OnEmptyDirCbk \/ Start \/ Destroy
    <2>1. /\ tree' = tree /\ set' = set /\ inst' = inst /\ map' = map /\ buf' = buf
          /\ walk' = walk /\ root' = root /\ (onEmptyDir => onEmptyDir')
          /\ pc' = "destroyed" <=> pc = "destroyed"
      BY <1>3 DEF InitDone, OnEmptyDirCbk, Start, Destroy, kernel, watched, control
    <2>2. TreeOK' /\ NoneLeft'
      BY <1>1, <2>1, OtherSteps
    <2>3. QED
      BY <1>1, <2>1, <2>2 DEF KeysOK
  <1>4. CASE RemoveRoot
    <2>1. /\ pc = "stopped" /\ removeWatch(root, "destroyed") /\ walk' = walk
          /\ root' = root /\ onEmptyDir' = onEmptyDir /\ buf' = buf
      BY <1>4 DEF RemoveRoot, control
    <2>2. WatchesOK'
      BY <1>1, <2>1, RemoveWatchBooks
    <2>3. QED
      BY <1>1, <2>1, <2>2 DEF WatchesOK, KeysOK
  <1>5. QED
    BY <1>2, <1>3, <1>4

LEMMA LoopBooks ==
  ASSUME BooksInv, LoopCheck \/ EpollWait \/ NextFd \/ ReadEvents \/ BufferDone
  PROVE  KeysOK' /\ TreeOK' /\ NoneLeft'
  <1>1. KeysOK /\ TreeOK /\ NoneLeft
    BY DEF BooksInv
  <1>2. /\ tree' = tree /\ set' = set /\ map' = map /\ walk' = walk /\ root' = root
        /\ onEmptyDir' = onEmptyDir /\ pc # "destroyed" /\ pc' # "destroyed"
    BY DEF LoopCheck, EpollWait, NextFd, ReadEvents, BufferDone, kernel, watched, control
  <1>3. CASE inst' = inst /\ buf' = buf
    <2>1. TreeOK' /\ NoneLeft'
      BY <1>1, <1>2, <1>3, OtherSteps
    <2>2. QED
      BY <1>1, <1>2, <1>3, <2>1 DEF KeysOK
  <1>4. CASE ReadEvents /\ ~(inst' = inst /\ buf' = buf)
    <2> DEFINE fd == Head(batch)
    <2>1. fd \in DOMAIN inst /\ buf' = inst[fd].queue /\ inst' = [inst EXCEPT ![fd].queue = <<>>]
      BY <1>4 DEF ReadEvents
    <2>2. inst[fd] \in Instances
      BY <2>1 DEF BooksInv, Base, TypeOK, BooksOK
    <2> HIDE DEF fd
    <2>3. /\ DOMAIN inst' = DOMAIN inst /\ inst'[fd].queue = <<>>
          /\ \A x \in DOMAIN inst \ {fd} : inst'[x] = inst[x]
      BY <2>1, <2>2 DEF Instances
    <2>4. QueuesNamed(inst') /\ \A event \in Range(buf') : Named(event)
      BY <1>1, <2>1, <2>3, RangeOfEmpty DEF KeysOK, QueuesNamed
    <2>5. TreeOK' /\ NoneLeft'
      BY <1>1, <1>2, <2>3, OtherSteps
    <2>6. QED
      BY <1>1, <1>2, <2>4, <2>5 DEF KeysOK
  <1>5. QED
    BY <1>3, <1>4 DEF LoopCheck, EpollWait, NextFd, BufferDone, kernel, control

LEMMA HandleEventBooks ==
  ASSUME PlainRoots, DottedRoots, NamesApart, BooksInv, HandleEvent
  PROVE  KeysOK' /\ TreeOK' /\ NoneLeft'
  <1> DEFINE event == Head(buf)
             path  == getFullPath(Head(batch), event.name)
             dir   == map[Head(batch)]
  <1>1. /\ pc = "handle" /\ buf # <<>> /\ walk = <<>> /\ buf' = Tail(buf)
        /\ root' = root /\ onEmptyDir' = onEmptyDir
    BY DEF HandleEvent
  <1>2. KeysOK /\ TreeOK /\ NoneLeft /\ Base /\ root \in Roots
    BY DEF BooksInv, Base, TypeOK, MembersOK
  <1>3. event \in Events /\ path = Append(dir, event.name)
    BY <1>1, <1>2, EventPath
  <1>4. dir \in DirKeys(root)
    <2>1. Head(batch) \in DOMAIN map
      BY <1>1, <1>2 DEF Base, BatchOK
    <2>2. QED
      BY <1>2, <2>1 DEF KeysOK
  <1>5. Named(event) /\ \A e \in Range(Tail(buf)) : Named(e)
    <2>1. buf \in Seq(Events)
      BY <1>2 DEF Base, TypeOK, MembersOK
    <2>2. Range(buf) = {event} \cup Range(Tail(buf))
      BY <1>1, <2>1, RangeOfHeadTail
    <2> HIDE DEF event
    <2>3. QED
      BY <1>2, <2>2 DEF KeysOK
  <1>6. \/ event.kind = "mkdir" /\ handleDirectoryCreate(path)
        \/ event.kind = "write" /\ handleFileModify(path, event)
        \/ event.kind = "unlink" /\ handleFileDelete(path, event)
        \/ event.kind = "rmdir" /\ handleDirectoryDelete(path)
        \/ event.kind = "self" /\ handleIgnored
    BY DEF HandleEvent
  <1> HIDE DEF event, path, dir
  <1>7. event.kind \in {"mkdir", "rmdir"} => path \in DirKeys(root) /\ Len(path) > 1
    BY <1>2, <1>3, <1>4, <1>5, ChildDirKey DEF Named
  <1>8. ASSUME WatchesOK', \A entry \in Range(walk') : Walked(entry, root)
        PROVE  KeysOK' /\ TreeOK' /\ NoneLeft'
    BY <1>1, <1>5, <1>8 DEF WatchesOK, KeysOK
  <1>9. ASSUME UNCHANGED <<kernel, map, set, walk>>, TreeOK', NoneLeft'
        PROVE  KeysOK' /\ TreeOK' /\ NoneLeft'
    BY <1>1, <1>2, <1>5, <1>9 DEF KeysOK, kernel
  <1>10. CASE event.kind = "mkdir" /\ handleDirectoryCreate(path)
    <2>1. addWatch(path, "handle") /\ walk' = <<Entry("open", path)>>
      BY <1>10 DEF handleDirectoryCreate
    <2>2. path \in DirKeys(root) /\ path # <<>>
      BY <1>2, <1>7, <1>10, DirKeyFacts
    <2>3. WatchesOK'
      BY <1>1, <2>1, <2>2, AddWatchBooks
    <2>4. \A entry \in Range(walk') : Walked(entry, root)
      BY <2>1, <2>2, RangeOfSingle DEF Entry, Walked
    <2>5. QED
      BY <1>8, <2>3, <2>4
  <1>11. CASE event.kind = "write" /\ handleFileModify(path, event)
    <2>1. /\ UNCHANGED <<kernel, map, set, walk, pc>>
          /\ tree' = (IF onEmptyDir THEN insert(tree, <<"">>, NULL) ELSE tree)
      BY <1>11 DEF handleFileModify
    <2>2. CASE ~onEmptyDir
      BY <1>1, <1>2, <1>9, <2>1, <2>2, OtherSteps DEF kernel
    <2>3. CASE onEmptyDir
      <3>1. <<"">> \in Seq(Names) /\ <<"">> # <<>>
        BY ShortKeys DEF Names
      <3>2. PICK at : IsTree(tree, at) /\ Filed(tree, at, set)
        BY <1>1, <1>2 DEF TreeOK
      <3>3. PICK bt : IsTree(insert(tree, <<"">>, NULL), bt)
                      /\ Filed(insert(tree, <<"">>, NULL), bt, set)
        BY <3>1, <3>2, InsertFiles
      <3>4. IsTree(tree', bt) /\ Filed(tree', bt, set') /\ onEmptyDir' /\ pc' # "destroyed"
        BY <1>1, <2>1, <2>3, <3>3
      <3>5. TreeOK' /\ NoneLeft'
        BY <3>4 DEF TreeOK, NoneLeft
      <3>6. QED
        BY <1>9, <2>1, <3>5
    <2>4. QED
      BY <2>2, <2>3
  <1>12. CASE event.kind = "unlink" /\ handleFileDelete(path, event)
    <2>1. /\ UNCHANGED <<kernel, map, set, walk>> /\ pc' # "destroyed"
          /\ tree' = (IF onEmptyDir THEN drop(tree, path).tree ELSE tree)
      BY <1>12 DEF handleFileDelete, checkEmptyDir
    <2>2. CASE ~onEmptyDir
      BY <1>1, <1>2, <1>9, <2>1, <2>2, OtherSteps DEF kernel
    <2>3. CASE onEmptyDir
      <3>1. event.name \in FileNames
        BY <1>5, <1>12 DEF Named
      <3>2. /\ path \in Seq(Names) /\ path # <<>> /\ TokensOf(path) = path
            /\ \A d \in set : ~(Len(path) <= Len(d) /\ Prefix(d, Len(path)) = path)
        <4>0. MayTrack
          BY <2>3 DEF BooksInv
        <4>1. IsFileKey(path, root)
          BY <1>2, <1>3, <1>4, <3>1, <4>0, FileKeyFacts
        <4>2. QED
          BY <1>2, <4>1 DEF KeysOK, IsFileKey
      <3>3. PICK at : IsTree(tree, at) /\ Filed(tree, at, set)
        BY <1>1, <1>2 DEF TreeOK
      <3>4. PICK bt : IsTree(drop(tree, path).tree, bt) /\ Filed(drop(tree, path).tree, bt, set)
        BY <3>2, <3>3, OthersStayFiled
      <3>5. IsTree(tree', bt) /\ Filed(tree', bt, set') /\ onEmptyDir'
        BY <1>1, <2>1, <2>3, <3>4
      <3>6. TreeOK' /\ NoneLeft'
        BY <2>1, <3>5 DEF TreeOK, NoneLeft
      <3>7. QED
        BY <1>9, <2>1, <3>6
    <2>4. QED
      BY <2>2, <2>3
  <1>13. CASE event.kind = "rmdir" /\ handleDirectoryDelete(path)
    <2>1. PICK next \in {"handle", "crash"} : removeWatch(path, next)
      BY <1>13 DEF handleDirectoryDelete, checkEmptyDir
    <2>2. walk' = walk /\ path \in DirKeys(root) /\ Len(path) > 1
      BY <1>7, <1>13 DEF handleDirectoryDelete
    <2>3. WatchesOK'
      BY <1>1, <2>1, <2>2, RemoveWatchBooks
    <2>4. \A entry \in Range(walk') : Walked(entry, root)
      BY <1>2, <2>2 DEF KeysOK
    <2>5. QED
      BY <1>8, <2>3, <2>4
  <1>14. CASE event.kind = "self" /\ handleIgnored
    <2>1. UNCHANGED <<kernel, watched, walk, pc>>
      BY <1>14 DEF handleIgnored
    <2>2. QED
      BY <1>1, <1>2, <1>9, <2>1, OtherSteps DEF kernel, watched
  <1>15. QED
    BY <1>6, <1>10, <1>11, <1>12, <1>13, <1>14

LEMMA InitBooks == Init => BooksInv
  <1> SUFFICES ASSUME Init PROVE BooksInv
    OBVIOUS
  <1>1. Base
    BY InitBase
  <1>2. KeysOK /\ NoneLeft
    BY RangeOfEmpty DEF Init, KeysOK, QueuesNamed, NoneLeft
  <1>3. tree = NewTree /\ set = {} /\ DOMAIN inst = {}
    BY DEF Init
  <1>4. PICK at : IsTree(tree, at) /\ DOMAIN tree = {Root} /\ tree[Root].data = NULL
    BY <1>3, NewTreeIsTree
  <1>5. Filed(tree, at, set) /\ Owned(tree, at, set, DOMAIN inst)
    BY <1>3, <1>4 DEF Filed, Owned
  <1>6. ~onEmptyDir
    BY DEF Init
  <1>7. QED
    BY <1>1, <1>2, <1>4, <1>5, <1>6 DEF BooksInv, TreeOK

\* Only the client sets the callback.
LEMMA WhoTracks ==
  ASSUME [Next]_vars
  PROVE  onEmptyDir' = onEmptyDir \/ MayTrack
  <1>1. CASE World
    BY <1>1 DEF World, Mkdir, Rmdir, WriteFile, Unlink
  <1>2. CASE Watcher
    BY <1>2 DEF Watcher, LoopCheck, EpollWait, NextFd, ReadEvents, HandleEvent, BufferDone, Walk
  <1>3. CASE FsWatchInit \/ InitDone \/ OnEmptyDirCbk \/ Start \/ Destroy \/ RemoveRoot
    BY <1>3 DEF FsWatchInit, InitDone, OnEmptyDirCbk, Start, Destroy, RemoveRoot
  <1>4. CASE UNCHANGED vars
    BY <1>4 DEF vars
  <1>5. QED
    BY <1>1, <1>2, <1>3, <1>4 DEF Next

LEMMA NextBooks ==
  ASSUME PlainRoots, DottedRoots, NamesApart, BooksInv, [Next]_vars
  PROVE  BooksInv'
  <1>1. Base' /\ (onEmptyDir' => MayTrack)
    BY NextBase, WhoTracks DEF BooksInv
  <1>2. CASE UNCHANGED vars
    <2>1. /\ tree' = tree /\ set' = set /\ inst' = inst /\ map' = map /\ buf' = buf
          /\ walk' = walk /\ root' = root /\ onEmptyDir' = onEmptyDir /\ pc' = pc
      BY <1>2 DEF vars, kernel, watched, control
    <2>2. KeysOK' /\ TreeOK' /\ NoneLeft'
      BY <2>1, OtherSteps DEF BooksInv, KeysOK
    <2>3. QED
      BY <1>1, <2>2 DEF BooksInv
  <1>3. CASE Next
    <2>1. KeysOK' /\ TreeOK' /\ NoneLeft'
      BY <1>3, WorldBooks, WalkBooks, ClientBooks, LoopBooks, HandleEventBooks DEF Next, Watcher
    <2>2. QED
      BY <1>1, <2>1 DEF BooksInv
  <1>4. QED
    BY <1>2, <1>3

\* The books that the invariant keeps agree.
LEMMA BooksInvMeans ==
  ASSUME DottedRoots, BooksInv
  PROVE  BooksAgree
  <1>1. PICK at : /\ IsTree(tree, at)
                  /\ pc # "destroyed" => /\ Filed(tree, at, set)
                                         /\ ~onEmptyDir => Owned(tree, at, set, DOMAIN inst)
    BY DEF BooksInv, TreeOK
  <1>2. EpollOpen /\ root \in Roots
    BY DEF BooksInv, Base, TypeOK, MembersOK
  <1>3. SetInTree
    <2>1. ASSUME pc # "destroyed", NEW d \in set
          PROVE  NodeAt(tree, TokensOf(d)) # NULL
      <3>1. d \in Seq(Names) /\ TokensOf(d) = d
        BY <1>2, DirKeyFacts DEF BooksInv, KeysOK
      <3>2. PICK n \in DOMAIN tree : at[n] = d
        BY <1>1, <2>1 DEF Filed
      <3>3. NodeAt(tree, d) = n
        BY <1>1, <3>1, <3>2, NodeAtFinds
      <3>4. n # NULL
        BY <1>1, NullIsNoAddress DEF IsTree, IsHeap
      <3>5. QED
        BY <3>1, <3>3, <3>4
    <2>2. QED
      BY <2>1 DEF SetInTree
  <1>4. FdsOwned
    <2>1. ASSUME ~onEmptyDir, NEW fd \in DOMAIN inst
          PROVE  Cardinality({n \in DOMAIN tree : tree[n].data # NULL /\ tree[n].data.fd = fd}) = 1
      <3>1. pc # "destroyed"
        BY <2>1 DEF BooksInv, NoneLeft
      <3>2. Owned(tree, at, set, DOMAIN inst)
        BY <1>1, <2>1, <3>1
      <3>3. PICK n \in DOMAIN tree : tree[n].data # NULL /\ tree[n].data.fd = fd
        BY <3>2 DEF Owned
      <3>4. {m \in DOMAIN tree : tree[m].data # NULL /\ tree[m].data.fd = fd} = {n}
        BY <3>2, <3>3 DEF Owned
      <3>5. QED
        BY <3>4, FS_Singleton
    <2>2. QED
      BY <2>1 DEF FdsOwned, BooksInv, NoneLeft
  <1>5. QED
    BY <1>2, <1>3, <1>4 DEF BooksAgree

\* Epoll's set, the open instances, the map, the set and the tree agree, however
\* directories come and go and whatever is tracked: a directory that addWatch refuses to
\* watch again can be dropped, and no descriptor is leaked or closed twice.
THEOREM BooksAlwaysAgree ==
  ASSUME PlainRoots, DottedRoots, NamesApart
  PROVE  Spec => []BooksAgree
  <1>1. BooksInv /\ [Next]_vars => BooksInv'
    BY NextBooks
  <1>2. BooksInv => BooksAgree
    BY BooksInvMeans
  <1>3. QED
    BY InitBooks, <1>1, <1>2, PTL DEF Spec
-----------------------------------------------------------------------------
(* The watcher stays up *)

\* There are instances for all the directories there can be, and the root.
EnoughInstances == MaxInstances >= Cardinality(DirPaths) + 1

\* Every node at the root's string or below it has a TreeNode.
Loaded(t, at, r) == \A n \in Below(t, at, r) : t[n].data # NULL

TreeLoaded == \E at : IsTree(tree, at) /\ Filed(tree, at, set) /\ Loaded(tree, at, root)

\* A directory is watched before its children: the walk has only directories that are
\* watched or, before it has visited them, whose parent is, or hidden ones.
Reached(p) == Key(p) \in set \/ (p # <<>> /\ Key(Front(p)) \in set)
Unnamed(p) == p # <<>> /\ Last(p) \in DotNames
Ahead(e) == \E p \in Paths : /\ e.key = Key(p) /\ Reached(p)
                             /\ e.kind # "dir" => Key(p) \in set \/ Unnamed(p)
WalkAhead == \A e \in Range(walk) : e.kind # "file" => Ahead(e)

Up == pc \notin {"exit", "crash"} /\ TreeLoaded /\ WalkAhead

\* Hidden directories have no directories in them, so that every directory that is
\* watched has a parent that is.
NoneBelow == \A p \in DOMAIN dirs : ~BelowHidden(p)

\* What holds with directories below hidden ones as well.
Alive == pc # "exit" /\ (pc \in {"stopped", "crash"} => stopWatching)

UpInv == Inv /\ (Plain /\ pc # "destroyed" => Alive /\ (NoneBelow => Up))

\* A directory whose parent has its node adds one node, its own, with its TreeNode.
LEMMA WatchLoaded ==
  ASSUME NEW t, NEW at, IsTree(t, at), NEW s, Filed(t, at, s),
         NEW r \in Seq(Names), Loaded(t, at, r),
         NEW dir \in Seq(Names), dir # <<>>, TokensOf(dir) = dir, dir = r \/ Front(dir) \in s,
         NEW data, data # NULL
  PROVE  \E bt : /\ IsTree(insert(t, dir, data), bt)
                 /\ Filed(insert(t, dir, data), bt, s \cup {dir})
                 /\ Loaded(insert(t, dir, data), bt, r)
  <1> DEFINE u == insert(t, dir, data)
  <1>1. \E bt, end : PathAdded(t, at, u, bt, TokensOf(dir), end, data)
    BY InsertMeans
  <1> HIDE DEF u
  <1>2. PICK bt, end : PathAdded(t, at, u, bt, dir, end, data)
    BY <1>1
  <1>3. /\ IsTree(u, bt) /\ DOMAIN t \subseteq DOMAIN u
        /\ end \in DOMAIN u /\ bt[end] = dir /\ u[end].data = data
        /\ \A n \in DOMAIN t : bt[n] = at[n]
        /\ \A n \in DOMAIN t \ {end} : u[n].data = t[n].data
    BY <1>2 DEF PathAdded
  <1>4. \A n \in DOMAIN u \ DOMAIN t : \E j \in 1 .. Len(dir) : bt[n] = Prefix(dir, j)
    BY <1>2 DEF PathAdded
  <1>5. Filed(u, bt, s \cup {dir})
    BY <1>3 DEF Filed
  <1>6. \A m, n \in DOMAIN u : bt[m] = bt[n] => m = n
    BY <1>3 DEF IsTree
  <1>7. ASSUME NEW n \in Below(u, bt, r), n # end
        PROVE  n \in DOMAIN t
    <2>1. SUFFICES ASSUME n \notin DOMAIN t PROVE FALSE
      OBVIOUS
    <2>2. n \in DOMAIN u /\ Len(r) <= Len(bt[n])
      BY <1>7 DEF Below
    <2>3. PICK j \in 1 .. Len(dir) : bt[n] = Prefix(dir, j)
      BY <1>4, <2>1, <2>2
    <2>4. Len(dir) \in Nat /\ Len(dir) # 0 /\ j \in 0 .. Len(dir)
      <3>1. Len(dir) \in Nat /\ Len(dir) # 0
        BY LenProperties, EmptySeq
      <3>2. QED
        BY ONLY <3>1, j \in 1 .. Len(dir)
    <2>5. Len(bt[n]) = j /\ (j = Len(dir) => bt[n] = dir)
      BY <2>3, <2>4, PrefixFacts
    <2>6. j # Len(dir)
      BY <1>3, <1>6, <1>7, <2>2, <2>5
    <2>7. CASE dir = r
      BY <2>2, <2>4, <2>5, <2>6, <2>7
    <2>8. CASE Front(dir) \in s
      <3>1. PICK m \in DOMAIN t : at[m] = Front(dir)
        BY <2>8 DEF Filed
      <3>2. /\ Front(dir) \in Seq(Names) /\ Last(dir) \in Names
            /\ Len(Front(dir)) = Len(dir) - 1 /\ dir = Append(Front(dir), Last(dir))
        BY ParentAndName
      <3>3. j \in 0 .. Len(Front(dir))
        BY ONLY <2>4, <2>6, <3>2
      <3>4. Prefix(Append(Front(dir), Last(dir)), j) = Prefix(Front(dir), j)
        BY <3>2, <3>3, PrefixOfAppend
      <3>5. Prefix(dir, j) = Prefix(Front(dir), j)
        BY <3>2, <3>4
      <3>6. PICK k \in DOMAIN t : at[k] = Prefix(at[m], j)
        BY <3>1, <3>3, PrefixClosed
      <3>7. bt[k] = bt[n] /\ k \in DOMAIN u
        BY <1>3, <2>3, <3>1, <3>5, <3>6
      <3>8. QED
        BY <1>6, <2>1, <2>2, <3>7
    <2>9. QED
      BY <2>7, <2>8
  <1>8. Loaded(u, bt, r)
    <2> SUFFICES ASSUME NEW n \in Below(u, bt, r)
                 PROVE  u[n].data # NULL
      BY DEF Loaded
    <2>1. CASE n = end
      BY <1>3, <2>1
    <2>2. CASE n # end
      <3>1. n \in DOMAIN t
        BY <1>7, <2>2
      <3>2. bt[n] = at[n] /\ u[n].data = t[n].data
        BY <1>3, <2>2, <3>1
      <3>3. n \in Below(t, at, r)
        BY <3>1, <3>2 DEF Below
      <3>4. QED
        BY <3>2, <3>3 DEF Loaded
    <2>3. QED
      BY <2>1, <2>2
  <1>9. QED
    BY <1>3, <1>5, <1>8 DEF u

\* inotify_init succeeds while a directory is not watched: every instance is a
\* directory's, and no directory has two.
LEMMA Room ==
  ASSUME PlainRoots, EnoughInstances, TypeOK, Watching, NEW p \in DOMAIN dirs, Key(p) \notin set
  PROVE  ~ Fds \subseteq DOMAIN inst
  <1> SUFFICES ASSUME Fds \subseteq DOMAIN inst PROVE FALSE
    OBVIOUS
  <1> DEFINE Others == Paths \ {p}
             f == [fd \in Fds |-> CHOOSE q \in Others : map[fd] = Key(q)]
  <1>1. /\ DOMAIN inst = DOMAIN map /\ set = {map[fd] : fd \in DOMAIN map}
        /\ \A fd, other \in DOMAIN map : map[fd] = map[other] => fd = other
        /\ \A fd \in DOMAIN inst : \E q \in DOMAIN dirs : map[fd] = Key(q)
    BY DEF Watching
  <1>2. DOMAIN dirs \subseteq Paths /\ p \in Paths
    BY DEF TypeOK, WorldOK
  <1>3. \A fd \in Fds : \E q \in Others : map[fd] = Key(q)
    <2> TAKE fd \in Fds
    <2>1. fd \in DOMAIN inst
      OBVIOUS
    <2>2. PICK q \in DOMAIN dirs : map[fd] = Key(q)
      BY <1>1, <2>1
    <2>3. q # p
      BY <1>1, <2>1, <2>2
    <2>4. QED
      BY <1>2, <2>2, <2>3
  <1> HIDE DEF Others
  <1>4. f \in [Fds -> Others] /\ \A fd \in Fds : map[fd] = Key(f[fd])
    BY <1>3
  <1> HIDE DEF f
  <1>5. IsFiniteSet(Others) /\ Cardinality(Others) = Cardinality(DirPaths)
                            /\ Cardinality(DirPaths) \in Nat
    <2>1. IsFiniteSet(DirPaths) /\ <<>> \notin DirPaths /\ Cardinality(DirPaths) \in Nat
      BY NamesAreStrings, FS_CardinalityType
    <2>2. IsFiniteSet(DirPaths \cup {<<>>})
          /\ Cardinality(DirPaths \cup {<<>>}) = Cardinality(DirPaths) + 1
      BY <2>1, FS_AddElement
    <2>3. IsFiniteSet(Paths) /\ Cardinality(Paths) = Cardinality(DirPaths) + 1
      BY <2>2 DEF Paths
    <2>4. IsFiniteSet(Paths \ {p}) /\ Cardinality(Paths \ {p}) = Cardinality(Paths) - 1
      BY <1>2, <2>3, FS_RemoveElement
    <2>5. QED
      BY <2>1, <2>3, <2>4 DEF Others
  <1>6. IsFiniteSet(Fds) /\ Cardinality(Fds) = MaxInstances /\ MaxInstances \in Nat
    <2>1. MaxInstances \in Nat /\ MaxInstances >= 1
      BY SomeInstances
    <2>2. /\ IsFiniteSet(1 .. MaxInstances)
          /\ Cardinality(1 .. MaxInstances) = IF 1 > MaxInstances THEN 0 ELSE MaxInstances - 1 + 1
      BY <2>1, FS_Interval
    <2>3. QED
      BY <2>1, <2>2 DEF Fds
  <1>7. Cardinality(Others) < Cardinality(Fds)
    BY <1>5, <1>6 DEF EnoughInstances
  <1>8. PICK x, y \in Fds : x # y /\ f[x] = f[y]
    BY <1>4, <1>5, <1>6, <1>7, FS_PigeonHole
  <1>9. map[x] = map[y] /\ x \in DOMAIN map /\ y \in DOMAIN map
    BY <1>1, <1>4, <1>8
  <1>10. QED
    BY <1>1, <1>8, <1>9

\* The strings of directories, there or not, are keys that the tree takes as they are.
LEMMA PathKeys ==
  ASSUME PlainRoots, DottedRoots, root \in Roots, NEW p \in Paths
  PROVE  /\ Key(p) \in Seq(Names) /\ Key(p) \in Seq(STRING) /\ Key(p) # <<>>
         /\ TokensOf(Key(p)) = Key(p)
         /\ p # <<>> => Front(Key(p)) = Key(Front(p))
  <1>1. /\ p \in Seq(STRING) /\ p \in Seq(Names) /\ root \in Seq(STRING)
        /\ \A i \in DOMAIN p : p[i] # ""
    <2>1. p \in Seq(Names) /\ root \in Seq(STRING)
      BY PathTypes, NamesAreStrings
    <2>2. CASE p = <<>>
      BY <2>1, <2>2, EmptySeq
    <2>3. CASE p \in DirPaths
      BY <2>1, <2>3, NamesAreStrings
    <2>4. QED
      BY <2>2, <2>3 DEF Paths
  <1> DEFINE S == STRING \ {""}
  <1>2. S \subseteq STRING /\ "" \notin S
    OBVIOUS
  <1>3. p \in Seq(S)
    <2>1. Len(p) \in Nat /\ DOMAIN p = 1 .. Len(p) /\ \A i \in 1 .. Len(p) : p[i] \in S
      BY <1>1, LenProperties
    <2> HIDE DEF S
    <2>2. p = [i \in 1 .. Len(p) |-> p[i]]
      BY <1>1, LenProperties
    <2>3. p \in [1 .. Len(p) -> S]
      BY <2>1, <2>2
    <2>4. QED
      BY <2>1, <2>3, SeqDef
  <1> HIDE DEF S
  <1>4. /\ Key(p) \in Seq(Names) /\ Key(p) \in Seq(STRING) /\ Key(p) # <<>>
        /\ TokensOf(Key(p)) = Key(p)
    BY <1>2, <1>3, PlainBelow DEF Key
  <1>5. ASSUME p # <<>>
        PROVE  Front(Key(p)) = Key(Front(p))
    <2>1. Front(p) \in Seq(Names) /\ Last(p) \in Names /\ p = Append(Front(p), Last(p))
      BY <1>1, <1>5, ParentAndName
    <2> DEFINE q == Front(p)
               name == Last(p)
               k == Key(q)
    <2>2. q \in Seq(Names) /\ name \in Names /\ p = Append(q, name)
      BY <2>1
    <2> HIDE DEF q, name
    <2>3. k \in Seq(Names) /\ Append(k, name) = Key(p)
      BY <2>2, KeyFacts
    <2> HIDE DEF k
    <2>4. Front(Append(k, name)) = k
      BY <2>2, <2>3, ParentOfChild
    <2>5. QED
      BY <2>3, <2>4 DEF k, q
  <1>6. QED
    BY <1>4, <1>5

LEMMA AddWatchUp ==
  ASSUME PlainRoots, DottedRoots, EnoughInstances, Base, Watching, TreeLoaded,
         NEW p \in DOMAIN dirs, p = <<>> \/ Reached(p),
         NEW next, addWatch(Key(p), next), root' = root
  PROVE  pc' = next /\ set' = set \cup {Key(p)} /\ TreeLoaded'
  <1>1. p \in Paths /\ root \in Roots
    BY DEF Base, TypeOK, WorldOK, MembersOK
  <1>2. CASE Key(p) \in set
    <2>1. UNCHANGED <<kernel, watched>> /\ pc' = next
      BY <1>2 DEF addWatch
    <2>2. tree' = tree /\ set' = set
      BY <2>1 DEF watched
    <2>3. QED
      BY <1>2, <2>1, <2>2 DEF TreeLoaded
  <1>3. CASE Key(p) \notin set
    <2> DEFINE fd == Min(Fds \ DOMAIN inst)
               data == [fd |-> fd, path |-> Key(p)]
    <2>1. ~ Fds \subseteq DOMAIN inst
      BY <1>3, Room DEF Base
    <2>2. fd \in Fds \ DOMAIN inst
      BY <2>1, FreeFd
    <2>3. /\ tree' = insert(tree, Key(p), data) /\ set' = set \cup {Key(p)} /\ pc' = next
      BY <1>3, <2>1 DEF addWatch
    <2>4. /\ Key(p) \in Seq(Names) /\ Key(p) \in Seq(STRING)
          /\ Key(p) # <<>> /\ TokensOf(Key(p)) = Key(p)
      BY <1>1, PathKeys
    <2>5. data # NULL
      <3>1. fd \in Nat
        BY <2>2, SomeInstances DEF Fds
      <3> HIDE DEF fd
      <3>2. data \in [fd : Nat, path : Seq(STRING)]
        BY <2>4, <3>1
      <3>3. QED
        BY <3>2, NullIsNoTreeNode
    <2>6. Key(p) = root \/ Front(Key(p)) \in set
      <3>1. p = <<>> => Key(p) = root
        BY <1>1, KeyFacts
      <3>2. p # <<>> => Front(Key(p)) = Key(Front(p))
        BY <1>1, PathKeys
      <3>3. QED
        BY <1>3, <3>1, <3>2 DEF Reached
    <2> HIDE DEF fd, data
    <2>7. PICK at : IsTree(tree, at) /\ Filed(tree, at, set) /\ Loaded(tree, at, root)
      BY DEF TreeLoaded
    <2>8. root \in Seq(Names)
      BY <1>1, PathTypes
    <2> DEFINE dir == Key(p)
    <2>9. /\ dir \in Seq(Names) /\ dir # <<>> /\ TokensOf(dir) = dir
          /\ (dir = root \/ Front(dir) \in set)
      BY <2>4, <2>6
    <2> HIDE DEF dir
    <2>10. PICK bt : /\ IsTree(insert(tree, dir, data), bt)
                     /\ Filed(insert(tree, dir, data), bt, set \cup {dir})
                     /\ Loaded(insert(tree, dir, data), bt, root)
      BY <2>5, <2>7, <2>8, <2>9, WatchLoaded
    <2>11. IsTree(tree', bt) /\ Filed(tree', bt, set') /\ Loaded(tree', bt, root')
      BY <2>3, <2>10 DEF dir
    <2>12. QED
      BY <2>3, <2>11 DEF TreeLoaded
  <1>4. QED
    BY <1>2, <1>3

LEMMA WorldUp ==
  ASSUME Up, World
  PROVE  Up'
  <1>1. /\ pc' = pc /\ tree' = tree /\ set' = set /\ walk' = walk /\ root' = root
    BY DEF World, Mkdir, Rmdir, WriteFile, Unlink, watched, control
  <1>2. \A p : Key(p)' = Key(p)
    BY <1>1 DEF Key
  <1>3. TreeLoaded' /\ WalkAhead'
    BY <1>1, <1>2 DEF Up, TreeLoaded, WalkAhead, Ahead, Reached, Unnamed
  <1>4. QED
    BY <1>1, <1>3 DEF Up

\* What was ahead stays so while the set grows.
LEMMA AheadStays ==
  ASSUME set \subseteq set', root' = root, NEW e, Ahead(e)
  PROVE  Ahead(e)'
  BY DEF Ahead, Reached, Unnamed, Key

LEMMA WalkUp ==
  ASSUME PlainRoots, DottedRoots, NoneBelow, EnoughInstances, Base, Truth, Up, ~onEmptyDir, Walk
  PROVE  Up'
  <1>1. /\ pc \in {"initwalk", "handle"} /\ walk # <<>> /\ UNCHANGED <<world, root>> /\ root' = root
    BY DEF Walk
  <1>2. /\ Head(walk) \in Entries /\ Tail(walk) \in Seq(Entries)
        /\ Range(walk) = {Head(walk)} \cup Range(Tail(walk))
        /\ Head(walk).kind # "file" => \E p \in DOMAIN dirs : Head(walk).key = Key(p)
    BY <1>1, WalkHead
  <1>3. /\ root \in Roots /\ Watching /\ TreeLoaded /\ WalkAhead
        /\ DOMAIN dirs \subseteq Paths /\ files \subseteq FilePaths
    BY DEF Base, TypeOK, WorldOK, MembersOK, Truth, Up
  <1> DEFINE key == Head(walk).key
  <1>4. ASSUME Head(walk).kind # "file"
        PROVE  \E p \in DOMAIN dirs : /\ key = Key(p) /\ Reached(p)
                                      /\ Head(walk).kind # "dir" => Key(p) \in set \/ Unnamed(p)
    <2>1. Ahead(Head(walk))
      BY <1>2, <1>3, <1>4 DEF WalkAhead
    <2>2. PICK p \in Paths : /\ key = Key(p) /\ Reached(p)
                             /\ Head(walk).kind # "dir" => Key(p) \in set \/ Unnamed(p)
      BY <2>1 DEF Ahead
    <2>3. PICK q \in DOMAIN dirs : key = Key(q)
      BY <1>2, <1>4
    <2>4. p \in Seq(Names) /\ q \in Seq(Names)
      BY <1>3, PathTypes
    <2>5. p = q
      BY <1>3, <2>2, <2>3, <2>4, KeyFacts
    <2>6. QED
      BY <2>2, <2>3, <2>5
  <1>5. ASSUME set \subseteq set', NEW e \in Range(Tail(walk)), e.kind # "file"
        PROVE  Ahead(e)'
    <2>1. Ahead(e)
      BY <1>2, <1>3, <1>5 DEF WalkAhead
    <2>2. QED
      BY <1>1, <1>5, <2>1, AheadStays
  <1>6. ASSUME UNCHANGED <<tree, set, pc>>, WalkAhead'
        PROVE  Up'
    <2>1. TreeLoaded'
      BY <1>1, <1>3, <1>6 DEF TreeLoaded
    <2>2. QED
      BY <1>6, <2>1 DEF Up
  <1> HIDE DEF key
  <1>7. CASE OpenWalk
    <2>1. Head(walk).kind = "open" /\ UNCHANGED <<tree, set, pc>>
      BY <1>7 DEF OpenWalk, watched
    <2>2. PICK p \in DOMAIN dirs : key = Key(p) /\ Reached(p) /\ (Key(p) \in set \/ Unnamed(p))
      BY <1>4, <2>1
    <2>3. PICK kind \in {"file", "dir"} : walk' = <<Entry(kind, key)>>
      BY <1>7 DEF OpenWalk, key
    <2>4. PICK e : e = Entry(kind, key)
      OBVIOUS
    <2>5. Range(walk') = {e}
      BY <2>3, <2>4, RangeOfSingle
    <2>6. Ahead(e)
      BY <1>3, <2>2, <2>4 DEF Ahead, Entry
    <2>7. Ahead(e)'
      BY <1>1, <2>1, <2>6, AheadStays
    <2>8. WalkAhead'
      BY <2>5, <2>7 DEF WalkAhead
    <2>9. QED
      BY <1>6, <2>1, <2>8
  <1>8. CASE VisitDir
    <2>1. Head(walk).kind = "dir" /\ walk' = <<Entry("list", key)>> \o Tail(walk)
      BY <1>8 DEF VisitDir, key
    <2>2. PICK p \in DOMAIN dirs : key = Key(p) /\ Reached(p)
      BY <1>4, <2>1
    <2>0. PICK e : e = Entry("list", key)
      OBVIOUS
    <2>3. Range(walk') = {e} \cup Range(Tail(walk))
      <3> DEFINE one == <<e>>
      <3>1. one \in Seq(Entries) /\ Tail(walk) \in Seq(Entries) /\ walk' = one \o Tail(walk)
        BY <1>2, <2>0, <2>1 DEF Entry, Entries, key
      <3>2. Range(one) = {e}
        BY RangeOfSingle
      <3> HIDE DEF one
      <3>3. Range(one \o Tail(walk)) = Range(one) \cup Range(Tail(walk))
        BY <3>1, RangeConcatenation, ZenonT(30)
      <3>4. QED
        BY <3>1, <3>2, <3>3
    <2>4. /\ pc' = pc /\ TreeLoaded' /\ set \subseteq set'
          /\ Key(p) \in set' \/ Unnamed(p)
      <3>1. CASE Last(key) \in DotNames /\ UNCHANGED <<kernel, watched, pc>>
        <4>1. p # <<>> => Unnamed(p)
          BY <1>3, <2>2, <3>1, KeyEndsInName DEF Unnamed
        <4>2. tree' = tree /\ set' = set
          BY <3>1 DEF watched
        <4>3. QED
          BY <1>1, <1>3, <2>2, <3>1, <4>1, <4>2 DEF Reached, TreeLoaded
      <3>2. CASE addWatch(key, pc)
        <4>1. addWatch(Key(p), pc)
          BY <2>2, <3>2
        <4>2. pc' = pc /\ set' = set \cup {Key(p)} /\ TreeLoaded'
          BY <1>1, <1>3, <2>2, <4>1, AddWatchUp
        <4>3. QED
          BY <4>2
      <3>3. QED
        BY <1>8, <3>1, <3>2 DEF VisitDir, key
    <2>5. Ahead(e)'
      <3>1. Key(p)' = Key(p) /\ Key(Front(p))' = Key(Front(p))
        BY <1>1 DEF Key
      <3>2. Reached(p)' /\ (Key(p)' \in set' \/ Unnamed(p)')
        BY <2>2, <2>4, <3>1 DEF Reached, Unnamed
      <3>3. p \in Paths /\ e.key = Key(p)'
        BY <1>3, <2>0, <2>2, <3>1 DEF Entry
      <3>4. QED
        BY <3>2, <3>3 DEF Ahead
    <2>6. WalkAhead'
      BY <1>5, <2>3, <2>4, <2>5 DEF WalkAhead
    <2>7. QED
      BY <1>3, <2>4, <2>6 DEF Up
  <1>9. CASE VisitFile
    <2>1. walk' = Tail(walk) /\ UNCHANGED <<tree, set, pc>>
      BY <1>9 DEF VisitFile
    <2>2. WalkAhead'
      BY <1>5, <2>1 DEF WalkAhead
    <2>3. QED
      BY <1>6, <2>1, <2>2
  <1>10. CASE ListDir
    <2>1. Head(walk).kind = "list" /\ UNCHANGED <<tree, set, pc>>
      BY <1>10 DEF ListDir, watched
    <2>2. PICK q \in DOMAIN dirs : key = Key(q) /\ (Key(q) \in set \/ Unnamed(q))
      BY <1>4, <2>1
    <2>3. PICK order \in Seq(Entries) :
             /\ Range(order) = Found(key, "dir", DOMAIN dirs) \cup Found(key, "file", files)
             /\ walk' = order \o Tail(walk)
      BY <1>1, <1>10, ListedEntries DEF Base, key
    <2>4. Range(walk') = Range(order) \cup Range(Tail(walk))
      <3>1. order \in Seq(Entries) /\ Tail(walk) \in Seq(Entries)
        BY <1>2
      <3>2. Range(order \o Tail(walk)) = Range(order) \cup Range(Tail(walk))
        BY <3>1, RangeConcatenation, ZenonT(30)
      <3>3. QED
        BY <2>3, <3>2
    <2>5. ASSUME NEW e \in Range(order), e.kind # "file"
          PROVE  Ahead(e)'
      <3>1. e \in Found(key, "dir", DOMAIN dirs)
        BY <2>3, <2>5 DEF Found, Entry
      <3>2. PICK p \in DOMAIN dirs \ {<<>>} : Front(p) = q /\ e = Entry("dir", Key(p))
        <4>1. DOMAIN dirs \subseteq Seq(Names)
          BY <1>3, PathTypes
        <4>2. QED
          BY <2>2, <3>1, <4>1, FoundKeys
      <3>3. Key(q) \in set
        <4>1. q # <<>> /\ Last(q) \in DotNames => Hidden(q)
          BY <1>3, PathTypes, HiddenParent
        <4>2. ~Hidden(q)
          BY <3>2 DEF NoneBelow, BelowHidden
        <4>3. QED
          BY <2>2, <4>1, <4>2 DEF Unnamed
      <3>4. Ahead(e)
        BY <1>3, <3>2, <3>3 DEF Ahead, Reached, Entry
      <3>5. QED
        BY <1>1, <2>1, <3>4, AheadStays
    <2>6. WalkAhead'
      BY <1>5, <2>1, <2>4, <2>5 DEF WalkAhead
    <2>7. QED
      BY <1>6, <2>1, <2>6
  <1>11. QED
    BY <1>7, <1>8, <1>9, <1>10 DEF Walk

LEMMA ClientUp ==
  ASSUME PlainRoots, DottedRoots, EnoughInstances, Base, Truth, Up, pc' # "destroyed",
         FsWatchInit \/ InitDone \/ OnEmptyDirCbk \/ Start \/ Destroy \/ RemoveRoot
  PROVE  Up'
  <1>1. /\ root \in Roots /\ Watching /\ TreeLoaded /\ WalkAhead /\ pc \notin {"exit", "crash"}
    BY DEF Base, MembersOK, TypeOK, Truth, Up
  <1>2. CASE FsWatchInit
    <2>1. /\ addWatch(root, "initwalk") /\ root' = root /\ walk' = <<Entry("open", root)>>
      BY <1>2 DEF FsWatchInit
    <2>2. PICK p \in DOMAIN dirs : p = <<>> /\ p \in Paths /\ Key(p) = root
      <3>1. <<>> \in DOMAIN dirs /\ <<>> \in Paths /\ Key(<<>>) = root
        BY <1>1, KeyFacts, PathTypes DEF Base, TypeOK, WorldOK
      <3>2. QED
        BY <3>1
    <2>3. addWatch(Key(p), "initwalk")
      BY <2>1, <2>2
    <2>4. pc' = "initwalk" /\ set' = set \cup {root} /\ TreeLoaded'
      BY <1>1, <2>1, <2>2, <2>3, AddWatchUp
    <2>5. PICK e : e = Entry("open", root)
      OBVIOUS
    <2>6. Range(walk') = {e}
      BY <2>1, <2>5, RangeOfSingle
    <2>7. Ahead(e)'
      <3>1. Key(p)' = root
        BY <2>1, <2>2 DEF Key
      <3>2. Key(p)' \in set' /\ Reached(p)'
        BY <2>4, <3>1 DEF Reached
      <3>3. p \in Paths /\ e.key = Key(p)'
        BY <2>2, <2>5, <3>1 DEF Entry
      <3>4. QED
        BY <3>2, <3>3 DEF Ahead
    <2>8. WalkAhead'
      BY <2>6, <2>7 DEF WalkAhead
    <2>9. QED
      BY <2>4, <2>8 DEF Up
  <1>3. CASE InitDone \/ OnEmptyDirCbk \/ Start \/ Destroy
    <2>1. /\ tree' = tree /\ set' = set /\ walk' = walk /\ root' = root
          /\ pc' \notin {"exit", "crash"}
      BY <1>1, <1>3 DEF InitDone, OnEmptyDirCbk, Start, Destroy, watched, control
    <2>2. TreeLoaded'
      BY <1>1, <2>1 DEF TreeLoaded
    <2>3. \A e : Ahead(e) => Ahead(e)'
      BY <2>1, AheadStays
    <2>4. WalkAhead'
      BY <1>1, <2>1, <2>3 DEF WalkAhead
    <2>5. QED
      BY <2>1, <2>2, <2>4 DEF Up
  <1>4. ~ RemoveRoot
    <2> SUFFICES ASSUME RemoveRoot PROVE FALSE
      OBVIOUS
    <2>1. removeWatch(root, "destroyed")
      BY DEF RemoveRoot
    <2>2. PICK at : IsTree(tree, at) /\ Loaded(tree, at, root)
      BY <1>1 DEF TreeLoaded
    <2>3. root \in Seq(Names) /\ root # <<>> /\ TokensOf(root) = root
      BY <1>1, RootIsDirKey, DirKeyFacts
    <2>4. drop(tree, root).calls = {DropCall(tree, at, root, n) : n \in Below(tree, at, root)}
      BY <2>2, <2>3, DropMeans
    <2>5. \A n \in Below(tree, at, root) : DropCall(tree, at, root, n).data # NULL
      BY <2>2 DEF Loaded, DropCall
    <2>6. \A c \in drop(tree, root).calls : c.data # NULL
      BY <2>4, <2>5
    <2>7. QED
      BY <2>1, <2>6 DEF removeWatch
  <1>5. QED
    BY <1>2, <1>3, <1>4

LEMMA LoopUp ==
  ASSUME Base, Truth, Up, LoopCheck \/ EpollWait \/ NextFd \/ ReadEvents \/ BufferDone
  PROVE  Up'
  <1>1. tree' = tree /\ set' = set /\ walk' = walk /\ root' = root
    BY DEF LoopCheck, EpollWait, NextFd, ReadEvents, BufferDone, watched, control
  <1>2. ReadEvents => Head(batch) \in DOMAIN inst
    BY DEF ReadEvents, Base, BatchOK, Truth, Watching
  <1>3. pc' \notin {"exit", "crash"}
    BY <1>2 DEF Up, LoopCheck, EpollWait, NextFd, ReadEvents, BufferDone
  <1>4. TreeLoaded'
    BY <1>1 DEF Up, TreeLoaded
  <1>5. \A e : Ahead(e) => Ahead(e)'
    BY <1>1, AheadStays
  <1>6. WalkAhead'
    BY <1>1, <1>5 DEF Up, WalkAhead
  <1>7. QED
    BY <1>3, <1>4, <1>6 DEF Up

LEMMA HandleEventUp ==
  ASSUME PlainRoots, DottedRoots, EnoughInstances, Base, Truth, Up, ~onEmptyDir, HandleEvent
  PROVE  Up'
  <1> DEFINE event == Head(buf)
             child == Append(event.dir, event.name)
             path  == getFullPath(Head(batch), event.name)
  <1>1. /\ pc = "handle" /\ buf # <<>> /\ walk = <<>> /\ root' = root /\ UNCHANGED <<world, root>>
    BY DEF HandleEvent
  <1>2. /\ event \in Events /\ event.kind \in {"mkdir", "write", "unlink"}
        /\ child \in Seq(Names) \ {<<>>} /\ Front(child) = event.dir
        /\ event.kind = "mkdir" => child \in DOMAIN dirs
        /\ path = Key(child)
        /\ event \in Range(buf)
    BY <1>1, EventTruth
  <1>3. \/ event.kind = "mkdir" /\ handleDirectoryCreate(path)
        \/ handleFileModify(path, event) \/ handleFileDelete(path, event)
    BY <1>2 DEF HandleEvent
  <1>4. Key(event.dir) \in set
    <2>1. Head(batch) \in DOMAIN map /\ set = {map[fd] : fd \in DOMAIN map}
      BY <1>1 DEF Base, BatchOK, Truth, Watching
    <2>2. map[Head(batch)] = Key(event.dir)
      BY <1>1, <1>2 DEF Truth, Handling, Truthful, Key
    <2>3. QED
      BY <2>1, <2>2
  <1>5. Watching /\ TreeLoaded /\ DOMAIN dirs \subseteq Paths
    BY DEF Base, TypeOK, WorldOK, Truth, Up
  <1> HIDE DEF event, child, path
  <1>6. CASE event.kind = "mkdir" /\ handleDirectoryCreate(path)
    <2>1. PICK p \in DOMAIN dirs : p = child
      BY <1>2, <1>6
    <2>2. addWatch(Key(p), "handle") /\ walk' = <<Entry("open", Key(p))>>
      BY <1>2, <1>6, <2>1 DEF handleDirectoryCreate
    <2>3. Reached(p)
      BY <1>2, <1>4, <2>1 DEF Reached
    <2>4. pc' = "handle" /\ set' = set \cup {Key(p)} /\ TreeLoaded'
      BY <1>1, <1>5, <2>2, <2>3, AddWatchUp
    <2>5. PICK e : e = Entry("open", Key(p))
      OBVIOUS
    <2>6. Range(walk') = {e}
      BY <2>2, <2>5, RangeOfSingle
    <2>7. Ahead(e)'
      <3>1. Key(p)' = Key(p)
        BY <1>1 DEF Key
      <3>2. Key(p)' \in set' /\ Reached(p)'
        BY <2>4, <3>1 DEF Reached
      <3>3. p \in Paths /\ e.key = Key(p)'
        BY <1>5, <2>5, <3>1 DEF Entry
      <3>4. QED
        BY <3>2, <3>3 DEF Ahead
    <2>8. WalkAhead'
      BY <2>6, <2>7 DEF WalkAhead
    <2>9. QED
      BY <2>4, <2>8 DEF Up
  <1>7. CASE handleFileModify(path, event) \/ handleFileDelete(path, event)
    <2>1. tree' = tree /\ set' = set /\ walk' = walk /\ pc' = "handle"
      BY <1>1, <1>7 DEF handleFileModify, handleFileDelete, checkEmptyDir
    <2>2. TreeLoaded'
      BY <1>1, <1>5, <2>1 DEF TreeLoaded
    <2>3. WalkAhead'
      BY <1>1, <2>1, RangeOfEmpty DEF WalkAhead
    <2>4. QED
      BY <2>1, <2>2, <2>3 DEF Up
  <1>8. QED
    BY <1>3, <1>6, <1>7

LEMMA InitUp ==
  ASSUME PlainRoots, Init
  PROVE  UpInv
  <1>1. Inv
    BY InitInv DEF FullInv
  <1>2. tree = NewTree /\ set = {} /\ walk = <<>> /\ pc = "new" /\ root \in Roots
    BY DEF Init
  <1>3. PICK at : IsTree(tree, at) /\ DOMAIN tree = {Root}
    BY <1>2, NewTreeIsTree
  <1>4. Below(tree, at, root) = {}
    <2>1. root \in Seq(Names) /\ root # <<>>
      BY <1>2, PathTypes
    <2>2. \A n \in DOMAIN tree : at[n] # root
      BY <1>3, <2>1 DEF IsTree
    <2>3. QED
      BY <1>3, <2>1, <2>2, BelowNothing
  <1>5. TreeLoaded
    BY <1>2, <1>3, <1>4 DEF TreeLoaded, Filed, Loaded
  <1>6. WalkAhead
    BY <1>2, RangeOfEmpty DEF WalkAhead
  <1>7. QED
    BY <1>1, <1>2, <1>5, <1>6 DEF UpInv, Up, Alive

\* A process that has crashed does nothing more.
LEMMA CrashIsLast ==
  ASSUME pc = "crash", [Next]_vars
  PROVE  UNCHANGED vars
  BY DEF Next, World, Mkdir, Rmdir, WriteFile, Unlink, Change, Watcher, LoopCheck, EpollWait,
     NextFd, ReadEvents, HandleEvent, BufferDone, Walk, FsWatchInit, InitDone,
     OnEmptyDirCbk, Start, Destroy, RemoveRoot

\* Directories only come while none has been removed.
LEMMA NoneBelowBefore ==
  ASSUME [Next]_vars, ~removed', NoneBelow'
  PROVE  NoneBelow
  <1>1. DOMAIN dirs \subseteq DOMAIN dirs'
    <2>1. CASE dirs' = dirs
      BY <2>1
    <2>2. CASE \E p \in DirPaths : Mkdir(p)
      BY <2>2 DEF Mkdir, Inserted
    <2>3. ~ \E p \in DirPaths : Rmdir(p)
      BY DEF Rmdir
    <2>4. QED
      BY <2>1, <2>2, <2>3
      DEF Next, vars, world, World, WriteFile, Unlink, Watcher, LoopCheck, EpollWait,
       NextFd, ReadEvents, HandleEvent, BufferDone, Walk, FsWatchInit, InitDone,
       OnEmptyDirCbk, Start, Destroy, RemoveRoot
  <1>2. QED
    BY <1>1 DEF NoneBelow, BelowHidden, Hidden

\* addWatch finds an instance for a directory that is there.
LEMMA AddWatchAlive ==
  ASSUME PlainRoots, EnoughInstances, TypeOK, Watching, NEW p \in DOMAIN dirs,
         NEW next, addWatch(Key(p), next)
  PROVE  pc' = next
  BY Room DEF addWatch

\* Only the destructor's removeWatch may crash, hidden directories or not.
LEMMA NextAlive ==
  ASSUME PlainRoots, EnoughInstances, Base, Truth, Alive, pc # "crash", ~onEmptyDir, Next
  PROVE  Alive'
  <1>1. TypeOK /\ Watching /\ root \in Roots /\ <<>> \in DOMAIN dirs
    BY DEF Base, TypeOK, WorldOK, MembersOK, Truth
  <1>2. CASE World
    BY <1>2 DEF Alive, World, Mkdir, Rmdir, WriteFile, Unlink
  <1>3. CASE LoopCheck \/ EpollWait \/ NextFd \/ BufferDone
    BY <1>3 DEF Alive, LoopCheck, EpollWait, NextFd, BufferDone
  <1>4. CASE ReadEvents
    <2>1. Head(batch) \in DOMAIN inst
      BY <1>4 DEF ReadEvents, Base, BatchOK, Truth, Watching
    <2>2. QED
      BY <1>4, <2>1 DEF Alive, ReadEvents
  <1>5. CASE HandleEvent
    <2> DEFINE event == Head(buf)
               child == Append(event.dir, event.name)
               path  == getFullPath(Head(batch), event.name)
    <2>1. pc = "handle" /\ buf # <<>>
      BY <1>5 DEF HandleEvent
    <2>2. /\ event.kind \in {"mkdir", "write", "unlink"} /\ path = Key(child)
          /\ event.kind = "mkdir" => child \in DOMAIN dirs
      BY <2>1, EventTruth
    <2>3. \/ event.kind = "mkdir" /\ handleDirectoryCreate(path)
          \/ handleFileModify(path, event) \/ handleFileDelete(path, event)
      BY <1>5, <2>2 DEF HandleEvent
    <2> HIDE DEF event, child, path
    <2>4. pc' = "handle"
      <3>1. CASE event.kind = "mkdir" /\ handleDirectoryCreate(path)
        <4>1. child \in DOMAIN dirs /\ addWatch(Key(child), "handle")
          BY <2>2, <3>1 DEF handleDirectoryCreate
        <4>2. QED
          BY <1>1, <4>1, AddWatchAlive
      <3>2. CASE handleFileModify(path, event) \/ handleFileDelete(path, event)
        BY <2>1, <3>2 DEF handleFileModify, handleFileDelete, checkEmptyDir
      <3>3. QED
        BY <2>3, <3>1, <3>2
    <2>5. QED
      BY <2>4 DEF Alive
  <1>6. CASE Walk
    <2>1. pc \in {"initwalk", "handle"} /\ walk # <<>>
      BY <1>6 DEF Walk
    <2>2. pc' = pc
      <3>1. CASE VisitDir
        <4>1. Head(walk).kind = "dir"
          BY <3>1 DEF VisitDir
        <4>2. PICK p \in DOMAIN dirs : Head(walk).key = Key(p)
          BY <2>1, <4>1, WalkHead
        <4>3. pc' = pc \/ addWatch(Key(p), pc)
          BY <3>1, <4>2 DEF VisitDir
        <4>4. QED
          BY <1>1, <4>3, AddWatchAlive
      <3>2. CASE OpenWalk \/ VisitFile \/ ListDir
        BY <3>2 DEF OpenWalk, VisitFile, ListDir
      <3>3. QED
        BY <1>6, <3>1, <3>2 DEF Walk
    <2>3. QED
      BY <2>1, <2>2 DEF Alive
  <1>7. CASE FsWatchInit
    <2>1. addWatch(Key(<<>>), "initwalk")
      BY <1>1, <1>7, KeyFacts DEF FsWatchInit
    <2>2. pc' = "initwalk"
      BY <1>1, <2>1, AddWatchAlive
    <2>3. QED
      BY <2>2 DEF Alive
  <1>8. CASE InitDone \/ OnEmptyDirCbk \/ Start \/ Destroy
    BY <1>8 DEF Alive, InitDone, OnEmptyDirCbk, Start, Destroy
  <1>9. CASE RemoveRoot
    BY <1>9 DEF Alive, RemoveRoot, removeWatch
  <1>10. QED
    BY <1>2, <1>3, <1>4, <1>5, <1>6, <1>7, <1>8, <1>9 DEF Next, Watcher

LEMMA NextUp ==
  ASSUME PlainRoots, DottedRoots, EnoughInstances, UpInv, [Next]_vars
  PROVE  UpInv'
  <1>1. Inv /\ Inv' /\ Base
    BY NextTruth DEF UpInv, Inv
  <1>2. SUFFICES ASSUME Plain', pc' # "destroyed"
                 PROVE  Alive' /\ (NoneBelow' => Up')
    BY <1>1 DEF UpInv
  <1>3. onEmptyDir => onEmptyDir'
    BY DEF Next, vars, World, Mkdir, Rmdir, WriteFile, Unlink, Watcher, LoopCheck, EpollWait,
       NextFd, ReadEvents, HandleEvent, BufferDone, Walk, FsWatchInit, InitDone,
       OnEmptyDirCbk, Start, Destroy, RemoveRoot
  <1>4. Plain /\ pc # "destroyed"
    BY <1>2, <1>3, StaysGone DEF Plain
  <1>5. Alive /\ (NoneBelow => Up) /\ Truth /\ ~onEmptyDir
    BY <1>1, <1>4 DEF UpInv, Inv, Intact, Plain, Truth
  <1>6. Alive'
    <2>1. CASE UNCHANGED vars
      BY <1>5, <2>1 DEF vars, Alive
    <2>2. CASE pc # "crash" /\ Next
      BY <1>1, <1>5, <2>2, NextAlive
    <2>3. QED
      BY <2>1, <2>2, CrashIsLast
  <1>7. ASSUME NoneBelow'
        PROVE  Up'
    <2>1. NoneBelow /\ Up
      BY <1>2, <1>5, <1>7, NoneBelowBefore DEF Plain
    <2>2. CASE UNCHANGED vars
      <3>1. /\ pc' = pc /\ tree' = tree /\ set' = set /\ walk' = walk /\ root' = root
        BY <2>2 DEF vars, watched, control
      <3>2. \A e : Ahead(e) => Ahead(e)'
        BY <3>1, AheadStays
      <3>3. QED
        BY <2>1, <3>1, <3>2 DEF Up, TreeLoaded, WalkAhead
    <2>3. CASE World
      BY <2>1, <2>3, WorldUp
    <2>4. CASE Watcher
      BY <1>1, <1>5, <2>1, <2>4, LoopUp, HandleEventUp, WalkUp DEF Watcher
    <2>5. CASE FsWatchInit \/ InitDone \/ OnEmptyDirCbk \/ Start \/ Destroy \/ RemoveRoot
      BY <1>1, <1>2, <1>5, <2>1, <2>5, ClientUp
    <2>6. QED
      BY <2>2, <2>3, <2>4, <2>5 DEF Next
  <1>8. QED
    BY <1>6, <1>7

\* While no directory has been removed and children are not tracked, the process does not
\* end in addWatch or read, if there are instances for all the directories, and dropCbk
\* finds a TreeNode at every node that it is called for; only the destructor may meet one
\* without, and only when some directory lies below a hidden one (fs-watch.cpp: addWatch,
\* handleActivity, dropCbk; fts.cpp: onFile).
THEOREM WatcherStaysUp ==
  ASSUME PlainRoots, DottedRoots, EnoughInstances
  PROVE  Spec => []StaysUp
  <1>1. Init => UpInv
    BY InitUp
  <1>2. UpInv /\ [Next]_vars => UpInv'
    BY NextUp
  <1>3. UpInv => StaysUp
    <2>1. ASSUME UpInv, Plain
          PROVE  pc # "exit" /\ (pc = "crash" => stopWatching /\ \E p \in DOMAIN dirs : BelowHidden(p))
      <3>1. CASE pc = "destroyed"
        BY <3>1
      <3>2. CASE pc # "destroyed"
        BY <2>1, <3>2 DEF UpInv, Up, Alive, NoneBelow
      <3>3. QED
        BY <3>1, <3>2
    <2>2. QED
      BY <2>1 DEF StaysUp
  <1>4. QED
    BY <1>1, <1>2, <1>3, PTL DEF Spec
=============================================================================
