------------------------------ MODULE FsWatch ------------------------------
(***************************************************************************)
(* class FsWatch (src/fs-watch.cpp) with the walk of class Fts             *)
(* (src/fts.cpp): a file system, the kernel's inotify instances and epoll  *)
(* set, and the watcher that follows them.                                 *)
(*                                                                         *)
(* Every watched directory has an inotify instance of its own.  The thread *)
(* of the watcher waits in epoll_wait for a batch of ready instances and   *)
(* reads the events of one after the other, while the file system changes  *)
(* at any time.  Before start() and in the destructor the same members are *)
(* used by the client's thread, so one pc serves both.                     *)
(*                                                                         *)
(* A path in the file system is the sequence of names below the root; a    *)
(* string in the code is a key of DirTreeOps.  Renames, of files within    *)
(* the tree or of directories, and the overflow of an event queue are left *)
(* out; a file moved in from outside (IN_MOVED_TO) is handled exactly like *)
(* one that is written and closed.                                         *)
(***************************************************************************)
EXTENDS DirTreeOps, FiniteSetsExt

CONSTANTS Roots,         \* the strings the constructor may be given, as keys
          DirPaths,      \* the paths of directories below the root
          FilePaths,     \* the paths of files
          Wanted,        \* the file names that pass the extension filter
          MayTrack,      \* whether the client may set the empty-directory callback
          MaxInstances,  \* fs.inotify.max_user_instances; an instance's fd is 1 ..
          MAX_EVENTS,    \* how many instances a call of epoll_wait returns (10 in the code)
          MaxOps         \* how often the file system changes

ASSUME SomeInstances == MaxInstances \in Nat \ {0} /\ MAX_EVENTS \in Nat \ {0}
ASSUME NamesAreStrings ==
    /\ Roots \cup DirPaths \cup FilePaths \subseteq Seq(STRING) \ {<<>>}
    /\ \A p \in DirPaths \cup FilePaths : \A i \in DOMAIN p : p[i] # ""
    /\ IsFiniteSet(DirPaths) /\ IsFiniteSet(FilePaths)
ASSUME NullIsNoTreeNode == NULL \notin [fd : Nat, path : Seq(STRING)]

VARIABLES
    dirs,          \* [path -> inode]: the directories, <<>> among them
    files,         \* the set of file paths
    ops,           \* the changes so far; an inode is <<path, ops at its birth>>
    inst,          \* [fd -> [on, queue]]: the open inotify instances, each with
                   \* the inode it watches (or NULL) and its unread events
    epoll,         \* the fds registered with epoll
    root,          \* FsWatch::root
    onEmptyDir,    \* FsWatch::onEmptyDir # NULL
    map,           \* FsWatch::map, from fds to directories
    set,           \* FsWatch::set, the directories watched
    tree,          \* FsWatch::tree, its data TreeNodes or NULL
    stopWatching,  \* FsWatch::stopWatching
    pc,            \* where the thread that uses the members is
    batch,         \* events[n ..]: what is left of epoll_wait's result
    buf,           \* events read from Head(batch) and not yet handled
    walk,          \* what fts_read is going to return
    removed,       \* ghost: a directory has been removed
    lies,          \* ghost: paths reported to onNewFile that were not the file's
    seen           \* ghost: the files seen written and not seen deleted since,
                   \* while onEmptyDir is set

world   == <<dirs, files, ops>>
kernel  == <<inst, epoll>>
watched == <<map, set, tree>>
control == <<batch, buf, walk>>
ghosts  == <<removed, lies, seen>>
vars    == <<world, kernel, root, onEmptyDir, watched, stopWatching, pc, control, ghosts>>

Fds == 1 .. MaxInstances

\* A map into which a key is inserted; insert keeps an entry that is there.
Inserted(f, key, value) ==
    [k \in DOMAIN f \cup {key} |-> IF k \in DOMAIN f THEN f[k] ELSE value]

\* The string that names a path for the kernel, and the path a string names.
TrueKey(path) == (IF Last(root) = "" THEN Front(root) ELSE root) \o path
Lookup(key) ==
    {p \in DOMAIN dirs : TrueKey(p) = key \/ (p = <<>> /\ key = root)}

Init ==
    /\ root \in Roots
    /\ \E old \in SUBSET DirPaths :
          /\ \A p \in old : Front(p) \in old \cup {<<>>}
          /\ dirs = [p \in old \cup {<<>>} |-> <<p, 0>>]
    /\ files \in SUBSET {f \in FilePaths : Front(f) \in DOMAIN dirs}
    /\ ops = 0
    /\ inst = <<>> /\ epoll = {}
    /\ onEmptyDir = FALSE
    /\ map = <<>> /\ set = {} /\ tree = NewTree
    /\ stopWatching = FALSE
    /\ pc = "new"
    /\ batch = <<>> /\ buf = <<>> /\ walk = <<>>
    /\ removed = FALSE /\ lies = {} /\ seen = {}
-----------------------------------------------------------------------------
(* The file system.  A change to a directory is queued at the instances     *)
(* that watch it, one event of the kinds that handleActivity looks at.      *)

Event(path, kind, name) == [dir |-> path, kind |-> kind, name |-> name]

Notify(path, kind, name) ==
    [fd \in DOMAIN inst |->
        IF inst[fd].on = dirs[path]
        THEN [inst[fd] EXCEPT !.queue = Append(@, Event(path, kind, name))]
        ELSE inst[fd]]

Change == ops < MaxOps /\ ops' = ops + 1 /\ pc \notin {"exit", "crash", "destroyed"}

Mkdir(path) ==
    /\ Change
    /\ path \notin DOMAIN dirs /\ Front(path) \in DOMAIN dirs
    /\ dirs' = Inserted(dirs, path, <<path, ops'>>)
    /\ inst' = Notify(Front(path), "mkdir", Last(path))
    /\ UNCHANGED <<files, epoll, root, onEmptyDir, watched, stopWatching, pc, control, ghosts>>

\* The parent's watchers get IN_DELETE, the directory's own IN_DELETE_SELF and
\* IN_IGNORED: their watch is gone.
Rmdir(path) ==
    /\ Change
    /\ path \in DOMAIN dirs \ {<<>>}
    /\ \A p \in DOMAIN dirs \cup files : p = <<>> \/ Front(p) # path
    /\ dirs' = [p \in DOMAIN dirs \ {path} |-> dirs[p]]
    /\ removed' = TRUE
    /\ LET told == Notify(Front(path), "rmdir", Last(path))
       IN  inst' = [fd \in DOMAIN told |->
                      IF told[fd].on = dirs[path]
                      THEN [on    |-> NULL,
                            queue |-> Append(told[fd].queue, Event(path, "self", ""))]
                      ELSE told[fd]]
    /\ UNCHANGED <<files, epoll, root, onEmptyDir, watched, stopWatching, pc, control, lies, seen>>

WriteFile(path) ==
    /\ Change
    /\ Front(path) \in DOMAIN dirs
    /\ files' = files \cup {path}
    /\ inst' = Notify(Front(path), "write", Last(path))
    /\ UNCHANGED <<dirs, epoll, root, onEmptyDir, watched, stopWatching, pc, control, ghosts>>

Unlink(path) ==
    /\ Change
    /\ path \in files
    /\ files' = files \ {path}
    /\ inst' = Notify(Front(path), "unlink", Last(path))
    /\ UNCHANGED <<dirs, epoll, root, onEmptyDir, watched, stopWatching, pc, control, ghosts>>
-----------------------------------------------------------------------------
(* Watching and unwatching a directory *)

\* addWatch: a directory in the set is left alone.  Otherwise it gets a new
\* instance, on the lowest free descriptor; inotify_add_watch fails when the
\* directory is gone, and is then ignored.  map.insert keeps an old entry.
addWatch(dir, next) ==
    \/ /\ dir \in set
       /\ pc' = next
       /\ UNCHANGED <<kernel, watched>>
    \/ /\ dir \notin set
       /\ Fds \subseteq DOMAIN inst
       /\ pc' = "exit"
       /\ UNCHANGED <<kernel, watched>>
    \/ /\ dir \notin set
       /\ ~ Fds \subseteq DOMAIN inst
       /\ LET fd    == Min(Fds \ DOMAIN inst)
              inode == IF Lookup(dir) = {} THEN NULL
                       ELSE dirs[CHOOSE p \in Lookup(dir) : TRUE]
          IN  /\ inst' = Inserted(inst, fd, [on |-> inode, queue |-> <<>>])
              /\ epoll' = epoll \cup {fd}
              /\ map' = Inserted(map, fd, dir)
              /\ tree' = insert(tree, dir, [fd |-> fd, path |-> dir])
       /\ set' = set \cup {dir}
       /\ pc' = next

\* A TreeNode that has no watch.
NoWatch(path) == [fd |-> 0, path |-> path]

\* Mutant: the descriptors stay open.
removeWatchNoClose(dir, next) ==
    LET dropped == drop(tree, dir)
        fds     == {c.data.fd : c \in dropped.calls}
    IN  /\ \A c \in dropped.calls : c.data # NULL
        /\ set' = set \ {c.path : c \in dropped.calls}
        /\ epoll' = epoll \ fds
        /\ inst' = inst
        /\ tree' = dropped.tree
        /\ pc' = next
        /\ UNCHANGED map

\* removeWatch: DirTree::drop calls dropCbk for every node, and dropCbk
\* dereferences the data.  The map keeps the descriptors that are closed.
removeWatch(dir, next) ==
    LET dropped == drop(tree, dir)
        fds     == {c.data.fd : c \in dropped.calls}
    IN  \/ /\ \E c \in dropped.calls : c.data = NULL
           /\ pc' = "crash"
           /\ UNCHANGED <<kernel, watched>>
        \/ /\ \A c \in dropped.calls : c.data # NULL
           /\ set' = set \ {c.path : c \in dropped.calls}
           /\ epoll' = epoll \ fds
           /\ inst' = [fd \in DOMAIN inst \ fds |-> inst[fd]]
           /\ tree' = dropped.tree
           /\ pc' = next
           /\ UNCHANGED map
-----------------------------------------------------------------------------
(* Fts::walk.  fts_open looks whether the root of the walk is there;         *)
(* fts_read returns the first entry, calls back, and lists a directory only *)
(* when it is asked for the entry after it.                                 *)

Entry(kind, key) == [kind |-> kind, key |-> key]

\* A name that is not there is FTS_NS, which has the bit of FTS_F set.
OpenWalk ==
    /\ Head(walk).kind = "open"
    /\ walk' = <<Entry(IF Lookup(Head(walk).key) = {} THEN "file" ELSE "dir",
                       Head(walk).key)>>
    /\ UNCHANGED <<kernel, watched, pc>>

\* onFile: hidden directories and files are not called back for.
VisitDir ==
    /\ Head(walk).kind = "dir"
    /\ walk' = <<Entry("list", Head(walk).key)>> \o Tail(walk)
    /\ IF Last(Head(walk).key) \in DotNames
       THEN UNCHANGED <<kernel, watched, pc>>
       ELSE addWatch(Head(walk).key, pc)

VisitFile ==
    /\ Head(walk).kind = "file"
    /\ walk' = Tail(walk)
    /\ tree' = IF onEmptyDir /\ Last(Head(walk).key) \notin DotNames
               THEN insert(tree, Head(walk).key, NoWatch(Head(walk).key)) ELSE tree
    /\ UNCHANGED <<kernel, map, set, pc>>

\* fts_build: the entries of a directory, in the order readdir happens to have.
ListDir ==
    /\ Head(walk).kind = "list"
    /\ LET key  == Head(walk).key
           here == IF Last(key) = "" THEN Front(key) ELSE key
           in(paths) == {p \in paths \ {<<>>} : Lookup(key) = {Front(p)}}
           entries == {Entry("dir", Append(here, Last(p))) : p \in in(DOMAIN dirs)}
                      \cup {Entry("file", Append(here, Last(p))) : p \in in(files)}
       IN  \E order \in SetToSeqs(entries) : walk' = order \o Tail(walk)
    /\ UNCHANGED <<kernel, watched, pc>>

Walk ==
    /\ pc \in {"initwalk", "handle"} /\ walk # <<>>
    /\ OpenWalk \/ VisitDir \/ VisitFile \/ ListDir
    /\ UNCHANGED <<world, root, onEmptyDir, stopWatching, batch, buf, ghosts>>
-----------------------------------------------------------------------------
(* The client's thread: init, start and the destructor *)

FsWatchInit ==
    /\ pc = "new"
    /\ addWatch(root, "initwalk")
    /\ walk' = <<Entry("open", root)>>
    /\ UNCHANGED <<world, root, onEmptyDir, stopWatching, batch, buf, ghosts>>

InitDone ==
    /\ pc = "initwalk" /\ walk = <<>>
    /\ pc' = "ready"
    /\ UNCHANGED <<world, kernel, root, onEmptyDir, watched, stopWatching, control, ghosts>>

OnEmptyDirCbk ==
    /\ MayTrack /\ ~onEmptyDir
    /\ pc \in {"new", "ready"}
    /\ onEmptyDir' = TRUE
    /\ UNCHANGED <<world, kernel, root, watched, stopWatching, pc, control, ghosts>>

Start ==
    /\ pc = "ready"
    /\ pc' = "check"
    /\ UNCHANGED <<world, kernel, root, onEmptyDir, watched, stopWatching, control, ghosts>>

\* ~FsWatch raises the flag and, in the destructor of the pool, waits until the
\* routine has returned; RemoveRoot is the rest of it.
Destroy ==
    /\ pc \notin {"new", "initwalk", "stopped", "exit", "crash", "destroyed"}
    /\ ~stopWatching
    /\ stopWatching' = TRUE
    /\ pc' = IF pc = "ready" THEN "stopped" ELSE pc
    /\ UNCHANGED <<world, kernel, root, onEmptyDir, watched, control, ghosts>>

RemoveRoot ==
    /\ pc = "stopped"
    /\ removeWatch(root, "destroyed")
    /\ UNCHANGED <<world, root, onEmptyDir, stopWatching, control, ghosts>>
-----------------------------------------------------------------------------
(* epollThreadRoutine and handleActivity *)

\* Mutant: the loop does not look at the flag.
LoopCheckNever ==
    /\ pc = "check"
    /\ pc' = "epoll"
    /\ UNCHANGED <<world, kernel, root, onEmptyDir, watched, stopWatching, control, ghosts>>

LoopCheck ==
    /\ pc = "check"
    /\ pc' = IF stopWatching THEN "stopped" ELSE "epoll"
    /\ UNCHANGED <<world, kernel, root, onEmptyDir, watched, stopWatching, control, ghosts>>

\* What is ready, as much as the array holds, in any order; nothing when the second
\* is over.
EpollWait ==
    /\ pc = "epoll"
    /\ LET ready == {fd \in epoll : inst[fd].queue # <<>>}
       IN  \E some \in SUBSET ready :
              /\ Cardinality(some) = Min({Cardinality(ready), MAX_EVENTS})
              /\ batch' \in SetToSeqs(some)
    /\ pc' = "next"
    /\ UNCHANGED <<world, kernel, root, onEmptyDir, watched, stopWatching, buf, walk, ghosts>>

NextFd ==
    /\ pc = "next"
    /\ IF batch = <<>> THEN pc' = "check" /\ UNCHANGED batch
       ELSE IF Head(batch) \in DOMAIN map THEN pc' = "read" /\ UNCHANGED batch
       ELSE batch' = Tail(batch) /\ UNCHANGED pc
    /\ UNCHANGED <<world, kernel, root, onEmptyDir, watched, stopWatching, buf, walk, ghosts>>

\* Mutant: EAGAIN is taken for an error.
ReadFailsEmpty ==
    /\ pc = "read"
    /\ LET fd == Head(batch)
       IN  \/ /\ fd \notin DOMAIN inst \/ inst[fd].queue = <<>>
              /\ pc' = "exit"
              /\ UNCHANGED <<inst, batch, buf>>
           \/ /\ fd \in DOMAIN inst /\ inst[fd].queue # <<>>
              /\ pc' = "handle"
              /\ buf' = inst[fd].queue
              /\ inst' = [inst EXCEPT ![fd].queue = <<>>]
              /\ UNCHANGED batch
    /\ UNCHANGED <<world, epoll, root, onEmptyDir, watched, stopWatching, walk, ghosts>>

\* read(): a closed descriptor is EBADF and ends the process, an empty queue
\* is EAGAIN and ends the loop.
ReadEvents ==
    /\ pc = "read"
    /\ LET fd == Head(batch)
       IN  \/ /\ fd \notin DOMAIN inst
              /\ pc' = "exit"
              /\ UNCHANGED <<inst, batch, buf>>
           \/ /\ fd \in DOMAIN inst /\ inst[fd].queue = <<>>
              /\ pc' = "next"
              /\ batch' = Tail(batch)
              /\ UNCHANGED <<inst, buf>>
           \/ /\ fd \in DOMAIN inst /\ inst[fd].queue # <<>>
              /\ pc' = "handle"
              /\ buf' = inst[fd].queue
              /\ inst' = [inst EXCEPT ![fd].queue = <<>>]
              /\ UNCHANGED batch
    /\ UNCHANGED <<world, epoll, root, onEmptyDir, watched, stopWatching, walk, ghosts>>

\* Mutant: names are taken to be below the root.
getRootPath(fd, name) == Append(root, name)

\* The slash is left out whenever the root ends in one, below the root as well.
getFullPath(fd, name) ==
    IF Last(root) # "" THEN Append(map[fd], name)
    ELSE Append(Front(map[fd]), Last(map[fd]) \o name)

\* The parent's node is dereferenced when it is not there.
checkEmptyDir(t, key) ==
    IF onEmptyDir /\ hasChildren(t, Front(key)) = "crash" THEN "crash" ELSE "handle"

\* Mutant: what is already in the new directory is not looked for.
createNoWalk(path) ==
    /\ addWatch(path, "handle")
    /\ UNCHANGED <<walk, ghosts>>

handleDirectoryCreate(path) ==
    /\ addWatch(path, "handle")
    /\ walk' = <<Entry("open", path)>>
    /\ UNCHANGED ghosts

\* addToTree is given an empty path, which is the node ".", and no TreeNode.
handleFileModify(path, event) ==
    /\ lies' = IF event.name \in Wanted /\ path # TrueKey(Append(event.dir, event.name))
               THEN lies \cup {path} ELSE lies
    /\ seen' = IF onEmptyDir THEN seen \cup {Append(event.dir, event.name)} ELSE seen
    /\ tree' = IF onEmptyDir THEN insert(tree, <<"">>, NULL) ELSE tree
    /\ UNCHANGED <<kernel, map, set, walk, pc, removed>>

handleFileDelete(path, event) ==
    /\ tree' = IF onEmptyDir THEN drop(tree, path).tree ELSE tree
    /\ pc' = checkEmptyDir(tree', path)
    /\ seen' = seen \ {Append(event.dir, event.name)}
    /\ UNCHANGED <<kernel, map, set, walk, removed, lies>>

handleDirectoryDelete(path) ==
    /\ removeWatch(path, checkEmptyDir(drop(tree, path).tree, path))
    /\ UNCHANGED <<walk, ghosts>>

handleIgnored == UNCHANGED <<kernel, watched, walk, pc, ghosts>>

HandleEvent ==
    /\ pc = "handle" /\ walk = <<>> /\ buf # <<>>
    /\ LET event == Head(buf)
           path  == getFullPath(Head(batch), event.name)
       IN  \/ event.kind = "mkdir"  /\ handleDirectoryCreate(path)
           \/ event.kind = "write"  /\ handleFileModify(path, event)
           \/ event.kind = "unlink" /\ handleFileDelete(path, event)
           \/ event.kind = "rmdir"  /\ handleDirectoryDelete(path)
           \/ event.kind = "self"   /\ handleIgnored
    /\ buf' = Tail(buf)
    /\ UNCHANGED <<world, root, onEmptyDir, stopWatching, batch>>

BufferDone ==
    /\ pc = "handle" /\ walk = <<>> /\ buf = <<>>
    /\ pc' = "read"
    /\ UNCHANGED <<world, kernel, root, onEmptyDir, watched, stopWatching, control, ghosts>>

Watcher ==
    \/ LoopCheck \/ EpollWait \/ NextFd \/ ReadEvents
    \/ HandleEvent \/ BufferDone \/ Walk

World ==
    \/ \E p \in DirPaths : Mkdir(p) \/ Rmdir(p)
    \/ \E f \in FilePaths : WriteFile(f) \/ Unlink(f)

Next ==
    \/ World
    \/ Watcher
    \/ FsWatchInit \/ InitDone \/ OnEmptyDirCbk \/ Start \/ Destroy \/ RemoveRoot

\* The threads run: the watcher's routine, and the client's thread inside init
\* and inside the destructor.  Nobody has to call start or the destructor.
\* Inside the routine some step can always be taken, so that this is the weak
\* fairness of Watcher with its ENABLED written out.
InRoutine == \/ pc \in {"check", "epoll", "next", "read", "handle"}
             \/ pc = "initwalk" /\ walk # <<>>

Spec ==
    /\ Init /\ [][Next]_vars
    /\ []<>~InRoutine \/ []<><<Watcher>>_vars
    /\ WF_vars(InitDone)
    /\ []<>(pc # "stopped") \/ []<><<RemoveRoot>>_vars
-----------------------------------------------------------------------------
\* The watcher has seen everything: it is about to wait and nothing is unread.
Quiet == pc = "epoll" /\ \A fd \in DOMAIN inst : inst[fd].queue = <<>>

\* No directory has been removed and children are not tracked.  What becomes of
\* the properties after that is in README.md.
Plain == ~removed /\ ~onEmptyDir

Watches(inode) == {fd \in epoll : inst[fd].on = inode}

\* A directory that is hidden, or lies below one that is.
Hidden(path) == \E i \in DOMAIN path : path[i] \in DotNames
BelowHidden(path) == path # <<>> /\ Hidden(Front(path))

\* The races of a directory's creation with its watch and its walk lose nothing
\* and double nothing: whenever the watcher has caught up, every directory of the
\* tree is watched by exactly one instance, though the event and the walk may both
\* find it and more may be ready than one epoll_wait returns, and its events will be
\* reported under the directory's own path.  Of hidden directories the walk watches
\* what is in them only.
AllWatched ==
    Quiet /\ Plain => \A p \in {q \in DOMAIN dirs : ~Hidden(q)} :
        \E fd \in epoll : /\ Watches(dirs[p]) = {fd}
                          /\ map[fd] = (IF p = <<>> THEN root ELSE TrueKey(p))

\* A file is reported to onNewFile under its own path (getFullPath).
PathsTrue == ~removed => lies = {}

\* The watcher neither ends the process (addWatch out of instances, read of a
\* closed descriptor) nor dereferences a null pointer (dropCbk, hasChildren), but in
\* one place: the destructor may meet the node of a hidden directory, which addWatch
\* made on the way to a directory below it and gave no data.
StaysUp ==
    Plain => /\ pc # "exit"
             /\ pc = "crash" => stopWatching /\ \E p \in DOMAIN dirs : BelowHidden(p)

\* Epoll never holds a descriptor that is closed or that epollThreadRoutine
\* would not find in the map.
EpollOpen == epoll \subseteq DOMAIN inst \cap DOMAIN map

\* A directory in the set has its node in the tree: whatever addWatch refuses to
\* watch again can still be dropped.
SetInTree == pc # "destroyed" => \A d \in set : NodeAt(tree, TokensOf(d)) # NULL

\* Every open descriptor is the fd of one node of the tree, where the destructor
\* will find it; none is left when it has returned.  With the empty-directory
\* callback this is not so: see README.md.
FdsOwned ==
    ~onEmptyDir =>
        /\ \A fd \in DOMAIN inst :
              Cardinality({n \in DOMAIN tree : tree[n].data # NULL /\ tree[n].data.fd = fd}) = 1
        /\ pc = "destroyed" => DOMAIN inst = {}

\* The five books that addWatch and dropCbk keep (epoll's set, the open instances,
\* the map, the set, the tree) agree, however directories come and go.
BooksAgree == EpollOpen /\ SetInTree /\ FdsOwned

\* With the empty-directory callback set, every child is tracked: a file that
\* the watcher has seen written, and not deleted, has a node in the tree.
ChildrenTracked ==
    pc # "destroyed" => \A f \in seen : NodeAt(tree, TokensOf(TrueKey(f))) # NULL

\* The destructor returns once the file system comes to rest, whatever the
\* watcher is in the middle of, unless the process ends.
DestructorReturns == stopWatching ~> pc \in {"destroyed", "exit", "crash"}
=============================================================================
