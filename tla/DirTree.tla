------------------------------ MODULE DirTree ------------------------------
(***************************************************************************)
(* A DirTree in use: insert and drop with any key, in any order.  The      *)
(* operations are those of DirTreeOps.tla; DirTree has no lock, and its    *)
(* users call it from one thread at a time.                                *)
(***************************************************************************)
EXTENDS DirTreeOps

CONSTANTS Keys,    \* the keys of insert and drop, as sequences of names
          Probes,  \* the keys whose search and drop are looked at in each state
          Data     \* the data pointers stored

VARIABLE heap      \* the live nodes

TreeInit == heap = NewTree

Insert(key, data) == heap' = insert(heap, key, data)

Drop(key) == heap' = drop(heap, key).tree

TreeNext == \E key \in Keys : Drop(key) \/ \E data \in Data : Insert(key, data)

TreeSpec == TreeInit /\ [][TreeNext]_heap
-----------------------------------------------------------------------------
\* The child pointers that lead to node n, as <<parent, name>>.
PointersTo(n) ==
    UNION {{<<m, c>> : c \in {d \in DOMAIN heap[m].children : heap[m].children[d] = n}} :
              m \in DOMAIN heap}

\* The heap is a tree, nothing leaks and nothing dangles: every live node but
\* the root is the child of exactly one live node, under its own key, and every
\* child pointer leads to a live node.
TreeShape ==
    /\ \A n \in DOMAIN heap \ {Root} :
          \E m \in DOMAIN heap : PointersTo(n) = {<<m, heap[n].key>>}
    /\ \A m \in DOMAIN heap : \A c \in DOMAIN heap[m].children :
          heap[m].children[c] \in DOMAIN heap \ {Root}

\* All the paths of the tree, read off the children maps.
PathsAt ==
    LET paths[d \in Depths(heap)] ==
            IF d = 0 THEN {<<>>}
            ELSE UNION {{Append(p, c) : c \in DOMAIN heap[NodeAt(heap, p)].children} :
                           p \in paths[d - 1]}
    IN  paths
AllPaths == UNION {PathsAt[d] : d \in Depths(heap)}
DataAt(path) == heap[NodeAt(heap, path)].data

\* search() agrees with its meaning: the data stored at the path or, if there
\* is no such path, at the wildcard beside it.
Meaning(key) ==
    LET path == TokensOf(key)
        star == Append(Front(path), "*")
    IN  IF path \in AllPaths THEN DataAt(path)
        ELSE IF star \in AllPaths /\ Len(path) > 1 THEN DataAt(star) ELSE NULL

SearchMeaning ==
    \A key \in Probes : search(heap, key, {"*"}) = Meaning(key)

\* drop() calls the callback once for every path it removes, with the data
\* stored there.  The path it passes is the true one when the key has several
\* names and no empty one; for a lone "." or a trailing slash it is not.
DropMeaning ==
    \A key \in Probes :
        LET path  == TokensOf(key)
            below == {p \in AllPaths : IsPrefix(path, p)}
            calls == drop(heap, key).calls
        IN  /\ Cardinality(calls) = Cardinality(below)
            /\ {c.data : c \in calls} = {DataAt(p) : p \in below}
            /\ path = normalize(key) /\ Len(path) > 1 =>
                  calls = {[path |-> p, data |-> DataAt(p)] : p \in below}

\* A key of any form names the same node in search() and in drop(), and it is the
\* one that insert() stored its data at.
KeyMeaning == SearchMeaning /\ DropMeaning

\* The tree implements the map: its paths and data as read off the nodes.
PM == INSTANCE PathMap
        WITH Paths   <- {TokensOf(key) : key \in Keys},
             Values  <- Data,
             Nothing <- NULL,
             content <- [p \in AllPaths |-> DataAt(p)]

ImplementsPathMap == PM!Spec
=============================================================================
