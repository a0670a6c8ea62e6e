----------------------------- MODULE DirTreeOps -----------------------------
(***************************************************************************)
(* class DirTree and class Node (src/dirtree.cpp): a tree of heap nodes,   *)
(* each with a map from names to children, as operators on a tree value.   *)
(*                                                                         *)
(* A key is the string split at its slashes: "a/b" is <<"a", "b">>, "/a"   *)
(* is <<"", "a">>, "a/" is <<"a", "">> and the empty string is <<"">>.     *)
(* A tree maps the address of every live Node to its three members.        *)
(***************************************************************************)
EXTENDS Naturals, Sequences, FiniteSets, SequencesExt, TLC

CONSTANTS DotNames,   \* the names that begin with a dot, "." among them
          NULL

ASSUME DotIsDotName == "." \in DotNames /\ "" \notin DotNames
ASSUME NullIsNoAddress == NULL \notin Nat

Root == 0
NewNode(name) == [key |-> name, data |-> NULL, children |-> <<>>]
NewTree == [node \in {Root} |-> NewNode("root")]

\* A map with key set to value.
Assigned(f, key, value) ==
    [k \in DOMAIN f \cup {key} |-> IF k = key THEN value ELSE f[k]]

\* DirTree::normalize: every key that does not begin with a dot is made to
\* begin with "./".
normalize(key) ==
    CASE key = <<"">>          -> <<".", "">>
      [] key[1] \in DotNames   -> key
      [] key[1] = "" /\ Len(key) > 1 -> <<".">> \o Tail(key)
      [] OTHER                 -> <<".">> \o key

\* The tokens getNextToken returns one after the other: an empty one ends
\* the key, whatever follows.
TokensOf(key) ==
    LET n   == normalize(key)
        cut == {k \in DOMAIN n : n[k] = ""}
    IN  IF cut = {} THEN n ELSE SubSeq(n, 1, Min(cut) - 1)

getChild(tree, node, name) ==
    IF node # NULL /\ name \in DOMAIN tree[node].children
    THEN tree[node].children[name] ELSE NULL

\* The nodes on the way from the root, NULL from where there is none.
Chain(tree, path) ==
    LET node[k \in 0 .. Len(path)] ==
            IF k = 0 THEN Root ELSE getChild(tree, node[k - 1], path[k])
    IN  node

NodeAt(tree, path) == Chain(tree, path)[Len(path)]
-----------------------------------------------------------------------------
(* DirTree::insert *)

\* The address of a new node, the lowest that is free.
Fresh(tree) == Min((0 .. Cardinality(DOMAIN tree)) \ DOMAIN tree)

\* One turn of the loop: go to the child, which is created when missing.
InsertToken(at, name) ==
    LET new == Fresh(at.tree)
    IN  IF getChild(at.tree, at.node, name) # NULL
        THEN [at EXCEPT !.node = getChild(at.tree, at.node, name)]
        ELSE [node |-> new,
              tree |-> Assigned([at.tree EXCEPT ![at.node].children = Assigned(@, name, new)],
                                new, NewNode(name))]

\* The node and the tree after every turn.
InsertTurns(tree, path) ==
    LET at[k \in 0 .. Len(path)] ==
            IF k = 0 THEN [node |-> Root, tree |-> tree] ELSE InsertToken(at[k - 1], path[k])
    IN  at

\* Mutant: the last token always gets a new node, without the old one's children.
insertNewNode(tree, key, data) ==
    LET path == TokensOf(key)
        end  == InsertTurns(tree, path)[Len(path)]
    IN  [end.tree EXCEPT ![end.node] = [NewNode(@.key) EXCEPT !.data = data]]

insert(tree, key, data) ==
    LET path == TokensOf(key)
        end  == InsertTurns(tree, path)[Len(path)]
    IN  [end.tree EXCEPT ![end.node].data = data]
-----------------------------------------------------------------------------
(* DirTree::search and DirTree::hasChildren *)

\* Where the chain of tokens breaks: the first index without a node.
BreakAt(tree, path) ==
    {k \in DOMAIN path : NodeAt(tree, SubSeq(path, 1, k)) = NULL}

\* Mutant: the wildcard is tried wherever the chain breaks.
searchAnyBreak(tree, key, accepted) ==
    LET path   == TokensOf(key)
        broken == BreakAt(tree, path)
        at     == Min(broken)
        star   == getChild(tree, NodeAt(tree, SubSeq(path, 1, at - 1)), "*")
    IN  IF broken = {} THEN tree[NodeAt(tree, path)].data
        ELSE IF star # NULL /\ Len(path) > 1 /\ tree[star].key \in accepted
        THEN tree[star].data
        ELSE NULL

\* The wildcard child is tried only when the chain breaks at the last token.
\* accepted are the tree tokens that the caller's SearchCbk says yes to, whatever
\* the search token; found is still false when the first token is missing.
search(tree, key, accepted) ==
    LET path   == TokensOf(key)
        broken == BreakAt(tree, path)
        prev   == NodeAt(tree, Front(path))
        star   == getChild(tree, prev, "*")
    IN  IF broken = {} THEN tree[NodeAt(tree, path)].data
        ELSE IF Min(broken) = Len(path) /\ star # NULL /\ Len(path) > 1
                /\ tree[star].key \in accepted
        THEN tree[star].data
        ELSE NULL

\* A missing node is dereferenced: the call is undefined, and here "crash".
hasChildren(tree, key) ==
    LET node == NodeAt(tree, TokensOf(key))
    IN  CASE node = NULL                         -> "crash"
          [] DOMAIN tree[node].children = {}     -> "no"
          [] OTHER                               -> "yes"
-----------------------------------------------------------------------------
(* DirTree::drop, dropTree and Node::dropChildren *)

\* A node that dropChildren visits, with the path from the dropped node on that
\* its callback gets, and the visits it makes from there to the children.
Visit(tree, node, suffix) == [node |-> node, suffix |-> Append(suffix, tree[node].key)]

VisitChildren(tree, visit) ==
    LET kids == tree[visit.node].children
    IN  {Visit(tree, kids[name], visit.suffix) : name \in DOMAIN kids}

\* The visits at each depth; a tree is no deeper than it has nodes.
Depths(tree) == 0 .. Cardinality(DOMAIN tree)

VisitsAt(tree, node, suffix) ==
    LET level[d \in Depths(tree)] ==
            IF d = 0 THEN {Visit(tree, node, suffix)}
            ELSE UNION {VisitChildren(tree, visit) : visit \in level[d - 1]}
    IN  level

dropChildren(tree, node, suffix) ==
    UNION {VisitsAt(tree, node, suffix)[d] : d \in Depths(tree)}

\* Mutant: the callback path keeps the last name of the key.
CbkPathDoubled(key, suffix) == normalize(key) \o suffix

\* dropChildCbk: the dropped key up to its last slash, and the suffix.
CbkPath(key, suffix) ==
    LET n == normalize(key) IN (IF Len(n) > 1 THEN Front(n) ELSE n) \o suffix

\* Mutant: the parent keeps its pointer to the dropped child.
dropNoUnlink(tree, key) ==
    LET node == NodeAt(tree, TokensOf(key))
        gone == IF node = NULL THEN {} ELSE dropChildren(tree, node, <<>>)
    IN  [tree  |-> [m \in DOMAIN tree \ {g.node : g \in gone} |-> tree[m]],
         calls |-> {[path |-> CbkPath(key, g.suffix), data |-> tree[g.node].data] :
                       g \in gone}]

\* The new tree, and the calls of the DropCbk.
drop(tree, key) ==
    LET path   == TokensOf(key)
        node   == NodeAt(tree, path)
        parent == NodeAt(tree, Front(path))
        gone   == IF node = NULL THEN {} ELSE dropChildren(tree, node, <<>>)
        kept   == DOMAIN tree \ {g.node : g \in gone}
        name   == tree[node].key
    IN  IF node = NULL THEN [tree |-> tree, calls |-> {}]
        ELSE [tree |-> [m \in kept |->
                          IF m = parent
                          THEN [tree[m] EXCEPT !.children =
                                  [c \in DOMAIN @ \ {name} |-> @[c]]]
                          ELSE tree[m]],
              calls |-> {[path |-> CbkPath(key, g.suffix), data |-> tree[g.node].data] :
                            g \in gone}]
=============================================================================
