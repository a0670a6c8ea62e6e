------------------------------ MODULE PathMap ------------------------------
(***************************************************************************)
(* What a directory tree promises: a map from paths to data in which every *)
(* prefix of a path is a path too.  Putting sets the data of one path,     *)
(* removing takes a path away with everything below it.  DirTree.tla       *)
(* implements this.                                                        *)
(***************************************************************************)
EXTENDS Naturals, Sequences

CONSTANTS Paths, Values, Nothing

VARIABLE content   \* content[p]: what is stored at path p, or Nothing

IsPrefixOf(p, q) == Len(p) <= Len(q) /\ SubSeq(q, 1, Len(p)) = p

Init == content = [p \in {<<>>} |-> Nothing]

Put(path, value) ==
    content' = [p \in DOMAIN content \cup {SubSeq(path, 1, k) : k \in 0 .. Len(path)} |->
                   IF p = path THEN value
                   ELSE IF p \in DOMAIN content THEN content[p] ELSE Nothing]

Remove(path) ==
    content' = [p \in {q \in DOMAIN content : ~IsPrefixOf(path, q)} |-> content[p]]

Next == \E path \in Paths : Remove(path) \/ \E value \in Values : Put(path, value)

Spec == Init /\ [][Next]_content
=============================================================================
