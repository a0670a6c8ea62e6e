--------------------------- MODULE DirTreeProofs ---------------------------
(***************************************************************************)
(* What insert(), search() and drop() do to any tree and any key, and from *)
(* it the theorems about DirTree.tla and Router.tla, for every set of keys *)
(* and every sequence of calls.                                            *)
(*                                                                         *)
(* The invariant is IsTree(t, at): at gives every node the path of names   *)
(* from the root to it.  A node is the child of its parent under the last  *)
(* name of its path, and no two nodes have one path.  Under it, insert()   *)
(* adds the nodes of the missing prefixes of its path (PathAdded), drop()  *)
(* takes away the nodes at and below its path (PathRemoved), and Chain,    *)
(* the descent of search(), ends at the node whose path is the key's.      *)
(***************************************************************************)
EXTENDS DirTree, Router, TLAPS, FiniteSetTheorems, SequenceTheorems, WellFoundedInduction

Names  == STRING \cup {"", ".", "*"}

LEMMA ParentAndName ==
  ASSUME NEW S, NEW p \in Seq(S), p # <<>>
  PROVE  /\ Front(p) \in Seq(S) /\ Last(p) \in S
         /\ Len(Front(p)) = Len(p) - 1
         /\ p = Append(Front(p), Last(p))
  <1>1. PICK s \in Seq(S), e \in S : p = Append(s, e)
    BY SequenceEmptyOrAppend
  <1>2. /\ Len(p) = Len(s) + 1 /\ p[Len(p)] = e /\ Len(s) \in Nat
        /\ \A i \in 1 .. Len(s) : p[i] = s[i] /\ s[i] \in S
    BY <1>1, AppendProperties, LenProperties
  <1>3. /\ Front(p) \in Seq(S) /\ Len(Front(p)) = Len(s)
        /\ \A i \in 1 .. Len(s) : Front(p)[i] = s[i]
    <2>1. Front(p) = SubSeq(p, 1, Len(s))
      BY <1>2 DEF Front
    <2>2. /\ Front(p) \in Seq(S)
          /\ Len(Front(p)) = IF 1 <= Len(s) THEN Len(s) - 1 + 1 ELSE 0
          /\ \A i \in 1 .. Len(s) - 1 + 1 : Front(p)[i] = p[1 + i - 1]
      BY <1>2, <2>1, SubSeqProperties
    <2>3. QED
      BY <1>2, <2>2
  <1>4. Front(p) = s
    BY <1>2, <1>3, SeqEqual
  <1>5. QED
    BY <1>1, <1>2, <1>4 DEF Last

LEMMA ParentOfChild ==
  ASSUME NEW S, NEW p \in Seq(S), NEW name \in S
  PROVE  /\ Append(p, name) \in Seq(S) \ {<<>>}
         /\ Front(Append(p, name)) = p /\ Last(Append(p, name)) = name
  <1>1. Append(p, name) \in Seq(S) /\ Append(p, name) # <<>>
    BY AppendProperties
  <1>2. /\ Front(Append(p, name)) \in Seq(S) /\ Last(Append(p, name)) \in S
        /\ Append(p, name) = Append(Front(Append(p, name)), Last(Append(p, name)))
    BY <1>1, ParentAndName
  <1>3. QED
    BY <1>1, <1>2, AppendInjective

LEMMA LeastNumber ==
  ASSUME NEW T, T \subseteq Nat, T # {}
  PROVE  \E n \in T : \A m \in T : n <= m
  <1>1. PICK n \in T : \A m \in T : ~ <<m, n>> \in OpToRel(<, Nat)
    BY NatLessThanWellFounded, WFMin
  <1>2. ASSUME NEW m \in T
        PROVE  n <= m
    <2>1. <<m, n>> \in Nat \X Nat /\ ~ <<m, n>> \in OpToRel(<, Nat)
      BY <1>1
    <2>2. ~(m < n)
      BY <2>1 DEF OpToRel
    <2>3. QED
      BY <2>2
  <1>3. QED
    BY <1>2

\* Two paths below a root have two keys.
LEMMA KeyInjective ==
  ASSUME NEW S, NEW r \in Seq(S), NEW p \in Seq(S), NEW q \in Seq(S), r \o p = r \o q
  PROVE  p = q
  <1>1. /\ Len(r) \in Nat /\ Len(p) \in Nat /\ Len(q) \in Nat
        /\ Len(r) + Len(p) = Len(r) + Len(q)
    BY LenProperties, ConcatProperties
  <1>2. ASSUME NEW i \in 1 .. Len(p)
        PROVE  p[i] = q[i]
    <2>1. /\ Len(r) + i \in 1 .. Len(r) + Len(p) /\ ~(Len(r) + i <= Len(r))
          /\ Len(r) + i - Len(r) = i
      BY <1>1
    <2>2. (r \o p)[Len(r) + i] = p[i] /\ (r \o q)[Len(r) + i] = q[i]
      BY <1>1, <2>1, ConcatProperties
    <2>3. QED
      BY <2>2
  <1>3. QED
    BY <1>1, <1>2, SeqEqual
-----------------------------------------------------------------------------
(* The loops over a key, as recursive functions *)

\* The chain of nodes is what its recursion says.
LEMMA ChainDef ==
  ASSUME NEW t, NEW S, NEW p \in Seq(S)
  PROVE  \A k \in 0 .. Len(p) :
            Chain(t, p)[k] = IF k = 0 THEN Root ELSE getChild(t, Chain(t, p)[k - 1], p[k])
  <1> DEFINE Good(n, f) == f = [k \in 0 .. n |->
                                  IF k = 0 THEN Root ELSE getChild(t, f[k - 1], p[k])]
             Bad == {n \in Nat : ~ \E f : Good(n, f)}
  <1>1. Len(p) \in Nat
    BY LenProperties
  <1>2. Bad = {}
    <2> SUFFICES ASSUME Bad # {} PROVE FALSE
      OBVIOUS
    <2>1. PICK n \in Bad : \A m \in Bad : n <= m
      BY LeastNumber
    <2>2. CASE n = 0
      <3>1. Good(0, [k \in 0 .. 0 |-> Root])
        OBVIOUS
      <3>2. QED
        BY <2>2, <3>1
    <2>3. CASE n # 0
      <3>0. n \in Nat \ {0}
        BY <2>1, <2>3
      <3>1. n - 1 \in Nat /\ n - 1 \notin Bad
        <4>1. n - 1 \in Nat /\ ~(n <= n - 1)
          BY <3>0
        <4>2. QED
          BY <2>1, <4>1
      <3>2. PICK f : Good(n - 1, f)
        BY <3>1
      <3> DEFINE g == [k \in 0 .. n |-> IF k = n THEN getChild(t, f[n - 1], p[n]) ELSE f[k]]
      <3>3. ASSUME NEW k \in 0 .. n
            PROVE  g[k] = IF k = 0 THEN Root ELSE getChild(t, g[k - 1], p[k])
        <4>1. CASE k = n
          BY <2>3, <3>1, <4>1
        <4>2. CASE k # n
          <5>1. k \in 0 .. n - 1 /\ (k # 0 => k - 1 \in 0 .. n /\ k - 1 # n)
            BY <3>1, <4>2
          <5>2. f[k] = IF k = 0 THEN Root ELSE getChild(t, f[k - 1], p[k])
            BY <3>2, <5>1
          <5>3. QED
            BY <4>2, <5>1, <5>2
        <4>3. QED
          BY <4>1, <4>2
      <3>4. Good(n, g)
        BY <3>3
      <3>5. QED
        BY <3>4
    <2>4. QED
      BY <2>2, <2>3
  <1>3. \E f : Good(Len(p), f)
    BY <1>1, <1>2
  <1>4. Chain(t, p) = CHOOSE f : Good(Len(p), f)
    BY DEF Chain
  <1>5. Good(Len(p), Chain(t, p))
    BY <1>3, <1>4
  <1>6. QED
    BY <1>5

LEMMA NodeAtEmpty ==
  ASSUME NEW t
  PROVE  NodeAt(t, <<>>) = Root
  <1>1. <<>> \in Seq({}) /\ Len(<<>>) = 0
    BY EmptySeq
  <1>2. Chain(t, <<>>)[0] = Root
    <2>1. 0 \in 0 .. Len(<<>>)
      BY <1>1
    <2>2. QED
      BY <1>1, <2>1, ChainDef
  <1>3. QED
    BY <1>1, <1>2 DEF NodeAt

\* One name more is one step further.
LEMMA NodeAtAppend ==
  ASSUME NEW t, NEW S, NEW p \in Seq(S), NEW c \in S
  PROVE  NodeAt(t, Append(p, c)) = getChild(t, NodeAt(t, p), c)
  <1> DEFINE q == Append(p, c)
             Bad == {k \in 0 .. Len(p) : Chain(t, q)[k] # Chain(t, p)[k]}
  <1>1. /\ Len(p) \in Nat /\ q \in Seq(S) /\ Len(q) = Len(p) + 1 /\ q[Len(p) + 1] = c
        /\ \A k \in 1 .. Len(p) : q[k] = p[k]
    BY AppendProperties, LenProperties
  <1>2. /\ \A k \in 0 .. Len(p) : Chain(t, p)[k] =
              IF k = 0 THEN Root ELSE getChild(t, Chain(t, p)[k - 1], p[k])
        /\ \A k \in 0 .. Len(q) : Chain(t, q)[k] =
              IF k = 0 THEN Root ELSE getChild(t, Chain(t, q)[k - 1], q[k])
    <2> HIDE DEF q
    <2>1. QED
      BY <1>1, ChainDef
  <1> HIDE DEF q
  <1>3. Bad = {}
    <2> SUFFICES ASSUME Bad # {} PROVE FALSE
      OBVIOUS
    <2>0. Bad \subseteq Nat
      BY <1>1
    <2>1. PICK k \in Bad : \A m \in Bad : k <= m
      BY <2>0, LeastNumber
    <2>2. k \in 0 .. Len(p) /\ k \in 0 .. Len(q) /\ Chain(t, q)[k] # Chain(t, p)[k]
      BY <1>1, <2>1
    <2>3. k # 0
      BY <1>2, <2>2
    <2>4. k - 1 \in 0 .. Len(p) /\ ~(k <= k - 1) /\ k \in 1 .. Len(p)
      BY <1>1, <2>2, <2>3
    <2>5. Chain(t, q)[k - 1] = Chain(t, p)[k - 1]
      BY <2>1, <2>4
    <2>6. QED
      BY <1>1, <1>2, <2>2, <2>3, <2>4, <2>5
  <1>4. Chain(t, q)[Len(p)] = Chain(t, p)[Len(p)]
    BY <1>1, <1>3
  <1>5. Len(q) \in 0 .. Len(q) /\ Len(q) # 0 /\ Len(q) - 1 = Len(p)
    BY <1>1
  <1>6. Chain(t, q)[Len(q)] = getChild(t, Chain(t, p)[Len(p)], c)
    BY <1>1, <1>2, <1>4, <1>5
  <1>7. QED
    BY <1>6 DEF NodeAt, q

\* The turns of insert are what their recursion says.
LEMMA TurnsDef ==
  ASSUME NEW t, NEW S, NEW p \in Seq(S)
  PROVE  \A k \in 0 .. Len(p) :
            InsertTurns(t, p)[k] = IF k = 0 THEN [node |-> Root, tree |-> t]
                                   ELSE InsertToken(InsertTurns(t, p)[k - 1], p[k])
  <1> DEFINE First == [node |-> Root, tree |-> t]
             Good(n, f) == f = [k \in 0 .. n |->
                                  IF k = 0 THEN First ELSE InsertToken(f[k - 1], p[k])]
             Bad == {n \in Nat : ~ \E f : Good(n, f)}
  <1>1. Len(p) \in Nat
    BY LenProperties
  <1> HIDE DEF First
  <1>2. Bad = {}
    <2> SUFFICES ASSUME Bad # {} PROVE FALSE
      OBVIOUS
    <2>1. PICK n \in Bad : \A m \in Bad : n <= m
      BY LeastNumber
    <2>2. CASE n = 0
      <3>1. Good(0, [k \in 0 .. 0 |-> First])
        OBVIOUS
      <3>2. QED
        BY <2>2, <3>1
    <2>3. CASE n # 0
      <3>0. n \in Nat \ {0}
        BY <2>1, <2>3
      <3>1. n - 1 \in Nat /\ n - 1 \notin Bad
        <4>1. n - 1 \in Nat /\ ~(n <= n - 1)
          BY <3>0
        <4>2. QED
          BY <2>1, <4>1
      <3>2. PICK f : Good(n - 1, f)
        BY <3>1
      <3> DEFINE g == [k \in 0 .. n |-> IF k = n THEN InsertToken(f[n - 1], p[n]) ELSE f[k]]
      <3>3. ASSUME NEW k \in 0 .. n
            PROVE  g[k] = IF k = 0 THEN First ELSE InsertToken(g[k - 1], p[k])
        <4>1. CASE k = n
          BY <2>3, <3>1, <4>1
        <4>2. CASE k # n
          <5>1. k \in 0 .. n - 1 /\ (k # 0 => k - 1 \in 0 .. n /\ k - 1 # n)
            BY <3>1, <4>2
          <5>2. f[k] = IF k = 0 THEN First ELSE InsertToken(f[k - 1], p[k])
            BY <3>2, <5>1
          <5>3. QED
            BY <4>2, <5>1, <5>2
        <4>3. QED
          BY <4>1, <4>2
      <3>4. Good(n, g)
        BY <3>3
      <3>5. QED
        BY <3>4
    <2>4. QED
      BY <2>2, <2>3
  <1>3. \E f : Good(Len(p), f)
    BY <1>1, <1>2
  <1>4. InsertTurns(t, p) = CHOOSE f : Good(Len(p), f)
    BY DEF InsertTurns, First
  <1>5. Good(Len(p), InsertTurns(t, p))
    BY <1>3, <1>4
  <1>6. QED
    BY <1>5 DEF First

\* The visits that follow those of one level.
VisitsFrom(t, level) == UNION {VisitChildren(t, visit) : visit \in level}

\* The levels of dropChildren are what their recursion says.
LEMMA VisitsDef ==
  ASSUME NEW t, NEW node, NEW suffix, IsFiniteSet(DOMAIN t)
  PROVE  /\ VisitsAt(t, node, suffix)[0] = {Visit(t, node, suffix)}
         /\ \A d \in Depths(t) \ {0} :
                VisitsAt(t, node, suffix)[d] = VisitsFrom(t, VisitsAt(t, node, suffix)[d - 1])
  <1> DEFINE First == {Visit(t, node, suffix)}
             Deeper(L) == VisitsFrom(t, L)
             Good(n, f) == f = [d \in 0 .. n |-> IF d = 0 THEN First ELSE Deeper(f[d - 1])]
             Bad == {n \in Nat : ~ \E f : Good(n, f)}
  <1>1. Cardinality(DOMAIN t) \in Nat
    BY FS_CardinalityType
  <1> HIDE DEF First, Deeper
  <1>2. Bad = {}
    <2> SUFFICES ASSUME Bad # {} PROVE FALSE
      OBVIOUS
    <2>1. PICK n \in Bad : \A m \in Bad : n <= m
      BY LeastNumber
    <2>2. CASE n = 0
      <3>1. Good(0, [k \in 0 .. 0 |-> First])
        OBVIOUS
      <3>2. QED
        BY <2>2, <3>1
    <2>3. CASE n # 0
      <3>0. n \in Nat \ {0}
        BY <2>1, <2>3
      <3>1. n - 1 \in Nat /\ n - 1 \notin Bad
        <4>1. n - 1 \in Nat /\ ~(n <= n - 1)
          BY <3>0
        <4>2. QED
          BY <2>1, <4>1
      <3>2. PICK f : Good(n - 1, f)
        BY <3>1
      <3> DEFINE g == [k \in 0 .. n |-> IF k = n THEN Deeper(f[n - 1]) ELSE f[k]]
      <3>3. ASSUME NEW k \in 0 .. n
            PROVE  g[k] = IF k = 0 THEN First ELSE Deeper(g[k - 1])
        <4>1. CASE k = n
          BY <2>3, <3>1, <4>1
        <4>2. CASE k # n
          <5>1. k \in 0 .. n - 1 /\ (k # 0 => k - 1 \in 0 .. n /\ k - 1 # n)
            BY <3>1, <4>2
          <5>2. f[k] = IF k = 0 THEN First ELSE Deeper(f[k - 1])
            BY <3>2, <5>1
          <5>3. QED
            BY <4>2, <5>1, <5>2
        <4>3. QED
          BY <4>1, <4>2
      <3>4. Good(n, g)
        BY <3>3
      <3>5. QED
        BY <3>4
    <2>4. QED
      BY <2>2, <2>3
  <1>3. \E f : Good(Cardinality(DOMAIN t), f)
    BY <1>1, <1>2
  <1>4. VisitsAt(t, node, suffix) = CHOOSE f : Good(Cardinality(DOMAIN t), f)
    BY DEF VisitsAt, VisitsFrom, Depths, First, Deeper
  <1>5. Good(Cardinality(DOMAIN t), VisitsAt(t, node, suffix))
    BY <1>3, <1>4
  <1>6. \A d \in Depths(t) :
            VisitsAt(t, node, suffix)[d] = IF d = 0 THEN First
                                           ELSE Deeper(VisitsAt(t, node, suffix)[d - 1])
    BY <1>5 DEF Depths
  <1>7. 0 \in Depths(t)
    BY <1>1 DEF Depths
  <1>8. VisitsAt(t, node, suffix)[0] = First
    BY <1>6, <1>7
  <1>9. \A d \in Depths(t) \ {0} :
            VisitsAt(t, node, suffix)[d] = Deeper(VisitsAt(t, node, suffix)[d - 1])
    BY <1>6
  <1>10. QED
    BY <1>8, <1>9 DEF First, Deeper

-----------------------------------------------------------------------------
(* The shape of a tree: every node has a path, and nothing else has one *)

IsNode(n) ==
    /\ n = [key |-> n.key, data |-> n.data, children |-> n.children]
    /\ n.children = [c \in DOMAIN n.children |-> n.children[c]]

IsHeap(t) ==
    /\ t = [n \in DOMAIN t |-> t[n]]
    /\ IsFiniteSet(DOMAIN t) /\ DOMAIN t \subseteq Nat /\ Root \in DOMAIN t
    /\ \A n \in DOMAIN t : IsNode(t[n])

\* A child pointer leads to the node whose path has the name in addition.
PointersLead(t, at) ==
    \A m \in DOMAIN t : \A c \in DOMAIN t[m].children :
        /\ c \in Names /\ t[m].children[c] \in DOMAIN t
        /\ at[t[m].children[c]] = Append(at[m], c)

\* Every node but the root has its key and a pointer that leads to it.
NodesAreReached(t, at) ==
    \A n \in DOMAIN t \ {Root} :
        /\ t[n].key = Last(at[n])
        /\ \E m \in DOMAIN t : /\ t[n].key \in DOMAIN t[m].children
                               /\ t[m].children[t[n].key] = n

\* at[n] is the path of node n.
IsTree(t, at) ==
    /\ IsHeap(t)
    /\ at \in [DOMAIN t -> Seq(Names)] /\ at[Root] = <<>>
    /\ \A m, n \in DOMAIN t : at[m] = at[n] => m = n
    /\ PointersLead(t, at)
    /\ NodesAreReached(t, at)

\* A node that is not the root has a parent, whose path is shorter by its key.
LEMMA ParentOf ==
  ASSUME NEW t, NEW at, IsTree(t, at), NEW n \in DOMAIN t, n # Root
  PROVE  \E m \in DOMAIN t : /\ t[n].key \in DOMAIN t[m].children
                             /\ t[m].children[t[n].key] = n
                             /\ at[n] = Append(at[m], t[n].key)
                             /\ t[n].key \in Names /\ at[m] \in Seq(Names)
  <1>1. PICK m \in DOMAIN t : t[n].key \in DOMAIN t[m].children /\ t[m].children[t[n].key] = n
    BY DEF IsTree, NodesAreReached
  <1>2. t[n].key \in Names /\ at[t[m].children[t[n].key]] = Append(at[m], t[n].key)
    BY <1>1 DEF IsTree, PointersLead
  <1>3. at[m] \in Seq(Names)
    BY DEF IsTree
  <1>4. QED
    BY <1>1, <1>2, <1>3

\* NodeAt finds the node that has the path, or none.
LEMMA NodeAtFinds ==
  ASSUME NEW t, NEW at, IsTree(t, at)
  PROVE  \A p \in Seq(Names) :
            /\ \A n \in DOMAIN t : at[n] = p => NodeAt(t, p) = n
            /\ (\A n \in DOMAIN t : at[n] # p) => NodeAt(t, p) = NULL
  <1> DEFINE Right(p) == /\ \A n \in DOMAIN t : at[n] = p => NodeAt(t, p) = n
                         /\ (\A n \in DOMAIN t : at[n] # p) => NodeAt(t, p) = NULL
             Bad == {k \in Nat : \E p \in Seq(Names) : Len(p) = k /\ ~Right(p)}
  <1>1. Bad = {}
    <2> SUFFICES ASSUME Bad # {} PROVE FALSE
      OBVIOUS
    <2>1. PICK k \in Bad : \A m \in Bad : k <= m
      BY LeastNumber
    <2>2. PICK p \in Seq(Names) : Len(p) = k /\ ~Right(p)
      BY <2>1
    <2>3. CASE p = <<>>
      BY <2>2, <2>3, NodeAtEmpty DEF IsTree, IsHeap
    <2>4. CASE p # <<>>
      <3> DEFINE q == Front(p)
                 c == Last(p)
      <3>1. q \in Seq(Names) /\ c \in Names /\ Len(q) = Len(p) - 1 /\ p = Append(q, c)
        BY <2>4, ParentAndName
      <3> HIDE DEF q, c
      <3>2. Right(q)
        <4>1. Len(p) \in Nat /\ Len(q) \in Nat /\ ~(Len(p) <= Len(q))
          BY <3>1, LenProperties
        <4>2. QED
          BY <2>1, <2>2, <3>1, <4>1
      <3>3. NodeAt(t, p) = getChild(t, NodeAt(t, q), c)
        BY <3>1, NodeAtAppend
      <3>4. ASSUME NEW n \in DOMAIN t, at[n] = p
            PROVE  NodeAt(t, p) = n
        <4>1. n # Root
          BY <2>4, <3>4 DEF IsTree
        <4>2. PICK m \in DOMAIN t : /\ t[n].key \in DOMAIN t[m].children
                                    /\ t[m].children[t[n].key] = n
                                    /\ at[n] = Append(at[m], t[n].key)
                                    /\ t[n].key \in Names /\ at[m] \in Seq(Names)
          BY <4>1, ParentOf
        <4>3. at[m] = q /\ t[n].key = c
          <5>1. Append(at[m], t[n].key) = Append(q, c)
            BY <3>1, <3>4, <4>2
          <5>2. QED
            BY <3>1, <4>2, <5>1, AppendInjective
        <4>4. NodeAt(t, q) = m /\ m # NULL
          BY <3>2, <4>3, NullIsNoAddress DEF IsTree, IsHeap
        <4>5. QED
          BY <3>3, <4>2, <4>3, <4>4 DEF getChild
      <3>5. ASSUME \A n \in DOMAIN t : at[n] # p
            PROVE  NodeAt(t, p) = NULL
        <4>1. CASE \A n \in DOMAIN t : at[n] # q
          BY <3>2, <3>3, <4>1 DEF getChild
        <4>2. CASE \E n \in DOMAIN t : at[n] = q
          <5>1. PICK m \in DOMAIN t : at[m] = q
            BY <4>2
          <5>2. NodeAt(t, q) = m
            BY <3>2, <5>1
          <5>3. c \notin DOMAIN t[m].children
            BY <3>1, <3>5, <5>1 DEF IsTree, PointersLead
          <5>4. QED
            BY <3>3, <5>2, <5>3 DEF getChild
        <4>3. QED
          BY <4>1, <4>2
      <3>6. Right(p)
        BY <3>4, <3>5
      <3>7. QED
        BY <2>2, <3>6
    <2>5. QED
      BY <2>3, <2>4
  <1>2. ASSUME NEW p \in Seq(Names)
        PROVE  Right(p)
    BY <1>1, LenProperties
  <1>3. QED
    BY <1>2

\* The first k names of a path.
Prefix(p, k) == SubSeq(p, 1, k)

LEMMA PrefixFacts ==
  ASSUME NEW S, NEW p \in Seq(S), NEW k \in 0 .. Len(p)
  PROVE  /\ Prefix(p, k) \in Seq(S) /\ Len(Prefix(p, k)) = k
         /\ \A i \in 1 .. k : Prefix(p, k)[i] = p[i]
         /\ k = Len(p) => Prefix(p, k) = p
         /\ k = 0 => Prefix(p, k) = <<>>
  <1>1. Len(p) \in Nat /\ \A i \in 1 .. k : p[i] \in S
    BY LenProperties, ElementOfSeq
  <1>2. /\ SubSeq(p, 1, k) \in Seq(S) /\ Len(SubSeq(p, 1, k)) = IF 1 <= k THEN k - 1 + 1 ELSE 0
        /\ \A i \in 1 .. k - 1 + 1 : SubSeq(p, 1, k)[i] = p[1 + i - 1]
    BY <1>1, SubSeqProperties
  <1>3. k = Len(p) => SubSeq(p, 1, k) = p
    BY SubSeqFull
  <1>4. k = 0 => SubSeq(p, 1, k) = <<>>
    BY SubSeqEmpty
  <1>5. QED
    BY <1>1, <1>2, <1>3, <1>4 DEF Prefix

LEMMA PrefixNext ==
  ASSUME NEW S, NEW p \in Seq(S), NEW k \in 1 .. Len(p)
  PROVE  Prefix(p, k) = Append(Prefix(p, k - 1), p[k]) /\ p[k] \in S
  <1>1. k - 1 \in 0 .. Len(p) /\ k \in 0 .. Len(p) /\ p[k] \in S /\ Len(p) \in Nat
    BY LenProperties, ElementOfSeq
  <1>2. /\ Prefix(p, k) \in Seq(S) /\ Len(Prefix(p, k)) = k
        /\ \A i \in 1 .. k : Prefix(p, k)[i] = p[i]
        /\ Prefix(p, k - 1) \in Seq(S) /\ Len(Prefix(p, k - 1)) = k - 1
        /\ \A i \in 1 .. k - 1 : Prefix(p, k - 1)[i] = p[i]
    BY <1>1, PrefixFacts
  <1> DEFINE a == Append(Prefix(p, k - 1), p[k])
  <1>3. /\ a \in Seq(S) /\ Len(a) = k - 1 + 1
        /\ \A i \in 1 .. k - 1 : a[i] = Prefix(p, k - 1)[i]
        /\ a[k - 1 + 1] = p[k]
    BY <1>1, <1>2, AppendProperties
  <1> HIDE DEF a
  <1>4. Len(a) = k /\ \A i \in 1 .. k : a[i] = Prefix(p, k)[i]
    BY <1>1, <1>2, <1>3
  <1>5. Prefix(p, k) = a
    BY <1>2, <1>3, <1>4, SeqEqual
  <1>6. QED
    BY <1>1, <1>5 DEF a

LEMMA PrefixOfAppend ==
  ASSUME NEW S, NEW p \in Seq(S), NEW e \in S, NEW k \in 0 .. Len(p)
  PROVE  Prefix(Append(p, e), k) = Prefix(p, k)
  <1>1. /\ Append(p, e) \in Seq(S) /\ Len(Append(p, e)) = Len(p) + 1 /\ Len(p) \in Nat
        /\ \A i \in 1 .. Len(p) : Append(p, e)[i] = p[i]
    BY AppendProperties, LenProperties
  <1>2. k \in 0 .. Len(Append(p, e))
    BY <1>1
  <1>3. /\ Prefix(p, k) \in Seq(S) /\ Len(Prefix(p, k)) = k
        /\ \A i \in 1 .. k : Prefix(p, k)[i] = p[i]
    BY PrefixFacts
  <1>4. /\ Prefix(Append(p, e), k) \in Seq(S) /\ Len(Prefix(Append(p, e), k)) = k
        /\ \A i \in 1 .. k : Prefix(Append(p, e), k)[i] = Append(p, e)[i]
    BY <1>1, <1>2, PrefixFacts
  <1>5. \A i \in 1 .. k : Prefix(Append(p, e), k)[i] = Prefix(p, k)[i]
    BY <1>1, <1>3, <1>4
  <1>6. QED
    BY <1>3, <1>4, <1>5, SeqEqual

\* With a path, a tree has all those above it.
LEMMA PrefixClosed ==
  ASSUME NEW t, NEW at, IsTree(t, at)
  PROVE  \A n \in DOMAIN t : \A k \in 0 .. Len(at[n]) :
            \E m \in DOMAIN t : at[m] = Prefix(at[n], k)
  <1> DEFINE Closed(n) == \A k \in 0 .. Len(at[n]) : \E m \in DOMAIN t : at[m] = Prefix(at[n], k)
             Bad == {l \in Nat : \E n \in DOMAIN t : Len(at[n]) = l /\ ~Closed(n)}
  <1>0. \A n \in DOMAIN t : at[n] \in Seq(Names) /\ Len(at[n]) \in Nat
    BY LenProperties DEF IsTree
  <1>1. Bad = {}
    <2> SUFFICES ASSUME Bad # {} PROVE FALSE
      OBVIOUS
    <2>1. PICK l \in Bad : \A m \in Bad : l <= m
      BY LeastNumber
    <2>2. PICK n \in DOMAIN t : Len(at[n]) = l /\ ~Closed(n)
      BY <2>1
    <2>3. PICK k \in 0 .. Len(at[n]) : ~ \E m \in DOMAIN t : at[m] = Prefix(at[n], k)
      BY <2>2
    <2>4. k # Len(at[n])
      BY <1>0, <2>3, PrefixFacts
    <2>5. n # Root
      <3>1. Len(<<>>) = 0
        BY EmptySeq
      <3>2. QED
        BY <2>4, <3>1 DEF IsTree
    <2>6. PICK m \in DOMAIN t : /\ at[n] = Append(at[m], t[n].key)
                                /\ t[n].key \in Names /\ at[m] \in Seq(Names)
      BY <2>5, ParentOf
    <2>7. Len(at[n]) = Len(at[m]) + 1
      BY <2>6, AppendProperties
    <2>8. Closed(m)
      <3>1. Len(at[m]) \in Nat /\ ~(Len(at[n]) <= Len(at[m]))
        BY <1>0, <2>7
      <3>2. QED
        BY <2>1, <2>2, <3>1
    <2>9. k \in 0 .. Len(at[m])
      BY <1>0, <2>4, <2>7
    <2>10. Prefix(at[n], k) = Prefix(at[m], k)
      BY <2>6, <2>9, PrefixOfAppend
    <2>11. QED
      BY <2>3, <2>8, <2>9, <2>10
  <1>2. ASSUME NEW n \in DOMAIN t
        PROVE  Closed(n)
    BY <1>0, <1>1
  <1>3. QED
    BY <1>2

\* A tree is no deeper than it has nodes.
LEMMA DepthBound ==
  ASSUME NEW t, NEW at, IsTree(t, at), NEW n \in DOMAIN t
  PROVE  Len(at[n]) \in Depths(t)
  <1> DEFINE L == Len(at[n])
             f == [k \in 0 .. L |-> NodeAt(t, Prefix(at[n], k))]
  <1>0. at[n] \in Seq(Names) /\ L \in Nat
    BY LenProperties DEF IsTree
  <1> HIDE DEF L
  <1>1. ASSUME NEW k \in 0 .. L
        PROVE  f[k] \in DOMAIN t /\ Len(at[f[k]]) = k
    <2>1. Prefix(at[n], k) \in Seq(Names) /\ Len(Prefix(at[n], k)) = k
      BY <1>0, PrefixFacts DEF L
    <2>2. PICK m \in DOMAIN t : at[m] = Prefix(at[n], k)
      BY PrefixClosed DEF L
    <2>3. NodeAt(t, Prefix(at[n], k)) = m
      BY <2>1, <2>2, NodeAtFinds
    <2>4. QED
      BY <2>1, <2>2, <2>3
  <1>2. f \in [0 .. L -> DOMAIN t]
    BY <1>1
  <1>3. \A j, k \in 0 .. L : f[j] = f[k] => j = k
    BY <1>1
  <1> HIDE DEF f
  <1>4. f \in Injection(0 .. L, DOMAIN t)
    BY <1>2, <1>3 DEF Injection, IsInjective
  <1>5. IsFiniteSet(DOMAIN t) /\ Cardinality(DOMAIN t) \in Nat
    BY FS_CardinalityType DEF IsTree, IsHeap
  <1>6. Cardinality(0 .. L) <= Cardinality(DOMAIN t)
    BY <1>4, <1>5, FS_Injection
  <1>7. Cardinality(0 .. L) = L + 1
    <2>1. 0 \in Int /\ L \in Int /\ ~(0 > L)
      BY <1>0
    <2>2. Cardinality(0 .. L) = IF 0 > L THEN 0 ELSE L - 0 + 1
      BY <2>1, FS_Interval
    <2>3. QED
      BY <1>0, <2>2
  <1>8. QED
    BY <1>0, <1>5, <1>6, <1>7 DEF Depths, L

\* There is always a free address.
LEMMA FreshIsFree ==
  ASSUME NEW t, IsHeap(t)
  PROVE  Fresh(t) \in Nat \ DOMAIN t
  <1> DEFINE C == Cardinality(DOMAIN t)
             F == (0 .. C) \ DOMAIN t
  <1>1. IsFiniteSet(DOMAIN t) /\ C \in Nat
    BY FS_CardinalityType DEF IsHeap
  <1> HIDE DEF C
  <1>2. Cardinality(0 .. C) = C + 1
    <2>1. 0 \in Int /\ C \in Int /\ ~(0 > C)
      BY <1>1
    <2>2. Cardinality(0 .. C) = IF 0 > C THEN 0 ELSE C - 0 + 1
      BY <2>1, FS_Interval
    <2>3. QED
      BY <1>1, <2>2
  <1>3. F # {}
    <2> SUFFICES ASSUME (0 .. C) \in SUBSET DOMAIN t PROVE FALSE
      OBVIOUS
    <2>1. Cardinality(0 .. C) <= Cardinality(DOMAIN t)
      BY <1>1, FS_Subset
    <2>2. QED
      BY <1>1, <1>2, <2>1 DEF C
  <1>4. F \subseteq Nat
    BY <1>1
  <1>5. \E n \in F : \A m \in F : n <= m
    BY <1>3, <1>4, LeastNumber
  <1>6. Min(F) \in F
    BY <1>5 DEF Min
  <1>7. QED
    BY <1>4, <1>6 DEF Fresh, C

-----------------------------------------------------------------------------
(* insert *)

\* The tree has grown by nodes without data, at some of the paths given.
Grown(t, at, u, bt, paths) ==
    /\ DOMAIN t \subseteq DOMAIN u
    /\ \A n \in DOMAIN t : bt[n] = at[n] /\ u[n].data = t[n].data
    /\ \A n \in DOMAIN u \ DOMAIN t : u[n].data = NULL /\ bt[n] \in paths

\* A turn of insert's loop: the node reached is the child, found or made.
LEMMA TokenInserted ==
  ASSUME NEW t, NEW at, IsTree(t, at), NEW node \in DOMAIN t, NEW name \in Names,
         NEW r, r = InsertToken([node |-> node, tree |-> t], name)
  PROVE  \E bt : /\ IsTree(r.tree, bt) /\ r.node \in DOMAIN r.tree
                 /\ r = [node |-> r.node, tree |-> r.tree]
                 /\ bt[r.node] = Append(at[node], name)
                 /\ Grown(t, at, r.tree, bt, {Append(at[node], name)})
  <1> DEFINE kids == t[node].children
             path == Append(at[node], name)
  <1>1. node # NULL
    BY NullIsNoAddress DEF IsTree, IsHeap
  <1>2. at[node] \in Seq(Names) /\ path \in Seq(Names) /\ path # <<>>
    BY AppendProperties DEF IsTree
  <1>3. CASE name \in DOMAIN kids
    <2>1. kids[name] \in DOMAIN t /\ at[kids[name]] = path
      BY <1>3 DEF IsTree, PointersLead
    <2>2. kids[name] # NULL
      BY <2>1, NullIsNoAddress DEF IsTree, IsHeap
    <2>3. getChild(t, node, name) = kids[name]
      BY <1>1, <1>3 DEF getChild
    <2>4. r = [node |-> kids[name], tree |-> t]
      BY <2>2, <2>3 DEF InsertToken
    <2>5. Grown(t, at, t, at, {path})
      BY DEF Grown
    <2>6. QED
      BY <2>1, <2>4, <2>5
  <1>4. CASE name \notin DOMAIN kids
    <2> DEFINE new == Fresh(t)
               more == Assigned(kids, name, new)
               mid == [t EXCEPT ![node].children = more]
               u == Assigned(mid, new, NewNode(name))
               bt == [n \in DOMAIN t \cup {new} |-> IF n = new THEN path ELSE at[n]]
    <2>1. new \in Nat \ DOMAIN t
      BY FreshIsFree DEF IsTree
    <2>2. getChild(t, node, name) = NULL
      BY <1>4 DEF getChild
    <2>3. r = [node |-> new, tree |-> u]
      BY <2>2 DEF InsertToken
    <2> HIDE DEF new
    <2>4. /\ DOMAIN more = DOMAIN kids \cup {name} /\ more[name] = new
          /\ \A c \in DOMAIN kids : c # name /\ more[c] = kids[c]
          /\ more = [c \in DOMAIN more |-> more[c]]
      BY <1>4 DEF Assigned
    <2> HIDE DEF more
    <2>5. /\ DOMAIN mid = DOMAIN t
          /\ \A n \in DOMAIN t \ {node} : mid[n] = t[n]
          /\ mid[node] = [key |-> t[node].key, data |-> t[node].data, children |-> more]
      <3>1. t[node] = [key |-> t[node].key, data |-> t[node].data, children |-> t[node].children]
        BY DEF IsTree, IsHeap, IsNode
      <3>2. [t[node] EXCEPT !.children = more]
              = [key |-> t[node].key, data |-> t[node].data, children |-> more]
        BY <3>1
      <3>3. t = [n \in DOMAIN t |-> t[n]]
        BY DEF IsTree, IsHeap
      <3>4. QED
        BY <3>2, <3>3
    <2> HIDE DEF mid
    <2>6. /\ u = [n \in DOMAIN u |-> u[n]] /\ DOMAIN u = DOMAIN t \cup {new}
          /\ u[new] = NewNode(name)
          /\ u[node] = [key |-> t[node].key, data |-> t[node].data, children |-> more]
          /\ \A n \in DOMAIN t \ {node} : u[n] = t[n]
      <3>1. /\ u = [n \in DOMAIN u |-> u[n]] /\ DOMAIN u = DOMAIN mid \cup {new}
            /\ u[new] = NewNode(name)
            /\ \A n \in DOMAIN mid \ {new} : u[n] = mid[n]
        BY DEF Assigned
      <3> HIDE DEF u
      <3>2. QED
        BY <2>1, <2>5, <3>1
    <2> HIDE DEF u
    <2>7. /\ \A n \in DOMAIN t : u[n].key = t[n].key /\ u[n].data = t[n].data
          /\ \A n \in DOMAIN t \ {node} : u[n].children = t[n].children
          /\ u[node].children = more
          /\ u[new].key = name /\ u[new].data = NULL /\ u[new].children = <<>>
      BY <2>6 DEF NewNode
    <2>8. IsHeap(u)
      <3>1. IsFiniteSet(DOMAIN u)
        <4>1. IsFiniteSet(DOMAIN t)
          BY DEF IsTree, IsHeap
        <4>2. IsFiniteSet(DOMAIN t \cup {new})
          BY <4>1, FS_AddElement
        <4>3. QED
          BY <2>6, <4>2
      <3>2. DOMAIN u \subseteq Nat /\ Root \in DOMAIN u
        BY <2>1, <2>6 DEF IsTree, IsHeap
      <3>3. IsNode(u[new])
        <4>1. u[new] = [key |-> name, data |-> NULL, children |-> <<>>]
          BY <2>6 DEF NewNode
        <4>2. <<>> = [c \in DOMAIN <<>> |-> (<<>>)[c]]
          OBVIOUS
        <4>3. QED
          BY <4>1, <4>2 DEF IsNode
      <3>4. IsNode(u[node])
        BY <2>4, <2>6 DEF IsNode
      <3>5. \A n \in DOMAIN t \ {node} : IsNode(u[n])
        BY <2>6 DEF IsTree, IsHeap
      <3>6. \A n \in DOMAIN u : IsNode(u[n])
        BY <2>6, <3>3, <3>4, <3>5
      <3>7. QED
        BY <2>6, <3>1, <3>2, <3>6 DEF IsHeap
    <2>9. \A n \in DOMAIN t : at[n] # path
      <3> HIDE DEF bt, path, kids
      <3> SUFFICES ASSUME NEW n \in DOMAIN t, at[n] = path PROVE FALSE
        OBVIOUS
      <3>1. n # Root
        BY <1>2 DEF IsTree
      <3>2. PICK m \in DOMAIN t : /\ t[n].key \in DOMAIN t[m].children
                                  /\ at[n] = Append(at[m], t[n].key)
                                  /\ t[n].key \in Names /\ at[m] \in Seq(Names)
        BY <3>1, ParentOf
      <3>3. Append(at[node], name) = Append(at[m], t[n].key)
        BY <3>2 DEF path
      <3>4. at[m] = at[node] /\ t[n].key = name
        <4>1. at[node] \in Seq(Names) /\ name \in Names
          BY <1>2
        <4>2. at[m] \in Seq(Names) /\ t[n].key \in Names
          BY <3>2
        <4>3. QED
          BY <3>3, <4>1, <4>2, AppendInjective
      <3>5. m = node
        BY <3>4 DEF IsTree
      <3>6. QED
        BY <1>4, <3>2, <3>4, <3>5 DEF kids
    <2>10. /\ DOMAIN bt = DOMAIN u /\ bt[new] = path /\ \A n \in DOMAIN t : bt[n] = at[n]
           /\ bt \in [DOMAIN u -> Seq(Names)]
      <3>1. \A n \in DOMAIN t : at[n] \in Seq(Names) /\ n # new
        BY <2>1 DEF IsTree
      <3>2. QED
        BY <1>2, <2>1, <2>6, <3>1
    <2> HIDE DEF bt, path, kids
    <2>11. bt[Root] = <<>>
      BY <2>10 DEF IsTree, IsHeap
    <2>12. \A m, n \in DOMAIN u : bt[m] = bt[n] => m = n
      <3>1. \A m, n \in DOMAIN t : at[m] = at[n] => m = n
        BY DEF IsTree
      <3>2. QED
        BY <2>6, <2>9, <2>10, <3>1
    <2>13. PointersLead(u, bt)
      <3> SUFFICES ASSUME NEW m \in DOMAIN u, NEW c \in DOMAIN u[m].children
                   PROVE  /\ c \in Names /\ u[m].children[c] \in DOMAIN u
                          /\ bt[u[m].children[c]] = Append(bt[m], c)
        BY DEF PointersLead
      <3>1. m # new
        BY <2>7
      <3>2. m \in DOMAIN t
        BY <2>6, <3>1
      <3>3. CASE m = node /\ c = name
        <4>1. u[m].children[c] = new /\ bt[m] = at[node]
          BY <2>4, <2>7, <2>10, <3>3
        <4>2. QED
          BY <2>6, <2>10, <3>3, <4>1 DEF path
      <3>4. CASE ~(m = node /\ c = name)
        <4>1. c \in DOMAIN t[m].children /\ u[m].children[c] = t[m].children[c]
          <5>1. CASE m = node
            BY <2>4, <2>7, <3>4, <5>1 DEF kids
          <5>2. CASE m # node
            BY <2>7, <3>2, <5>2
          <5>3. QED
            BY <5>1, <5>2
        <4>2. /\ c \in Names /\ t[m].children[c] \in DOMAIN t
              /\ at[t[m].children[c]] = Append(at[m], c)
          BY <3>2, <4>1 DEF IsTree, PointersLead
        <4>3. QED
          BY <2>6, <2>10, <3>2, <4>1, <4>2
      <3>5. QED
        BY <3>3, <3>4
    <2>14. NodesAreReached(u, bt)
      <3> SUFFICES ASSUME NEW n \in DOMAIN u \ {Root}
                   PROVE  /\ u[n].key = Last(bt[n])
                          /\ \E m \in DOMAIN u : /\ u[n].key \in DOMAIN u[m].children
                                                 /\ u[m].children[u[n].key] = n
        BY DEF NodesAreReached
      <3>1. CASE n = new
        <4>1. Last(path) = name
          BY <1>2, ParentOfChild DEF path
        <4>2. name \in DOMAIN u[node].children /\ u[node].children[name] = new /\ node \in DOMAIN u
          BY <2>4, <2>6, <2>7
        <4>3. QED
          BY <2>7, <2>10, <3>1, <4>1, <4>2
      <3>2. CASE n # new
        <4>1. n \in DOMAIN t \ {Root}
          BY <2>6, <3>2
        <4>2. t[n].key = Last(at[n])
          BY <4>1 DEF IsTree, NodesAreReached
        <4>3. PICK m \in DOMAIN t : t[n].key \in DOMAIN t[m].children /\ t[m].children[t[n].key] = n
          BY <4>1 DEF IsTree, NodesAreReached
        <4>4. t[n].key \in DOMAIN u[m].children /\ u[m].children[t[n].key] = n
          <5>1. CASE m = node
            BY <2>4, <2>7, <4>3, <5>1 DEF kids
          <5>2. CASE m # node
            BY <2>7, <4>3, <5>2
          <5>3. QED
            BY <5>1, <5>2
        <4>5. u[n].key = t[n].key /\ bt[n] = at[n] /\ m \in DOMAIN u
          BY <2>6, <2>7, <2>10, <4>1
        <4>6. QED
          BY <4>2, <4>4, <4>5
      <3>3. QED
        BY <3>1, <3>2
    <2>15. IsTree(u, bt)
      BY <2>8, <2>10, <2>11, <2>12, <2>13, <2>14 DEF IsTree
    <2>16. Grown(t, at, u, bt, {path})
      BY <2>6, <2>7, <2>10 DEF Grown
    <2>17. r.node = new /\ r.tree = u /\ r = [node |-> r.node, tree |-> r.tree]
      BY <2>3
    <2>18. bt[new] = Append(at[node], name) /\ new \in DOMAIN u
      BY <2>6, <2>10 DEF path
    <2>19. QED
      BY <2>15, <2>16, <2>17, <2>18 DEF path
  <1>5. QED
    BY <1>3, <1>4

\* The loop of insert: after k turns the node with the first k names is there,
\* and with it all those on the way.
LEMMA PathInserted ==
  ASSUME NEW t, NEW at, IsTree(t, at), NEW p \in Seq(Names)
  PROVE  \A k \in 0 .. Len(p) : \E bt :
            LET r == InsertTurns(t, p)[k]
            IN  /\ IsTree(r.tree, bt) /\ r.node \in DOMAIN r.tree
                /\ r = [node |-> r.node, tree |-> r.tree]
                /\ bt[r.node] = Prefix(p, k)
                /\ Grown(t, at, r.tree, bt, {Prefix(p, j) : j \in 1 .. k})
  <1> DEFINE turn(k) == InsertTurns(t, p)[k]
             Right(k, bt) == /\ IsTree(turn(k).tree, bt) /\ turn(k).node \in DOMAIN turn(k).tree
                             /\ turn(k) = [node |-> turn(k).node, tree |-> turn(k).tree]
                             /\ bt[turn(k).node] = Prefix(p, k)
                             /\ Grown(t, at, turn(k).tree, bt, {Prefix(p, j) : j \in 1 .. k})
             Bad == {k \in 0 .. Len(p) : ~ \E bt : Right(k, bt)}
  <1>1. Len(p) \in Nat
    BY LenProperties
  <1>2. \A k \in 0 .. Len(p) :
            turn(k) = IF k = 0 THEN [node |-> Root, tree |-> t]
                      ELSE InsertToken(turn(k - 1), p[k])
    BY TurnsDef
  <1>3. Bad = {}
    <2> HIDE DEF turn
    <2> SUFFICES ASSUME Bad # {} PROVE FALSE
      OBVIOUS
    <2>0. Bad \subseteq Nat
      BY <1>1
    <2>1. PICK k \in Bad : \A m \in Bad : k <= m
      BY <2>0, LeastNumber
    <2>2. k \in 0 .. Len(p) /\ ~ \E bt : Right(k, bt)
      BY <2>1
    <2>3. CASE k = 0
      <3>1. turn(0) = [node |-> Root, tree |-> t]
        BY <1>1, <1>2
      <3>2. turn(0).node = Root /\ turn(0).tree = t
        BY <3>1
      <3>3. Prefix(p, 0) = <<>>
        <4>1. 0 \in 0 .. Len(p)
          BY <1>1
        <4>2. QED
          BY <4>1, PrefixFacts
      <3>4. Root \in DOMAIN t /\ at[Root] = <<>>
        BY DEF IsTree, IsHeap
      <3>5. Grown(t, at, t, at, {Prefix(p, j) : j \in 1 .. 0})
        BY DEF Grown
      <3>6. Right(0, at)
        BY <3>1, <3>2, <3>3, <3>4, <3>5
      <3>7. QED
        BY <2>2, <2>3, <3>6
    <2>4. CASE k # 0
      <3>1. k - 1 \in 0 .. Len(p) /\ ~(k <= k - 1) /\ k \in 1 .. Len(p)
        BY <1>1, <2>2, <2>4
      <3>2. PICK at1 : Right(k - 1, at1)
        <4>1. k - 1 \notin Bad
          BY <2>1, <3>1
        <4>2. QED
          BY <3>1, <4>1
      <3> DEFINE node1 == turn(k - 1).node
                 tree1 == turn(k - 1).tree
      <3>3. /\ IsTree(tree1, at1) /\ node1 \in DOMAIN tree1 /\ at1[node1] = Prefix(p, k - 1)
            /\ turn(k - 1) = [node |-> node1, tree |-> tree1]
            /\ Grown(t, at, tree1, at1, {Prefix(p, j) : j \in 1 .. k - 1})
        BY <3>2
      <3> HIDE DEF node1, tree1
      <3>4. p[k] \in Names /\ Prefix(p, k) = Append(at1[node1], p[k])
        BY <3>1, <3>3, PrefixNext
      <3>5. turn(k) = InsertToken([node |-> node1, tree |-> tree1], p[k])
        BY <1>2, <2>2, <2>4, <3>3
      <3>6. PICK bt : /\ IsTree(turn(k).tree, bt) /\ turn(k).node \in DOMAIN turn(k).tree
                      /\ turn(k) = [node |-> turn(k).node, tree |-> turn(k).tree]
                      /\ bt[turn(k).node] = Append(at1[node1], p[k])
                      /\ Grown(tree1, at1, turn(k).tree, bt, {Append(at1[node1], p[k])})
        BY <3>3, <3>4, <3>5, TokenInserted
      <3>7. Grown(t, at, turn(k).tree, bt, {Prefix(p, j) : j \in 1 .. k})
        <4>1. /\ {Prefix(p, j) : j \in 1 .. k - 1} \subseteq {Prefix(p, j) : j \in 1 .. k}
              /\ Append(at1[node1], p[k]) \in {Prefix(p, j) : j \in 1 .. k}
          <5>1. k \in 1 .. k /\ 1 .. k - 1 \subseteq 1 .. k
            BY <1>1, <3>1
          <5>2. QED
            BY <3>4, <5>1
        <4>2. QED
          BY <3>3, <3>6, <4>1 DEF Grown
      <3>8. Right(k, bt)
        BY <3>4, <3>6, <3>7
      <3>9. QED
        BY <2>2, <3>8
    <2>5. QED
      BY <2>3, <2>4
  <1>4. ASSUME NEW k \in 0 .. Len(p)
        PROVE  \E bt : Right(k, bt)
    BY <1>3
  <1>5. QED
    BY <1>4

\* What insert does to a tree with paths at: the tree u, with paths bt, has the
\* path p, whose node is end, and nothing else but what is on the way to it.
PathAdded(t, at, u, bt, p, end, data) ==
    /\ IsTree(u, bt) /\ DOMAIN t \subseteq DOMAIN u
    /\ end \in DOMAIN u /\ bt[end] = p /\ u[end].data = data
    /\ \A n \in DOMAIN t : bt[n] = at[n]
    /\ \A n \in DOMAIN t \ {end} : u[n].data = t[n].data
    /\ \A n \in DOMAIN u \ DOMAIN t : bt[n] \in {Prefix(p, j) : j \in 1 .. Len(p)}
    /\ \A n \in (DOMAIN u \ DOMAIN t) \ {end} : u[n].data = NULL

Stored(t, node, data) == [t EXCEPT ![node].data = data]

\* Only the data of a node changes.
LEMMA DataStored ==
  ASSUME NEW t, NEW at, IsTree(t, at), NEW node \in DOMAIN t, NEW data,
         NEW u, u = Stored(t, node, data)
  PROVE  /\ IsTree(u, at) /\ DOMAIN u = DOMAIN t /\ u[node].data = data
         /\ \A n \in DOMAIN t \ {node} : u[n].data = t[n].data
  <1>1. /\ u = [n \in DOMAIN u |-> u[n]] /\ DOMAIN u = DOMAIN t
        /\ \A n \in DOMAIN t \ {node} : u[n] = t[n]
        /\ u[node] = [key |-> t[node].key, data |-> data, children |-> t[node].children]
    <2>1. t[node] = [key |-> t[node].key, data |-> t[node].data, children |-> t[node].children]
      BY DEF IsTree, IsHeap, IsNode
    <2>2. [t[node] EXCEPT !.data = data]
            = [key |-> t[node].key, data |-> data, children |-> t[node].children]
      BY <2>1
    <2>3. t = [n \in DOMAIN t |-> t[n]]
      BY DEF IsTree, IsHeap
    <2>4. QED
      BY <2>2, <2>3 DEF Stored
  <1>2. /\ \A n \in DOMAIN t : u[n].key = t[n].key /\ u[n].children = t[n].children
        /\ u[node].data = data /\ \A n \in DOMAIN t \ {node} : u[n].data = t[n].data
    BY <1>1
  <1>3. IsHeap(u)
    <2>1. \A n \in DOMAIN t : IsNode(t[n])
      BY DEF IsTree, IsHeap
    <2>2. IsNode(u[node])
      <3>1. t[node].children = [c \in DOMAIN t[node].children |-> t[node].children[c]]
        BY <2>1 DEF IsNode
      <3>2. /\ u[node].key = t[node].key /\ u[node].data = data
            /\ u[node].children = t[node].children
        BY <1>2
      <3>3. QED
        BY <1>1, <3>1, <3>2 DEF IsNode
    <2>3. \A n \in DOMAIN u : IsNode(u[n])
      BY <1>1, <2>1, <2>2
    <2>4. QED
      BY <1>1, <2>3 DEF IsTree, IsHeap
  <1>4. PointersLead(u, at)
    BY <1>1, <1>2, SMTT(30) DEF IsTree, PointersLead
  <1>5. NodesAreReached(u, at)
    <2> SUFFICES ASSUME NEW n \in DOMAIN t \ {Root}
                 PROVE  /\ u[n].key = Last(at[n])
                        /\ \E m \in DOMAIN t : /\ u[n].key \in DOMAIN u[m].children
                                               /\ u[m].children[u[n].key] = n
      BY <1>1 DEF NodesAreReached
    <2>1. t[n].key = Last(at[n])
      BY DEF IsTree, NodesAreReached
    <2>2. PICK m \in DOMAIN t : t[n].key \in DOMAIN t[m].children /\ t[m].children[t[n].key] = n
      BY DEF IsTree, NodesAreReached
    <2>3. QED
      BY <1>2, <2>1, <2>2
  <1>6. IsTree(u, at)
    BY <1>1, <1>3, <1>4, <1>5 DEF IsTree
  <1>7. QED
    BY <1>1, <1>2, <1>6

LEMMA InsertMeans ==
  ASSUME NEW t, NEW at, IsTree(t, at), NEW key, TokensOf(key) \in Seq(Names), NEW data
  PROVE  \E bt, end : PathAdded(t, at, insert(t, key, data), bt, TokensOf(key), end, data)
  <1> DEFINE p == TokensOf(key)
             r == InsertTurns(t, p)[Len(p)]
             u == insert(t, key, data)
             mid == r.tree
             end == r.node
  <1>1. Len(p) \in 0 .. Len(p) /\ Prefix(p, Len(p)) = p
    <2>1. Len(p) \in 0 .. Len(p)
      BY LenProperties
    <2>2. QED
      BY <2>1, PrefixFacts
  <1>2. PICK bt : /\ IsTree(mid, bt) /\ end \in DOMAIN mid
                  /\ bt[end] = Prefix(p, Len(p))
                  /\ Grown(t, at, mid, bt, {Prefix(p, j) : j \in 1 .. Len(p)})
    BY <1>1, PathInserted
  <1>3. u = Stored(mid, end, data)
    BY DEF insert, Stored
  <1> HIDE DEF p, r, u, mid, end
  <1>4. /\ IsTree(u, bt) /\ DOMAIN u = DOMAIN mid /\ u[end].data = data
        /\ \A n \in DOMAIN mid \ {end} : u[n].data = mid[n].data
    BY <1>2, <1>3, DataStored
  <1>5. PathAdded(t, at, u, bt, p, end, data)
    BY <1>1, <1>2, <1>4 DEF PathAdded, Grown
  <1>6. QED
    BY <1>5 DEF p, u

\* A new tree has the root alone.
LEMMA NewTreeIsTree ==
  /\ IsTree(NewTree, [n \in {Root} |-> <<>>])
  /\ DOMAIN NewTree = {Root} /\ NewTree[Root].data = NULL
  <1>1. /\ NewTree = [n \in DOMAIN NewTree |-> NewTree[n]] /\ DOMAIN NewTree = {Root}
        /\ NewTree[Root] = [key |-> "root", data |-> NULL, children |-> <<>>]
    BY DEF NewTree, NewNode
  <1>2. NewTree[Root].data = NULL /\ NewTree[Root].children = <<>>
    BY <1>1
  <1>3. IsHeap(NewTree)
    <2>1. IsNode(NewTree[Root])
      <3>1. <<>> = [c \in DOMAIN <<>> |-> (<<>>)[c]]
        OBVIOUS
      <3>2. QED
        BY <1>1, <3>1 DEF IsNode
    <2>2. IsFiniteSet({Root})
      BY FS_Singleton
    <2>3. QED
      BY <1>1, <2>1, <2>2 DEF IsHeap, Root
  <1>4. <<>> \in Seq(Names)
    BY EmptySeq
  <1>5. QED
    BY <1>1, <1>2, <1>3, <1>4 DEF IsTree, PointersLead, NodesAreReached

-----------------------------------------------------------------------------
(* The tokens of a key *)

LEMMA ShortKeys ==
  ASSUME NEW S, NEW a \in S, NEW b \in S
  PROVE  /\ <<a>> \in Seq(S) /\ Len(<<a>>) = 1 /\ (<<a>>)[1] = a /\ <<a>> # <<>>
         /\ <<a, b>> \in Seq(S) /\ Len(<<a, b>>) = 2 /\ <<a, b>> # <<>>
         /\ (<<a, b>>)[1] = a /\ (<<a, b>>)[2] = b
  OBVIOUS

\* A normalized key begins with a dot.
LEMMA NormalizeFacts ==
  ASSUME NEW key \in Seq(Names), key # <<>>
  PROVE  /\ normalize(key) \in Seq(Names) /\ normalize(key) # <<>>
         /\ normalize(key)[1] # ""
         /\ key[1] \in DotNames => normalize(key) = key
  <1>1. Len(key) \in Nat \ {0} /\ key[1] \in Names
    <2>1. Len(key) \in Nat \ {0}
      BY LenProperties, EmptySeq
    <2>2. QED
      BY <2>1, ElementOfSeq
  <1>0. "." \in Names /\ "" \in Names
    BY DEF Names
  <1>2. <<".">> \in Seq(Names) /\ <<"">> \in Seq(Names) /\ Len(<<".">>) = 1
    BY <1>0, ShortKeys
  <1>3. /\ <<".", "">> \in Seq(Names) /\ <<".", "">> # <<>> /\ (<<".", "">>)[1] = "."
        /\ (<<"">>)[1] = ""
    <2>1. <<".", "">> \in Seq(Names)
      BY <1>0, ShortKeys
    <2>2. <<".", "">> # <<>>
      OBVIOUS
    <2>3. (<<".", "">>)[1] = "." /\ (<<"">>)[1] = ""
      OBVIOUS
    <2>4. QED
      BY <2>1, <2>2, <2>3
  <1>4. ASSUME NEW s \in Seq(Names)
        PROVE  /\ <<".">> \o s \in Seq(Names) /\ <<".">> \o s # <<>>
               /\ (<<".">> \o s)[1] = "."
    <2>1. Len(<<".">>) = 1 /\ (<<".">>)[1] = "." /\ Len(s) \in Nat
      BY LenProperties
    <2>2. /\ <<".">> \o s \in Seq(Names) /\ Len(<<".">> \o s) = 1 + Len(s)
          /\ (<<".">> \o s)[1] = (<<".">>)[1]
      <3> DEFINE dot == <<".">>
      <3>1. dot \in Seq(Names) /\ Len(dot) = 1
        BY <1>2
      <3> HIDE DEF dot
      <3>2. /\ dot \o s \in Seq(Names) /\ Len(dot \o s) = Len(dot) + Len(s)
            /\ \A i \in 1 .. Len(dot) + Len(s) :
                  (dot \o s)[i] = IF i <= Len(dot) THEN dot[i] ELSE s[i - Len(dot)]
        BY <3>1, ConcatProperties
      <3>3. 1 \in 1 .. Len(dot) + Len(s) /\ 1 <= Len(dot)
        BY <2>1, <3>1
      <3>4. QED
        BY <3>1, <3>2, <3>3 DEF dot
    <2>3. Len(<<".">> \o s) # 0
      BY <2>1, <2>2
    <2>4. QED
      BY <2>1, <2>2, <2>3, EmptySeq
  <1>5. Tail(key) \in Seq(Names)
    BY HeadTailProperties
  <1>6. CASE key = <<"">>
    <2>0. key = <<"">> /\ key[1] \notin DotNames /\ ~(Len(key) > 1)
      <3>1. "" \in Names
        BY <1>0
      <3>2. Len(<<"">>) = 1 /\ (<<"">>)[1] = ""
        BY <3>1, ShortKeys
      <3>3. key[1] = "" /\ Len(key) = 1
        BY <1>6, <3>2
      <3>4. key[1] \notin DotNames
        BY <3>3, DotIsDotName
      <3>5. ~(Len(key) > 1)
        <4>1. Len(key) = 1
          BY <3>3
        <4>2. ASSUME NEW l, l = 1
              PROVE  ~(l > 1)
          BY <4>2
        <4>3. QED
          BY <4>1, <4>2
      <3>6. QED
        BY <1>6, <3>4, <3>5, Zenon
    <2>1. normalize(key) = <<".", "">>
      BY <2>0 DEF normalize
    <2>2. QED
      BY <1>3, <2>0, <2>1
  <1>7. CASE key # <<"">> /\ key[1] \in DotNames
    <2>1. normalize(key) = key
      BY <1>7, DotIsDotName DEF normalize
    <2>2. QED
      BY <1>7, <2>1, DotIsDotName
  <1>8. CASE key # <<"">> /\ key[1] \notin DotNames /\ key[1] = "" /\ Len(key) > 1
    <2>1. normalize(key) = <<".">> \o Tail(key)
      BY <1>8 DEF normalize
    <2>2. QED
      BY <1>4, <1>5, <1>8, <2>1
  <1>9. CASE key # <<"">> /\ key[1] \notin DotNames /\ ~(key[1] = "" /\ Len(key) > 1)
    <2>1. normalize(key) = <<".">> \o key
      BY <1>9 DEF normalize
    <2>2. QED
      BY <1>4, <1>9, <2>1
  <1>10. QED
    BY <1>6, <1>7, <1>8, <1>9

\* There is at least one token.
LEMMA TokensFacts ==
  ASSUME NEW key \in Seq(Names), key # <<>>
  PROVE  /\ TokensOf(key) \in Seq(Names) /\ TokensOf(key) # <<>>
         /\ (\A i \in DOMAIN normalize(key) : normalize(key)[i] # "")
                => TokensOf(key) = normalize(key)
  <1> DEFINE n == normalize(key)
             cut == {k \in DOMAIN n : n[k] = ""}
  <1>1. n \in Seq(Names) /\ n # <<>> /\ n[1] # ""
    BY NormalizeFacts
  <1>2. TokensOf(key) = IF cut = {} THEN n ELSE SubSeq(n, 1, Min(cut) - 1)
    BY DEF TokensOf
  <1> HIDE DEF n
  <1>3. DOMAIN n = 1 .. Len(n) /\ Len(n) \in Nat
    BY <1>1, LenProperties
  <1>4. ASSUME cut # {}
        PROVE  SubSeq(n, 1, Min(cut) - 1) \in Seq(Names) \ {<<>>}
    <2>1. cut \subseteq Nat
      <3>1. cut \subseteq DOMAIN n
        OBVIOUS
      <3> HIDE DEF cut
      <3>2. cut \subseteq 1 .. Len(n)
        BY <1>3, <3>1
      <3>3. QED
        BY <1>3, <3>2
    <2>2. \E a \in cut : \A b \in cut : a <= b
      BY <1>4, <2>1, LeastNumber
    <2>3. Min(cut) \in cut
      BY <2>2 DEF Min
    <2> DEFINE k == Min(cut) - 1
    <2>4. k \in 0 .. Len(n) /\ k # 0
      <3>1. Min(cut) \in DOMAIN n /\ n[Min(cut)] = ""
        BY <2>3
      <3>2. Min(cut) # 1
        BY <1>1, <3>1
      <3>3. Min(cut) \in 1 .. Len(n)
        BY <1>3, <3>1
      <3> HIDE DEF cut
      <3>4. QED
        BY <1>3, <3>2, <3>3
    <2> HIDE DEF k
    <2>5. Prefix(n, k) \in Seq(Names) /\ Len(Prefix(n, k)) = k
      BY <1>1, <2>4, PrefixFacts
    <2>6. Prefix(n, k) # <<>>
      BY <2>4, <2>5, EmptySeq
    <2>7. QED
      BY <2>5, <2>6 DEF Prefix, k
  <1>5. QED
    BY <1>1, <1>2, <1>4 DEF n

\* A key that begins with a dot and has no empty name is its own tokens.
LEMMA PlainKey ==
  ASSUME NEW key \in Seq(Names), key # <<>>, key[1] \in DotNames,
         \A i \in DOMAIN key : key[i] # ""
  PROVE  normalize(key) = key /\ TokensOf(key) = key
  <1>1. normalize(key) = key
    BY NormalizeFacts
  <1>2. QED
    BY <1>1, TokensFacts

-----------------------------------------------------------------------------
(* drop *)

\* The names of a path from the one at index b on.
Suffix(p, b) == SubSeq(p, b, Len(p))

LEMMA SuffixFacts ==
  ASSUME NEW S, NEW p \in Seq(S), NEW b \in 1 .. Len(p)
  PROVE  /\ Suffix(p, b) \in Seq(S) /\ Len(Suffix(p, b)) = Len(p) - b + 1
         /\ \A i \in 1 .. Len(p) - b + 1 : Suffix(p, b)[i] = p[b + i - 1]
  <1>1. Len(p) \in Nat /\ b <= Len(p) /\ b \in Nat
    BY LenProperties
  <1>2. \A i \in b .. Len(p) : p[i] \in S
    BY <1>1, ElementOfSeq
  <1>3. /\ SubSeq(p, b, Len(p)) \in Seq(S)
        /\ Len(SubSeq(p, b, Len(p))) = IF b <= Len(p) THEN Len(p) - b + 1 ELSE 0
        /\ \A i \in 1 .. Len(p) - b + 1 : SubSeq(p, b, Len(p))[i] = p[b + i - 1]
    BY <1>1, <1>2, SubSeqProperties
  <1>4. QED
    BY <1>1, <1>3 DEF Suffix

\* The last name alone, and one name more.
LEMMA SuffixLast ==
  ASSUME NEW S, NEW p \in Seq(S), NEW e \in S
  PROVE  Suffix(Append(p, e), Len(p) + 1) = Append(<<>>, e)
  <1> DEFINE q == Append(p, e)
             b == Len(p) + 1
             one == Append(<<>>, e)
  <1>1. q \in Seq(S) /\ Len(q) = b /\ q[b] = e /\ Len(p) \in Nat
    BY AppendProperties, LenProperties
  <1>2. one \in Seq(S) /\ Len(one) = 1 /\ one[1] = e
    <2>1. <<>> \in Seq(S) /\ Len(<<>>) = 0
      BY EmptySeq
    <2>2. QED
      BY <2>1, AppendProperties
  <1>3. b \in 1 .. Len(q)
    BY <1>1
  <1> HIDE DEF q, one
  <1>4. /\ Suffix(q, b) \in Seq(S) /\ Len(Suffix(q, b)) = Len(q) - b + 1
        /\ \A i \in 1 .. Len(q) - b + 1 : Suffix(q, b)[i] = q[b + i - 1]
    BY <1>1, <1>3, SuffixFacts
  <1>5. Len(Suffix(q, b)) = Len(one) /\ \A i \in 1 .. Len(one) : Suffix(q, b)[i] = one[i]
    BY <1>1, <1>2, <1>4
  <1>6. Suffix(q, b) = one
    BY <1>2, <1>4, <1>5, SeqEqual
  <1>7. QED
    BY <1>6 DEF q, one

LEMMA SuffixAppend ==
  ASSUME NEW S, NEW p \in Seq(S), NEW e \in S, NEW b \in 1 .. Len(p)
  PROVE  Suffix(Append(p, e), b) = Append(Suffix(p, b), e)
  <1> DEFINE q == Append(p, e)
             s == Suffix(p, b)
             l == Len(p)
  <1>1. /\ q \in Seq(S) /\ Len(q) = l + 1 /\ q[l + 1] = e /\ l \in Nat
        /\ \A i \in 1 .. l : q[i] = p[i]
    BY AppendProperties, LenProperties
  <1>2. /\ s \in Seq(S) /\ Len(s) = l - b + 1
        /\ \A i \in 1 .. l - b + 1 : s[i] = p[b + i - 1]
    BY SuffixFacts
  <1>3. b \in 1 .. Len(q) /\ b \in 1 .. l
    BY <1>1
  <1> HIDE DEF q, s, l
  <1>4. /\ Suffix(q, b) \in Seq(S) /\ Len(Suffix(q, b)) = Len(q) - b + 1
        /\ \A i \in 1 .. Len(q) - b + 1 : Suffix(q, b)[i] = q[b + i - 1]
    BY <1>1, <1>3, SuffixFacts
  <1>5. /\ Append(s, e) \in Seq(S) /\ Len(Append(s, e)) = Len(s) + 1
        /\ \A i \in 1 .. Len(s) : Append(s, e)[i] = s[i]
        /\ Append(s, e)[Len(s) + 1] = e
    BY <1>2, AppendProperties
  <1>6. ASSUME NEW i \in 1 .. Len(q) - b + 1
        PROVE  Suffix(q, b)[i] = Append(s, e)[i]
    <2>1. CASE i = l - b + 2
      <3>1. b + i - 1 = l + 1 /\ i = Len(s) + 1
        <4>1. l \in Int /\ b \in Int
          BY <1>1, <1>3
        <4>2. Len(s) = l - b + 1
          BY <1>2
        <4>3. QED
          BY <2>1, <4>1, <4>2
      <3>2. QED
        BY <1>1, <1>4, <1>5, <3>1
    <2>2. CASE i # l - b + 2
      <3>1. i \in 1 .. l - b + 1 /\ b + i - 1 \in 1 .. l /\ i \in 1 .. Len(s)
        BY <1>1, <1>2, <1>3, <2>2
      <3>2. QED
        BY <1>1, <1>2, <1>4, <1>5, <3>1
    <2>3. QED
      BY <2>1, <2>2
  <1>7. Len(Suffix(q, b)) = Len(Append(s, e))
    BY <1>1, <1>2, <1>3, <1>4, <1>5
  <1>8. \A i \in 1 .. Len(Suffix(q, b)) : Suffix(q, b)[i] = Append(s, e)[i]
    BY <1>4, <1>6
  <1>9. Suffix(q, b) = Append(s, e)
    BY <1>4, <1>5, <1>7, <1>8, SeqEqual
  <1>10. QED
    BY <1>9 DEF q, s

\* The path is the names before b, and those from b on.
LEMMA SuffixJoins ==
  ASSUME NEW S, NEW p \in Seq(S), NEW b \in 1 .. Len(p)
  PROVE  Front(Prefix(p, b)) \o Suffix(p, b) = p
  <1> DEFINE f == Prefix(p, b - 1)
             s == Suffix(p, b)
  <1>1. Len(p) \in Nat /\ b - 1 \in 0 .. Len(p) /\ b \in 1 .. Len(p)
    BY LenProperties
  <1>2. Front(Prefix(p, b)) = f
    <2>1. Prefix(p, b) = Append(f, p[b]) /\ p[b] \in S
      BY PrefixNext
    <2>2. f \in Seq(S)
      BY <1>1, PrefixFacts
    <2> HIDE DEF f
    <2>3. QED
      BY <2>1, <2>2, ParentOfChild
  <1>3. f \in Seq(S) /\ Len(f) = b - 1 /\ \A i \in 1 .. b - 1 : f[i] = p[i]
    BY <1>1, PrefixFacts
  <1>4. /\ s \in Seq(S) /\ Len(s) = Len(p) - b + 1
        /\ \A i \in 1 .. Len(p) - b + 1 : s[i] = p[b + i - 1]
    BY SuffixFacts
  <1> HIDE DEF f, s
  <1>5. /\ f \o s \in Seq(S) /\ Len(f \o s) = Len(f) + Len(s)
        /\ \A i \in 1 .. Len(f) + Len(s) :
              (f \o s)[i] = IF i <= Len(f) THEN f[i] ELSE s[i - Len(f)]
    BY <1>3, <1>4, ConcatProperties
  <1>6. Len(f) + Len(s) = Len(p)
    BY <1>1, <1>3, <1>4
  <1>7. ASSUME NEW i \in 1 .. Len(p)
        PROVE  (f \o s)[i] = p[i]
    <2>1. (f \o s)[i] = IF i <= Len(f) THEN f[i] ELSE s[i - Len(f)]
      BY <1>5, <1>6
    <2>2. CASE i <= Len(f)
      BY <1>1, <1>3, <2>1, <2>2
    <2>3. CASE ~(i <= Len(f))
      <3>1. i - Len(f) \in 1 .. Len(p) - b + 1 /\ b + (i - Len(f)) - 1 = i
        BY <1>1, <1>3, <2>3
      <3>2. QED
        BY <1>4, <2>1, <2>3, <3>1
    <2>4. QED
      BY <2>2, <2>3
  <1>8. f \o s = p
    BY <1>5, <1>6, <1>7, SeqEqual
  <1>9. QED
    BY <1>2, <1>8 DEF s

\* The nodes at the path p and below it.
Below(t, at, p) ==
    {n \in DOMAIN t : Len(p) <= Len(at[n]) /\ Prefix(at[n], Len(p)) = p}

\* The visit dropChildren makes to a node below a path of b names.
VisitOf(at, b, n) == [node |-> n, suffix |-> Suffix(at[n], b)]

\* A key is the name under which its parent has the node.
LEMMA ChildKey ==
  ASSUME NEW t, NEW at, IsTree(t, at), NEW m \in DOMAIN t, NEW c \in DOMAIN t[m].children,
         NEW n, n = t[m].children[c]
  PROVE  n \in DOMAIN t \ {Root} /\ c \in Names /\ at[n] = Append(at[m], c) /\ t[n].key = c
  <1>1. n \in DOMAIN t /\ c \in Names /\ at[n] = Append(at[m], c) /\ at[m] \in Seq(Names)
    BY DEF IsTree, PointersLead
  <1>2. Append(at[m], c) # <<>> /\ Last(Append(at[m], c)) = c
    BY <1>1, ParentOfChild
  <1>3. n # Root
    BY <1>1, <1>2 DEF IsTree
  <1>4. t[n].key = c
    BY <1>1, <1>2, <1>3, ZenonT(30) DEF IsTree, NodesAreReached
  <1>5. QED
    BY <1>1, <1>3, <1>4

\* A child's path goes on from its parent's.
LEMMA BelowChild ==
  ASSUME NEW t, NEW at, IsTree(t, at), NEW p \in Seq(Names), p # <<>>,
         NEW m \in DOMAIN t, NEW c \in DOMAIN t[m].children,
         NEW n, n = t[m].children[c]
  PROVE  /\ n \in DOMAIN t /\ Len(at[n]) = Len(at[m]) + 1
         /\ n \in Below(t, at, p) <=> m \in Below(t, at, p) \/ at[n] = p
         /\ m \in Below(t, at, p) => Visit(t, n, Suffix(at[m], Len(p))) = VisitOf(at, Len(p), n)
         /\ at[n] = p => Visit(t, n, <<>>) = VisitOf(at, Len(p), n)
  <1> DEFINE b == Len(p)
  <1>0. n \in DOMAIN t /\ c \in Names /\ at[n] = Append(at[m], c) /\ t[n].key = c
    BY ChildKey
  <1>1. /\ at[m] \in Seq(Names) /\ at[n] \in Seq(Names) /\ b \in Nat \ {0}
        /\ Len(at[m]) \in Nat /\ Len(at[n]) \in Nat
    BY <1>0, LenProperties, EmptySeq DEF IsTree
  <1>2. Len(at[n]) = Len(at[m]) + 1
    BY <1>0, <1>1, AppendProperties
  <1>3. CASE b <= Len(at[m])
    <2>1. b \in 0 .. Len(at[m]) /\ b \in 1 .. Len(at[m]) /\ b <= Len(at[n]) /\ b # Len(at[n])
      BY <1>1, <1>2, <1>3
    <2>2. Prefix(at[n], b) = Prefix(at[m], b)
      BY <1>0, <1>1, <2>1, PrefixOfAppend
    <2>3. Suffix(at[n], b) = Append(Suffix(at[m], b), c)
      BY <1>0, <1>1, <2>1, SuffixAppend
    <2>4. Visit(t, n, Suffix(at[m], b)) = VisitOf(at, b, n)
      BY <1>0, <2>3 DEF Visit, VisitOf
    <2>5. at[n] # p
      BY <2>1
    <2>6. QED
      BY <1>0, <1>2, <1>3, <2>1, <2>2, <2>4, <2>5 DEF Below
  <1>4. CASE ~(b <= Len(at[m]))
    <2>1. m \notin Below(t, at, p)
      BY <1>4 DEF Below
    <2>2. ASSUME n \in Below(t, at, p)
          PROVE  at[n] = p
      <3>1. b <= Len(at[n]) /\ Prefix(at[n], b) = p
        BY <2>2 DEF Below
      <3>2. b = Len(at[n])
        BY <1>1, <1>2, <1>4, <3>1
      <3>3. Len(at[n]) \in 0 .. Len(at[n])
        BY <1>1
      <3>4. Prefix(at[n], Len(at[n])) = at[n]
        BY <1>1, <3>3, PrefixFacts
      <3>5. QED
        BY <3>1, <3>2, <3>4
    <2>3. ASSUME at[n] = p
          PROVE  n \in Below(t, at, p)
      <3>1. b = Len(at[n]) /\ b <= Len(at[n]) /\ Len(at[n]) \in 0 .. Len(at[n])
        BY <1>1, <2>3
      <3>2. Prefix(at[n], Len(at[n])) = at[n]
        BY <1>1, <3>1, PrefixFacts
      <3>3. QED
        BY <1>0, <2>3, <3>1, <3>2 DEF Below
    <2>4. ASSUME at[n] = p
          PROVE  Visit(t, n, <<>>) = VisitOf(at, b, n)
      <3>1. Suffix(Append(at[m], c), Len(at[m]) + 1) = Append(<<>>, c)
        BY <1>0, <1>1, SuffixLast
      <3>2. b = Len(at[m]) + 1
        BY <1>2, <2>4
      <3>3. Suffix(at[n], b) = Append(<<>>, c)
        BY <1>0, <3>1, <3>2
      <3>4. QED
        BY <1>0, <3>3 DEF Visit, VisitOf
    <2>5. QED
      BY <1>0, <1>2, <2>1, <2>2, <2>3, <2>4
  <1>5. QED
    BY <1>3, <1>4

\* The level d of the visits is the nodes d names below the one dropped.
LEMMA VisitLevels ==
  ASSUME NEW t, NEW at, IsTree(t, at), NEW node \in DOMAIN t, node # Root,
         NEW p, p = at[node]
  PROVE  \A d \in Depths(t) :
            VisitsAt(t, node, <<>>)[d] =
                {VisitOf(at, Len(p), n) :
                    n \in {m \in Below(t, at, p) : Len(at[m]) = Len(p) + d}}
  <1> DEFINE b == Len(p)
             At(d) == {m \in Below(t, at, p) : Len(at[m]) = b + d}
             Level(d) == {VisitOf(at, b, n) : n \in At(d)}
             visits == VisitsAt(t, node, <<>>)
             Bad == {d \in Depths(t) : visits[d] # Level(d)}
  <1>1. PICK up \in DOMAIN t : /\ t[node].key \in DOMAIN t[up].children
                               /\ t[up].children[t[node].key] = node
                               /\ at[node] = Append(at[up], t[node].key)
                               /\ t[node].key \in Names
    BY ParentOf
  <1>2. \A m \in DOMAIN t : at[m] \in Seq(Names) /\ Len(at[m]) \in Nat
    BY LenProperties DEF IsTree
  <1>3. p \in Seq(Names) /\ p # <<>> /\ b \in Nat \ {0}
    <2>1. at[up] \in Seq(Names)
      BY <1>2
    <2>2. p \in Seq(Names) /\ p # <<>>
      BY <1>1, <2>1, AppendProperties
    <2>3. QED
      BY <2>2, EmptySeq
  <1>4. Depths(t) \subseteq Nat /\ IsFiniteSet(DOMAIN t)
    BY FS_CardinalityType DEF IsTree, IsHeap, Depths
  <1>5. /\ visits[0] = {Visit(t, node, <<>>)}
        /\ \A d \in Depths(t) \ {0} : visits[d] = VisitsFrom(t, visits[d - 1])
    <2>1. IsFiniteSet(DOMAIN t)
      BY <1>4
    <2>2. QED
      BY <2>1, VisitsDef
  <1> HIDE DEF visits
  <1>6. /\ node \in Below(t, at, p)
        /\ Visit(t, node, <<>>) = VisitOf(at, b, node)
    <2>1. /\ node \in Below(t, at, p) <=> up \in Below(t, at, p) \/ at[node] = p
          /\ at[node] = p => Visit(t, node, <<>>) = VisitOf(at, Len(p), node)
      <3>1. t[node].key \in DOMAIN t[up].children /\ node = t[up].children[t[node].key]
        BY <1>1
      <3>2. p \in Seq(Names) /\ p # <<>>
        BY <1>3
      <3>3. QED
        BY <3>1, <3>2, BelowChild
    <2>2. QED
      BY <2>1
  <1>7. At(0) = {node}
    <2>1. ASSUME NEW n \in At(0)
          PROVE  n = node
      <3>1. n \in DOMAIN t /\ Prefix(at[n], b) = p /\ Len(at[n]) = b
        BY <1>3, <2>1 DEF Below
      <3>2. Len(at[n]) \in 0 .. Len(at[n])
        BY <1>2, <3>1
      <3>3. Prefix(at[n], Len(at[n])) = at[n]
        BY <1>2, <3>1, <3>2, PrefixFacts
      <3>4. at[n] = at[node]
        BY <3>1, <3>3
      <3>5. QED
        BY <3>1, <3>4 DEF IsTree
    <2>2. Len(at[node]) = b + 0
      BY <1>3
    <2>3. node \in At(0)
      BY <1>6, <2>2
    <2> HIDE DEF At
    <2>4. QED
      BY <2>1, <2>3
  <1>8. ASSUME NEW d \in Depths(t), d # 0, visits[d - 1] = Level(d - 1)
        PROVE  visits[d] = Level(d)
    <2>0. d \in Nat \ {0}
      BY <1>4, <1>8
    <2>1. visits[d] = UNION {VisitChildren(t, visit) : visit \in Level(d - 1)}
      BY <1>5, <1>8 DEF VisitsFrom
    <2>2. ASSUME NEW v \in visits[d]
          PROVE  v \in Level(d)
      <3>1. PICK m \in At(d - 1) : v \in VisitChildren(t, VisitOf(at, b, m))
        BY <2>1
      <3>2. PICK c \in DOMAIN t[m].children :
                v = Visit(t, t[m].children[c], Suffix(at[m], b))
        BY <3>1 DEF VisitChildren, VisitOf
      <3> DEFINE n == t[m].children[c]
      <3>3. m \in DOMAIN t /\ m \in Below(t, at, p) /\ Len(at[m]) = b + (d - 1)
        BY <3>1 DEF Below
      <3>4. v = Visit(t, n, Suffix(at[m], b)) /\ n = t[m].children[c]
        BY <3>2
      <3> HIDE DEF n
      <3>5. /\ Len(at[n]) = Len(at[m]) + 1 /\ n \in Below(t, at, p)
            /\ v = VisitOf(at, b, n)
        <4>1. /\ n \in DOMAIN t /\ Len(at[n]) = Len(at[m]) + 1
              /\ n \in Below(t, at, p) <=> m \in Below(t, at, p) \/ at[n] = p
              /\ m \in Below(t, at, p)
                    => Visit(t, n, Suffix(at[m], Len(p))) = VisitOf(at, Len(p), n)
          BY <1>3, <3>3, <3>4, BelowChild
        <4>2. QED
          BY <3>3, <3>4, <4>1
      <3>6. Len(at[n]) = b + d
        BY <1>3, <2>0, <3>3, <3>5
      <3>7. QED
        BY <3>5, <3>6
    <2>3. ASSUME NEW v \in Level(d)
          PROVE  v \in visits[d]
      <3>1. PICK n \in At(d) : v = VisitOf(at, b, n)
        BY <2>3
      <3>2. n \in DOMAIN t /\ n \in Below(t, at, p) /\ Len(at[n]) = b + d
        BY <3>1 DEF Below
      <3>3. n # Root /\ at[n] # p
        <4>1. Len(at[n]) # 0 /\ Len(at[n]) # b
          BY <1>3, <2>0, <3>2
        <4>2. at[Root] = <<>> /\ Len(<<>>) = 0
          BY EmptySeq DEF IsTree
        <4>3. QED
          BY <4>1, <4>2
      <3>4. PICK m \in DOMAIN t : /\ t[n].key \in DOMAIN t[m].children
                                  /\ t[m].children[t[n].key] = n
        BY <3>2, <3>3, ParentOf
      <3>5. /\ Len(at[n]) = Len(at[m]) + 1 /\ m \in Below(t, at, p)
            /\ Visit(t, n, Suffix(at[m], b)) = VisitOf(at, b, n)
        <4>1. /\ Len(at[n]) = Len(at[m]) + 1
              /\ n \in Below(t, at, p) <=> m \in Below(t, at, p) \/ at[n] = p
              /\ m \in Below(t, at, p)
                    => Visit(t, n, Suffix(at[m], Len(p))) = VisitOf(at, Len(p), n)
          BY <1>3, <3>4, BelowChild
        <4>2. QED
          BY <3>2, <3>3, <4>1
      <3>6. Len(at[m]) = b + (d - 1)
        <4>1. Len(at[m]) \in Nat
          BY <1>2
        <4>2. Len(at[m]) + 1 = b + d
          BY <3>2, <3>5
        <4>3. QED
          BY <1>3, <2>0, <4>1, <4>2
      <3>7. VisitOf(at, b, m) \in Level(d - 1)
        BY <3>5, <3>6
      <3>8. v \in VisitChildren(t, VisitOf(at, b, m))
        <4>1. v = Visit(t, n, Suffix(at[m], b))
          BY <3>1, <3>5
        <4>2. VisitOf(at, b, m).node = m /\ VisitOf(at, b, m).suffix = Suffix(at[m], b)
          BY DEF VisitOf
        <4>3. QED
          BY <3>4, <4>1, <4>2 DEF VisitChildren
      <3> HIDE DEF Level
      <3>9. QED
        BY <2>1, <3>7, <3>8
    <2> HIDE DEF Level
    <2>4. visits[d] \subseteq Level(d) /\ Level(d) \subseteq visits[d]
      BY <2>2, <2>3
    <2>5. QED
      BY <2>4
  <1>9. Bad = {}
    <2> SUFFICES ASSUME Bad # {} PROVE FALSE
      OBVIOUS
    <2>1. Bad \subseteq Nat
      BY <1>4
    <2>2. PICK d \in Bad : \A m \in Bad : d <= m
      BY <2>1, LeastNumber
    <2>3. d \in Depths(t) /\ d \in Nat /\ visits[d] # Level(d)
      BY <1>4, <2>2
    <2>4. CASE d = 0
      <3>1. visits[0] = {VisitOf(at, b, node)}
        BY <1>5, <1>6
      <3>2. Level(0) = {VisitOf(at, b, node)}
        BY <1>7
      <3>3. QED
        BY <2>3, <2>4, <3>1, <3>2
    <2>5. CASE d # 0
      <3>1. d - 1 \in Depths(t) /\ ~(d <= d - 1)
        <4>1. Cardinality(DOMAIN t) \in Nat
          BY <1>4, FS_CardinalityType
        <4>2. QED
          BY <2>3, <2>5, <4>1 DEF Depths
      <3>2. visits[d - 1] = Level(d - 1)
        BY <2>2, <3>1
      <3>3. QED
        BY <1>8, <2>3, <2>5, <3>2
    <2>6. QED
      BY <2>4, <2>5
  <1>10. ASSUME NEW d \in Depths(t)
         PROVE  visits[d] = Level(d)
    BY <1>9
  <1>11. QED
    BY <1>10 DEF visits

\* dropChildren visits every node below, and no other.
LEMMA VisitsBelow ==
  ASSUME NEW t, NEW at, IsTree(t, at), NEW node \in DOMAIN t, node # Root,
         NEW p, p = at[node]
  PROVE  dropChildren(t, node, <<>>) = {VisitOf(at, Len(p), n) : n \in Below(t, at, p)}
  <1> DEFINE b == Len(p)
             visits == VisitsAt(t, node, <<>>)
             Level(d) == {VisitOf(at, b, n) : n \in {m \in Below(t, at, p) : Len(at[m]) = b + d}}
             all == {VisitOf(at, b, n) : n \in Below(t, at, p)}
  <1>1. \A d \in Depths(t) : visits[d] = Level(d)
    BY VisitLevels
  <1>2. dropChildren(t, node, <<>>) = UNION {visits[d] : d \in Depths(t)}
    BY DEF dropChildren
  <1> HIDE DEF visits
  <1>3. UNION {visits[d] : d \in Depths(t)} = UNION {Level(d) : d \in Depths(t)}
    BY <1>1
  <1>4. UNION {Level(d) : d \in Depths(t)} \subseteq all
    OBVIOUS
  <1>5. ASSUME NEW n \in Below(t, at, p)
        PROVE  VisitOf(at, b, n) \in UNION {Level(d) : d \in Depths(t)}
    <2> DEFINE d == Len(at[n]) - b
    <2>1. n \in DOMAIN t /\ b <= Len(at[n])
      BY DEF Below
    <2>2. Len(at[n]) \in Nat /\ b \in Nat
      BY <2>1, LenProperties DEF IsTree
    <2>3. Len(at[n]) \in Depths(t) /\ Cardinality(DOMAIN t) \in Nat
      BY <2>1, DepthBound, FS_CardinalityType DEF IsTree, IsHeap
    <2>4. d \in Depths(t) /\ Len(at[n]) = b + d
      <3> DEFINE l == Len(at[n])
      <3>1. l \in 0 .. Cardinality(DOMAIN t) /\ b <= l /\ l \in Nat
        BY <2>1, <2>2, <2>3 DEF Depths
      <3> HIDE DEF l, b
      <3>2. l - b \in 0 .. Cardinality(DOMAIN t) /\ l = b + (l - b)
        BY <2>2, <2>3, <3>1
      <3>3. QED
        BY <3>2 DEF Depths, l
    <2> HIDE DEF d
    <2>5. VisitOf(at, b, n) \in Level(d)
      BY <2>4
    <2> HIDE DEF Level
    <2>6. QED
      BY <2>4, <2>5
  <1>6. all \subseteq UNION {Level(d) : d \in Depths(t)}
    BY <1>5
  <1> HIDE DEF all, Level
  <1>7. UNION {Level(d) : d \in Depths(t)} = all
    BY <1>4, <1>6
  <1>8. QED
    BY <1>2, <1>3, <1>7 DEF all

\* What drop does to a tree with paths at: the path p, and all below it, are gone.
PathRemoved(t, at, u, p) ==
    LET kept == DOMAIN t \ Below(t, at, p)
    IN  /\ IsTree(u, [n \in kept |-> at[n]])
        /\ DOMAIN u = kept
        /\ \A n \in kept : u[n].data = t[n].data

\* The call of the DropCbk for a node below the path of a key.
DropCall(t, at, key, n) ==
    [path |-> CbkPath(key, Suffix(at[n], Len(TokensOf(key)))), data |-> t[n].data]

\* The node leaves its parent, and the nodes of a set the tree.
CutOff(t, gone, parent, name) ==
    [m \in DOMAIN t \ gone |->
        IF m = parent
        THEN [t[m] EXCEPT !.children = [c \in DOMAIN @ \ {name} |-> @[c]]]
        ELSE t[m]]

LEMMA CutOffIsTree ==
  ASSUME NEW t, NEW at, IsTree(t, at), NEW up \in DOMAIN t, NEW name \in DOMAIN t[up].children,
         NEW node, node = t[up].children[name], NEW p, p = at[node],
         NEW u, u = CutOff(t, Below(t, at, p), up, name)
  PROVE  PathRemoved(t, at, u, p)
  <1> DEFINE gone == Below(t, at, p)
             kept == DOMAIN t \ gone
             bt == [n \in kept |-> at[n]]
  <1>1. /\ node \in DOMAIN t \ {Root} /\ name \in Names /\ at[node] = Append(at[up], name)
        /\ at[up] \in Seq(Names)
    BY ChildKey DEF IsTree
  <1>2. p \in Seq(Names) /\ p # <<>> /\ Len(p) \in Nat \ {0} /\ Len(p) = Len(at[up]) + 1
    <2>1. p \in Seq(Names) /\ p # <<>> /\ Len(p) = Len(at[up]) + 1
      BY <1>1, AppendProperties
    <2>2. QED
      BY <2>1, EmptySeq
  <1>3. ASSUME NEW m \in DOMAIN t, NEW c \in DOMAIN t[m].children, NEW n, n = t[m].children[c]
        PROVE  /\ n \in DOMAIN t
               /\ n \in gone <=> m \in gone \/ n = node
    <2>1. n \in DOMAIN t /\ (n \in gone <=> m \in gone \/ at[n] = p)
      <3>1. p \in Seq(Names) /\ p # <<>>
        BY <1>2
      <3>2. QED
        BY <1>3, <3>1, BelowChild
    <2>2. at[n] = p <=> n = node
      BY <1>1, <2>1 DEF IsTree
    <2>3. QED
      BY <2>1, <2>2
  <1>4. up \notin gone /\ node \in gone /\ Root \in kept
    <2>1. Len(at[up]) \in Nat
      BY <1>1, LenProperties
    <2>2. up \notin gone
      BY <1>2, <2>1 DEF Below
    <2>3. Root \in DOMAIN t /\ at[Root] = <<>> /\ Len(<<>>) = 0
      BY EmptySeq DEF IsTree, IsHeap
    <2>4. Root \notin gone
      BY <1>2, <2>3 DEF Below
    <2>5. QED
      BY <1>3, <2>2, <2>3, <2>4
  <1> HIDE DEF gone
  <1>5. /\ u = [m \in kept |-> u[m]] /\ DOMAIN u = kept
        /\ \A m \in kept \ {up} : u[m] = t[m]
        /\ u[up] = [key |-> t[up].key, data |-> t[up].data,
                    children |-> [c \in DOMAIN t[up].children \ {name} |-> t[up].children[c]]]
    <2>1. u = [m \in kept |->
                 IF m = up
                 THEN [t[m] EXCEPT !.children =
                         [c \in DOMAIN t[m].children \ {name} |-> t[m].children[c]]]
                 ELSE t[m]]
      BY DEF CutOff, gone
    <2>2. t[up] = [key |-> t[up].key, data |-> t[up].data, children |-> t[up].children]
      BY DEF IsTree, IsHeap, IsNode
    <2>3. \A f : [t[up] EXCEPT !.children = f]
                    = [key |-> t[up].key, data |-> t[up].data, children |-> f]
      BY <2>2
    <2>4. up \in kept
      BY <1>4
    <2>5. u[up] = [t[up] EXCEPT !.children =
                      [c \in DOMAIN t[up].children \ {name} |-> t[up].children[c]]]
      BY <2>1, <2>4
    <2>6. /\ u = [m \in kept |-> u[m]] /\ DOMAIN u = kept
          /\ \A m \in kept \ {up} : u[m] = t[m]
      BY <2>1
    <2>7. QED
      BY <2>3, <2>5, <2>6
  <1>6. /\ \A m \in kept : u[m].key = t[m].key /\ u[m].data = t[m].data
        /\ \A m \in kept \ {up} : u[m].children = t[m].children
        /\ u[up].children = [c \in DOMAIN t[up].children \ {name} |-> t[up].children[c]]
    BY <1>5, SMTT(30)
  <1>7. \A m \in kept : \A c :
            c \in DOMAIN u[m].children <=> /\ c \in DOMAIN t[m].children
                                           /\ ~(m = up /\ c = name)
    BY <1>6
  <1>8. \A m \in kept : \A c \in DOMAIN u[m].children : u[m].children[c] = t[m].children[c]
    BY <1>6
  <1>9. ASSUME NEW m \in DOMAIN t, NEW c \in DOMAIN t[m].children, t[m].children[c] = node
        PROVE  m = up /\ c = name
    <2>1. c \in Names /\ at[node] = Append(at[m], c) /\ at[m] \in Seq(Names)
      BY <1>9, ChildKey, SMTT(30) DEF IsTree
    <2>2. /\ Front(Append(at[m], c)) = at[m] /\ Last(Append(at[m], c)) = c
          /\ Front(Append(at[up], name)) = at[up] /\ Last(Append(at[up], name)) = name
      <3>1. c \in Names /\ at[m] \in Seq(Names) /\ name \in Names /\ at[up] \in Seq(Names)
        BY <1>1, <2>1
      <3>2. QED
        BY <3>1, ParentOfChild
    <2>3. at[m] = at[up] /\ c = name
      BY <1>1, <2>1, <2>2
    <2>4. QED
      BY <2>3 DEF IsTree
  <1>10. IsHeap(u)
    <2>1. IsFiniteSet(DOMAIN u)
      <3>1. IsFiniteSet(DOMAIN t) /\ DOMAIN u \subseteq DOMAIN t
        BY <1>5 DEF IsTree, IsHeap
      <3>2. QED
        BY <3>1, FS_Subset
    <2>2. IsNode(u[up])
      BY <1>5, <1>6 DEF IsNode
    <2>3. \A n \in DOMAIN u : IsNode(u[n])
      BY <1>5, <2>2 DEF IsTree, IsHeap
    <2>4. DOMAIN u \subseteq Nat /\ Root \in DOMAIN u /\ u = [m \in DOMAIN u |-> u[m]]
      BY <1>4, <1>5 DEF IsTree, IsHeap
    <2>5. QED
      BY <2>1, <2>3, <2>4 DEF IsHeap
  <1>11. /\ bt \in [DOMAIN u -> Seq(Names)] /\ bt[Root] = <<>>
         /\ \A m, n \in DOMAIN u : bt[m] = bt[n] => m = n
         /\ \A m \in DOMAIN u : bt[m] = at[m]
    BY <1>4, <1>5 DEF IsTree
  <1> HIDE DEF bt
  <1>12. PointersLead(u, bt)
    <2> SUFFICES ASSUME NEW m \in DOMAIN u, NEW c \in DOMAIN u[m].children
                 PROVE  /\ c \in Names /\ u[m].children[c] \in DOMAIN u
                        /\ bt[u[m].children[c]] = Append(bt[m], c)
      BY DEF PointersLead
    <2> DEFINE n == t[m].children[c]
    <2>1. m \in kept /\ m \in DOMAIN t /\ m \notin gone
      BY <1>5
    <2>2. c \in DOMAIN t[m].children /\ ~(m = up /\ c = name) /\ u[m].children[c] = n
      BY <1>7, <1>8, <2>1
    <2>3. c \in Names /\ n \in DOMAIN t /\ at[n] = Append(at[m], c)
      BY <2>1, <2>2 DEF IsTree, PointersLead
    <2>4. n # node
      BY <1>9, <2>1, <2>2
    <2>5. n \notin gone
      BY <1>3, <2>1, <2>2, <2>4
    <2> HIDE DEF n
    <2>6. n \in DOMAIN u
      BY <1>5, <2>3, <2>5
    <2>7. QED
      BY <1>11, <2>2, <2>3, <2>6
  <1>13. NodesAreReached(u, bt)
    <2> SUFFICES ASSUME NEW n \in DOMAIN u \ {Root}
                 PROVE  /\ u[n].key = Last(bt[n])
                        /\ \E m \in DOMAIN u : /\ u[n].key \in DOMAIN u[m].children
                                               /\ u[m].children[u[n].key] = n
      BY DEF NodesAreReached
    <2>1. n \in kept /\ n \in DOMAIN t \ {Root} /\ n \notin gone
      BY <1>5
    <2>2. t[n].key = Last(at[n])
      BY <2>1 DEF IsTree, NodesAreReached
    <2>3. PICK m \in DOMAIN t : t[n].key \in DOMAIN t[m].children /\ t[m].children[t[n].key] = n
      BY <2>1 DEF IsTree, NodesAreReached
    <2>4. m \notin gone
      BY <1>3, <2>1, <2>3
    <2>5. ~(m = up /\ t[n].key = name)
      BY <1>4, <2>1, <2>3
    <2>6. m \in kept
      BY <2>4
    <2>7. t[n].key \in DOMAIN u[m].children /\ u[m].children[t[n].key] = n
      BY <1>7, <1>8, <2>3, <2>5, <2>6
    <2>8. u[n].key = t[n].key /\ bt[n] = at[n] /\ m \in DOMAIN u
      BY <1>5, <1>6, <1>11, <2>1, <2>6
    <2>9. QED
      BY <2>2, <2>7, <2>8
  <1>14. IsTree(u, bt)
    BY <1>10, <1>11, <1>12, <1>13 DEF IsTree
  <1>15. QED
    BY <1>5, <1>6, <1>14 DEF PathRemoved, bt, gone

\* The node of a path is there if anything is at or below it.
LEMMA BelowNothing ==
  ASSUME NEW t, NEW at, IsTree(t, at), NEW p \in Seq(Names), \A n \in DOMAIN t : at[n] # p
  PROVE  Below(t, at, p) = {}
  <1> SUFFICES ASSUME NEW n \in Below(t, at, p) PROVE FALSE
    OBVIOUS
  <1>1. n \in DOMAIN t /\ Len(p) <= Len(at[n]) /\ Prefix(at[n], Len(p)) = p
    BY DEF Below
  <1>2. Len(p) \in 0 .. Len(at[n])
    BY <1>1, LenProperties DEF IsTree
  <1>3. QED
    BY <1>1, <1>2, PrefixClosed

LEMMA DropMeans ==
  ASSUME NEW t, NEW at, IsTree(t, at), NEW key, NEW p \in Seq(Names), p # <<>>,
         p = TokensOf(key)
  PROVE  /\ PathRemoved(t, at, drop(t, key).tree, p)
         /\ drop(t, key).calls = {DropCall(t, at, key, n) : n \in Below(t, at, p)}
  <1> DEFINE node == NodeAt(t, p)
             parent == NodeAt(t, Front(p))
             gone == dropChildren(t, node, <<>>)
             nodes == {g.node : g \in gone}
             calls == {[path |-> CbkPath(key, g.suffix), data |-> t[g.node].data] : g \in gone}
  <1>1. CASE \A n \in DOMAIN t : at[n] # p
    <2>1. node = NULL
      BY <1>1, NodeAtFinds
    <2> HIDE DEF node
    <2>2. drop(t, key) = [tree |-> t, calls |-> {}]
      BY <2>1 DEF drop, node
    <2>3. Below(t, at, p) = {}
      BY <1>1, BelowNothing
    <2>4. [n \in DOMAIN t \ {} |-> at[n]] = at
      BY DEF IsTree
    <2>5. drop(t, key).tree = t /\ drop(t, key).calls = {}
      BY <2>2
    <2>6. DOMAIN t \ {} = DOMAIN t
      OBVIOUS
    <2>7. PathRemoved(t, at, t, p)
      BY <2>3, <2>4, <2>6 DEF PathRemoved
    <2>8. QED
      BY <2>3, <2>5, <2>7
  <1>2. CASE \E n \in DOMAIN t : at[n] = p
    <2>1. PICK n \in DOMAIN t : at[n] = p
      BY <1>2
    <2>2. node = n /\ n # NULL /\ n # Root
      <3>1. node = n
        BY <2>1, NodeAtFinds
      <3>2. n \in Nat
        BY <2>1 DEF IsTree, IsHeap
      <3>3. n # Root
        BY <2>1 DEF IsTree
      <3>4. QED
        BY <3>1, <3>2, <3>3, NullIsNoAddress
    <2>3. PICK up \in DOMAIN t : /\ t[n].key \in DOMAIN t[up].children
                                 /\ t[up].children[t[n].key] = n
                                 /\ at[n] = Append(at[up], t[n].key)
                                 /\ t[n].key \in Names /\ at[up] \in Seq(Names)
      BY <2>2, ParentOf
    <2>4. parent = up
      <3>1. Front(Append(at[up], t[n].key)) = at[up]
        BY <2>3, ParentOfChild
      <3>2. Front(p) = at[up]
        BY <2>1, <2>3, <3>1
      <3>3. NodeAt(t, at[up]) = up
        BY <2>3, NodeAtFinds
      <3>4. QED
        BY <3>2, <3>3
    <2>5. gone = {VisitOf(at, Len(p), m) : m \in Below(t, at, p)}
      <3>1. dropChildren(t, n, <<>>) = {VisitOf(at, Len(p), m) : m \in Below(t, at, p)}
        BY <2>1, <2>2, VisitsBelow
      <3>2. QED
        BY <2>2, <3>1
    <2> HIDE DEF node, parent, gone
    <2>6. nodes = Below(t, at, p)
      <3>1. \A m : VisitOf(at, Len(p), m).node = m
        BY DEF VisitOf
      <3>2. nodes = {VisitOf(at, Len(p), m).node : m \in Below(t, at, p)}
        BY <2>5
      <3>3. QED
        BY <3>1, <3>2
    <2>7. calls = {DropCall(t, at, key, m) : m \in Below(t, at, p)}
      <3>1. \A m : /\ VisitOf(at, Len(p), m).node = m
                   /\ VisitOf(at, Len(p), m).suffix = Suffix(at[m], Len(p))
        BY DEF VisitOf
      <3>2. calls = {[path |-> CbkPath(key, VisitOf(at, Len(p), m).suffix),
                      data |-> t[VisitOf(at, Len(p), m).node].data] : m \in Below(t, at, p)}
        BY <2>5
      <3>3. QED
        BY <3>1, <3>2 DEF DropCall
    <2>8. drop(t, key) = [tree  |-> CutOff(t, nodes, parent, t[node].key), calls |-> calls]
      BY <2>2 DEF drop, CutOff, node, parent, gone
    <2> HIDE DEF nodes, calls
    <2>9. /\ drop(t, key).tree = CutOff(t, Below(t, at, p), up, t[n].key)
          /\ drop(t, key).calls = calls
      <3>1. /\ drop(t, key).tree = CutOff(t, nodes, parent, t[node].key)
            /\ drop(t, key).calls = calls
        BY <2>8
      <3>2. QED
        BY <2>2, <2>4, <2>6, <3>1
    <2>10. t[n].key \in DOMAIN t[up].children /\ n = t[up].children[t[n].key] /\ p = at[n]
      BY <2>1, <2>3
    <2>11. PathRemoved(t, at, drop(t, key).tree, p)
      BY <2>9, <2>10, CutOffIsTree
    <2>12. QED
      BY <2>7, <2>9, <2>11
  <1>3. QED
    BY <1>1, <1>2
-----------------------------------------------------------------------------
(* A DirTree in use *)

\* A key is a string split at its slashes: it has at least one name.
StringKeys == Keys \cup Probes \subseteq Seq(STRING) \ {<<>>}

LEMMA KeyNames ==
  ASSUME StringKeys, NEW key \in Keys \cup Probes
  PROVE  /\ key \in Seq(Names) /\ key # <<>>
         /\ TokensOf(key) \in Seq(Names) /\ TokensOf(key) # <<>>
<1>1. key \in Seq(STRING) /\ key # <<>>
  BY DEF StringKeys
<1>2. key \in Seq(Names)
  BY <1>1, SeqMonotonic DEF Names
<1> QED
  BY <1>1, <1>2, TokensFacts

TreeInv == \E at : IsTree(heap, at)

LEMMA TreeInvInit == TreeInit => TreeInv
<1> SUFFICES ASSUME TreeInit PROVE TreeInv
  OBVIOUS
<1>1. heap = NewTree
  BY DEF TreeInit
<1> QED
  BY <1>1, NewTreeIsTree DEF TreeInv

LEMMA TreeInvNext ==
  ASSUME StringKeys, TreeInv, [TreeNext]_heap
  PROVE  TreeInv'
<1>1. PICK at : IsTree(heap, at)
  BY DEF TreeInv
<1>2. ASSUME NEW key \in Keys, Drop(key) PROVE TreeInv'
  <2>1. heap' = drop(heap, key).tree
    BY <1>2 DEF Drop
  <2>2. TokensOf(key) \in Seq(Names) /\ TokensOf(key) # <<>>
    BY KeyNames
  <2>3. PathRemoved(heap, at, drop(heap, key).tree, TokensOf(key))
    BY <1>1, <2>2, DropMeans
  <2>4. \E bt : IsTree(drop(heap, key).tree, bt)
    BY <2>3 DEF PathRemoved
  <2> QED
    BY <2>1, <2>4 DEF TreeInv
<1>3. ASSUME NEW key \in Keys, NEW data \in Data, Insert(key, data) PROVE TreeInv'
  <2>1. heap' = insert(heap, key, data)
    BY <1>3 DEF Insert
  <2>2. TokensOf(key) \in Seq(Names)
    BY KeyNames
  <2>3. \E bt, end : PathAdded(heap, at, insert(heap, key, data), bt, TokensOf(key), end, data)
    BY <1>1, <2>2, InsertMeans
  <2>4. \E bt : IsTree(insert(heap, key, data), bt)
    BY <2>3 DEF PathAdded
  <2> QED
    BY <2>1, <2>4 DEF TreeInv
<1>4. CASE UNCHANGED heap
  BY <1>1, <1>4 DEF TreeInv
<1> QED
  BY <1>2, <1>3, <1>4 DEF TreeNext

LEMMA TreeInvShape == TreeInv => TreeShape
<1> SUFFICES ASSUME TreeInv PROVE TreeShape
  OBVIOUS
<1>1. PICK at : IsTree(heap, at)
  BY DEF TreeInv
<1>2. ASSUME NEW m \in DOMAIN heap, NEW c \in DOMAIN heap[m].children
      PROVE  heap[m].children[c] \in DOMAIN heap \ {Root}
  BY <1>1, ChildKey
<1>3. ASSUME NEW n \in DOMAIN heap, n # Root
      PROVE  \E m \in DOMAIN heap : PointersTo(n) = {<<m, heap[n].key>>}
  <2>1. PICK m \in DOMAIN heap : /\ heap[n].key \in DOMAIN heap[m].children
                             /\ heap[m].children[heap[n].key] = n
                             /\ at[n] = Append(at[m], heap[n].key)
                             /\ heap[n].key \in Names /\ at[m] \in Seq(Names)
    BY <1>1, <1>3, ParentOf
  <2>2. ASSUME NEW k \in DOMAIN heap, NEW c \in DOMAIN heap[k].children, heap[k].children[c] = n
        PROVE  k = m /\ c = heap[n].key
    <3>1. c \in Names /\ at[n] = Append(at[k], c) /\ heap[n].key = c
      BY <1>1, <2>2, ChildKey
    <3>2. at[k] \in Seq(Names)
      BY <1>1 DEF IsTree
    <3>3. Front(at[n]) = at[k]
      BY <3>1, <3>2, ParentOfChild
    <3>4. Front(at[n]) = at[m]
      BY <2>1, ParentOfChild
    <3> QED
      BY <1>1, <3>1, <3>3, <3>4 DEF IsTree
  <2>3. PointersTo(n) = {<<m, heap[n].key>>}
    BY <2>1, <2>2 DEF PointersTo
  <2> QED
    BY <2>3
<1> QED
  BY <1>2, <1>3 DEF TreeShape

\* The heap of a DirTree is a tree, without leaks or dangling pointers, whatever keys
\* it is used with.
THEOREM TreeShaped ==
  ASSUME StringKeys
  PROVE  TreeSpec => []TreeShape
<1>1. TreeInv /\ [TreeNext]_heap => TreeInv'
  BY TreeInvNext
<1> QED
  BY <1>1, TreeInvInit, TreeInvShape, PTL DEF TreeSpec
-----------------------------------------------------------------------------
(* The paths that are read off the tree *)

\* The paths one name longer than those given.
Longer(t, paths) == UNION {{Append(p, c) : c \in DOMAIN t[NodeAt(t, p)].children} : p \in paths}

\* The paths of a tree, level by level, and the data stored at each.
LevelsOf(t) ==
    LET paths[d \in Depths(t)] == IF d = 0 THEN {<<>>} ELSE Longer(t, paths[d - 1])
    IN  paths
PathsOf(t) == UNION {LevelsOf(t)[d] : d \in Depths(t)}
ContentOf(t) == [p \in PathsOf(t) |-> t[NodeAt(t, p)].data]

LEMMA LevelsDef ==
  ASSUME NEW t, IsFiniteSet(DOMAIN t)
  PROVE  /\ LevelsOf(t)[0] = {<<>>}
         /\ \A d \in Depths(t) \ {0} : LevelsOf(t)[d] = Longer(t, LevelsOf(t)[d - 1])
  <1> DEFINE Deeper(L) == Longer(t, L)
             Good(n, f) == f = [d \in 0 .. n |-> IF d = 0 THEN {<<>>} ELSE Deeper(f[d - 1])]
             Bad == {n \in Nat : ~ \E f : Good(n, f)}
  <1>1. Cardinality(DOMAIN t) \in Nat
    BY FS_CardinalityType
  <1> HIDE DEF Deeper
  <1>2. Bad = {}
    <2> SUFFICES ASSUME Bad # {} PROVE FALSE
      OBVIOUS
    <2>1. PICK n \in Bad : \A m \in Bad : n <= m
      BY LeastNumber
    <2>2. CASE n = 0
      <3>1. Good(0, [k \in 0 .. 0 |-> {<<>>}])
        OBVIOUS
      <3>2. QED
        BY <2>2, <3>1
    <2>3. CASE n # 0
      <3>0. n \in Nat \ {0}
        BY <2>1, <2>3
      <3>1. n - 1 \in Nat /\ n - 1 \notin Bad
        <4>1. n - 1 \in Nat /\ ~(n <= n - 1)
          BY <3>0
        <4>2. QED
          BY <2>1, <4>1
      <3>2. PICK f : Good(n - 1, f)
        BY <3>1
      <3> DEFINE g == [k \in 0 .. n |-> IF k = n THEN Deeper(f[n - 1]) ELSE f[k]]
      <3>3. ASSUME NEW k \in 0 .. n
            PROVE  g[k] = IF k = 0 THEN {<<>>} ELSE Deeper(g[k - 1])
        <4>1. CASE k = n
          BY <2>3, <3>1, <4>1
        <4>2. CASE k # n
          <5>1. k \in 0 .. n - 1 /\ (k # 0 => k - 1 \in 0 .. n /\ k - 1 # n)
            BY <3>1, <4>2
          <5>2. f[k] = IF k = 0 THEN {<<>>} ELSE Deeper(f[k - 1])
            BY <3>2, <5>1
          <5>3. QED
            BY <4>2, <5>1, <5>2
        <4>3. QED
          BY <4>1, <4>2
      <3>4. Good(n, g)
        BY <3>3
      <3>5. QED
        BY <3>4
    <2>4. QED
      BY <2>2, <2>3
  <1>3. \E f : Good(Cardinality(DOMAIN t), f)
    BY <1>1, <1>2
  <1>4. LevelsOf(t) = CHOOSE f : Good(Cardinality(DOMAIN t), f)
    BY DEF LevelsOf, Depths, Deeper
  <1>5. Good(Cardinality(DOMAIN t), LevelsOf(t))
    BY <1>3, <1>4
  <1>6. \A d \in Depths(t) :
            LevelsOf(t)[d] = IF d = 0 THEN {<<>>} ELSE Deeper(LevelsOf(t)[d - 1])
    BY <1>5 DEF Depths
  <1>7. 0 \in Depths(t)
    BY <1>1 DEF Depths
  <1>8. QED
    BY <1>6, <1>7 DEF Deeper

\* The level d holds the paths of the nodes that have d names.
LEMMA PathLevels ==
  ASSUME NEW t, NEW at, IsTree(t, at)
  PROVE  \A d \in Depths(t) :
            LevelsOf(t)[d] = {at[n] : n \in {m \in DOMAIN t : Len(at[m]) = d}}
  <1> DEFINE Level(d) == {at[n] : n \in {m \in DOMAIN t : Len(at[m]) = d}}
             paths == LevelsOf(t)
             Bad == {d \in Depths(t) : paths[d] # Level(d)}
  <1>1. \A m \in DOMAIN t : at[m] \in Seq(Names) /\ Len(at[m]) \in Nat
    BY LenProperties DEF IsTree
  <1>2. Depths(t) \subseteq Nat /\ IsFiniteSet(DOMAIN t)
    BY FS_CardinalityType DEF IsTree, IsHeap, Depths
  <1>3. /\ paths[0] = {<<>>}
        /\ \A d \in Depths(t) \ {0} : paths[d] = Longer(t, paths[d - 1])
    <2>1. IsFiniteSet(DOMAIN t)
      BY <1>2
    <2>2. QED
      BY <2>1, LevelsDef
  <1> HIDE DEF paths
  <1>4. Level(0) = {<<>>}
    <2>1. Root \in DOMAIN t /\ at[Root] = <<>> /\ Len(at[Root]) = 0
      BY EmptySeq DEF IsTree, IsHeap
    <2>2. ASSUME NEW m \in DOMAIN t, Len(at[m]) = 0
          PROVE  at[m] = <<>>
      BY <1>1, <2>2, EmptySeq
    <2>3. QED
      BY <2>1, <2>2
  <1>5. ASSUME NEW d \in Depths(t), d # 0, paths[d - 1] = Level(d - 1)
        PROVE  paths[d] = Level(d)
    <2>0. d \in Nat \ {0}
      BY <1>2, <1>5
    <2>1. \A q : q \in paths[d] <=>
             \E p \in Level(d - 1) : \E c \in DOMAIN t[NodeAt(t, p)].children : q = Append(p, c)
      BY <1>3, <1>5 DEF Longer
    <2>2. ASSUME NEW q \in paths[d]
          PROVE  q \in Level(d)
      <3>1. PICK m \in DOMAIN t : /\ Len(at[m]) = d - 1
                    /\ \E c \in DOMAIN t[NodeAt(t, at[m])].children : q = Append(at[m], c)
        BY <2>1, <2>2
      <3>2. NodeAt(t, at[m]) = m
        BY <1>1, NodeAtFinds
      <3>3. PICK c \in DOMAIN t[m].children : q = Append(at[m], c)
        BY <3>1, <3>2
      <3> DEFINE n == t[m].children[c]
      <3>4. n \in DOMAIN t /\ c \in Names /\ at[n] = q
        BY <3>3, ChildKey
      <3> HIDE DEF n
      <3>5. Len(q) = Len(at[m]) + 1
        BY <1>1, <3>3, <3>4, AppendProperties
      <3>6. Len(at[n]) = d
        BY <2>0, <3>1, <3>4, <3>5
      <3>7. QED
        BY <3>4, <3>6
    <2>3. ASSUME NEW n \in DOMAIN t, Len(at[n]) = d
          PROVE  at[n] \in paths[d]
      <3>1. n # Root
        <4>1. Len(at[Root]) = 0
          BY EmptySeq DEF IsTree
        <4>2. QED
          BY <2>0, <2>3, <4>1
      <3>2. PICK m \in DOMAIN t : /\ t[n].key \in DOMAIN t[m].children
                             /\ t[m].children[t[n].key] = n
                             /\ at[n] = Append(at[m], t[n].key)
                             /\ t[n].key \in Names /\ at[m] \in Seq(Names)
        BY <3>1, ParentOf
      <3>3. Len(at[n]) = Len(at[m]) + 1
        BY <3>2, AppendProperties
      <3>4. Len(at[m]) = d - 1
        BY <1>1, <2>0, <2>3, <3>3
      <3>5. at[m] \in Level(d - 1)
        BY <3>4
      <3>6. NodeAt(t, at[m]) = m
        BY <1>1, NodeAtFinds
      <3>7. QED
        BY <2>1, <3>2, <3>5, <3>6
    <2>4. QED
      BY <2>2, <2>3
  <1>6. Bad = {}
    <2> SUFFICES ASSUME Bad # {} PROVE FALSE
      OBVIOUS
    <2>1. Bad \subseteq Nat
      BY <1>2
    <2>2. PICK d \in Bad : \A m \in Bad : d <= m
      BY <2>1, LeastNumber
    <2>3. d \in Depths(t) /\ paths[d] # Level(d) /\ d \in Nat
      BY <1>2, <2>2
    <2>4. d # 0
      BY <1>3, <1>4, <2>3
    <2>5. d - 1 \in Depths(t) /\ ~(d <= d - 1)
      BY <1>2, <2>3, <2>4, FS_CardinalityType DEF Depths
    <2>6. paths[d - 1] = Level(d - 1)
      BY <2>2, <2>5
    <2>7. QED
      BY <1>5, <2>3, <2>4, <2>6
  <1>7. QED
    BY <1>6 DEF paths

\* The paths read off the tree are those of its nodes.
LEMMA PathsAre ==
  ASSUME NEW t, NEW at, IsTree(t, at)
  PROVE  /\ PathsOf(t) = {at[n] : n \in DOMAIN t}
         /\ ContentOf(t) = [p \in PathsOf(t) |-> ContentOf(t)[p]]
         /\ DOMAIN ContentOf(t) = PathsOf(t)
         /\ \A n \in DOMAIN t : ContentOf(t)[at[n]] = t[n].data
  <1>2. \A n \in DOMAIN t : Len(at[n]) \in Depths(t)
    BY DepthBound
  <1>3. \A d \in Depths(t) : \A p :
            p \in LevelsOf(t)[d] <=> \E n \in DOMAIN t : Len(at[n]) = d /\ p = at[n]
    BY PathLevels
  <1>4. PathsOf(t) = {at[n] : n \in DOMAIN t}
    BY <1>2, <1>3 DEF PathsOf
  <1>5. ASSUME NEW n \in DOMAIN t
        PROVE  ContentOf(t)[at[n]] = t[n].data
    <2>1. NodeAt(t, at[n]) = n
      BY NodeAtFinds DEF IsTree
    <2>2. at[n] \in PathsOf(t)
      BY <1>4
    <2>3. QED
      BY <2>1, <2>2 DEF ContentOf
  <1>6. QED
    BY <1>4, <1>5 DEF ContentOf

LEMMA SamePaths == AllPaths = PathsOf(heap) /\ (AllPaths)' = PathsOf(heap')
  BY Zenon DEF AllPaths, PathsAt, PathsOf, LevelsOf, Longer, Depths

LEMMA AllPathsAre ==
  ASSUME NEW at, IsTree(heap, at)
  PROVE  /\ AllPaths = {at[n] : n \in DOMAIN heap}
         /\ \A n \in DOMAIN heap : DataAt(at[n]) = heap[n].data
  <1>1. AllPaths = {at[n] : n \in DOMAIN heap}
    BY SamePaths, PathsAre
  <1>2. \A n \in DOMAIN heap : DataAt(at[n]) = heap[n].data
    <2> SUFFICES ASSUME NEW n \in DOMAIN heap PROVE DataAt(at[n]) = heap[n].data
      OBVIOUS
    <2>1. NodeAt(heap, at[n]) = n
      BY NodeAtFinds DEF IsTree
    <2>2. QED
      BY <2>1 DEF DataAt
  <1>3. QED
    BY <1>1, <1>2
-----------------------------------------------------------------------------
(* search *)

LEMMA LenOfAppend ==
  ASSUME NEW S, NEW q \in Seq(S), NEW e \in S
  PROVE  Len(Append(q, e)) = Len(q) + 1 /\ Len(q) \in Nat
  BY AppendProperties, LenProperties

\* What search finds: the data at the path or, when there is no such path, at the
\* wildcard beside it, or nothing.
LEMMA SearchMeans ==
  ASSUME NEW t, NEW at, IsTree(t, at), NEW key, NEW p \in Seq(Names), p # <<>>,
         p = TokensOf(key), NEW star, star = Append(Front(p), "*")
  PROVE  /\ \A n \in DOMAIN t : at[n] = p => search(t, key, {"*"}) = t[n].data
         /\ (\A n \in DOMAIN t : at[n] # p) =>
               /\ \A s \in DOMAIN t : at[s] = star /\ Len(p) > 1 =>
                     search(t, key, {"*"}) = t[s].data
               /\ (\A s \in DOMAIN t : at[s] # star) \/ ~(Len(p) > 1) =>
                     search(t, key, {"*"}) = NULL
  <1> DEFINE broken == BreakAt(t, p)
             prev == NodeAt(t, Front(p))
             wild == getChild(t, prev, "*")
             result == search(t, key, {"*"})
  <1>1. result = IF broken = {} THEN t[NodeAt(t, p)].data
                 ELSE IF Min(broken) = Len(p) /\ wild # NULL /\ Len(p) > 1 /\ t[wild].key \in {"*"}
                 THEN t[wild].data ELSE NULL
    BY DEF search
  <1>2. /\ Len(p) \in Nat \ {0} /\ DOMAIN p = 1 .. Len(p) /\ Front(p) \in Seq(Names)
        /\ Len(Front(p)) = Len(p) - 1 /\ "*" \in Names /\ Last(p) \in Names
        /\ p = Append(Front(p), Last(p))
    BY ParentAndName, LenProperties, EmptySeq DEF Names
  <1>3. star \in Seq(Names) /\ NodeAt(t, star) = wild
    <2>1. Front(p) \in Seq(Names) /\ "*" \in Names
      BY <1>2
    <2>2. NodeAt(t, Append(Front(p), "*")) = wild
      BY <2>1, NodeAtAppend
    <2>3. Append(Front(p), "*") \in Seq(Names)
      BY <2>1, ParentOfChild
    <2>4. QED
      BY <2>2, <2>3
  <1>4. \A q \in Seq(Names) :
            /\ \A n \in DOMAIN t : at[n] = q => NodeAt(t, q) = n
            /\ (\A n \in DOMAIN t : at[n] # q) => NodeAt(t, q) = NULL
    BY NodeAtFinds
  <1>5. NULL \notin DOMAIN t
    BY NullIsNoAddress DEF IsTree, IsHeap
  <1>6. broken = {k \in 1 .. Len(p) : \A n \in DOMAIN t : at[n] # Prefix(p, k)}
    <2>1. \A k \in 1 .. Len(p) : Prefix(p, k) \in Seq(Names)
      BY PrefixFacts
    <2>2. \A k \in 1 .. Len(p) :
              NodeAt(t, Prefix(p, k)) = NULL <=> \A n \in DOMAIN t : at[n] # Prefix(p, k)
      BY <1>4, <1>5, <2>1
    <2>3. broken = {k \in 1 .. Len(p) : NodeAt(t, Prefix(p, k)) = NULL}
      BY <1>2 DEF BreakAt, Prefix
    <2> HIDE DEF broken
    <2>4. QED
      BY <2>2, <2>3
  <1>7. Prefix(p, Len(p)) = p
    BY <1>2, PrefixFacts
  <1>8. ASSUME NEW n \in DOMAIN t, at[n] = p
        PROVE  result = t[n].data
    <2>1. ASSUME NEW k \in 1 .. Len(p)
          PROVE  \E m \in DOMAIN t : at[m] = Prefix(p, k)
      <3>1. k \in 0 .. Len(at[n])
        BY <1>2, <1>8
      <3>2. QED
        BY <1>8, <3>1, PrefixClosed
    <2>2. broken = {}
      BY <1>6, <2>1
    <2>3. NodeAt(t, p) = n
      BY <1>4, <1>8
    <2>4. QED
      BY <1>1, <2>2, <2>3
  <1>9. ASSUME \A n \in DOMAIN t : at[n] # p
        PROVE  /\ \A s \in DOMAIN t : at[s] = star /\ Len(p) > 1 => result = t[s].data
               /\ (\A s \in DOMAIN t : at[s] # star) \/ ~(Len(p) > 1) => result = NULL
    <2>1. Len(p) \in broken
      BY <1>2, <1>6, <1>7, <1>9
    <2>2. ASSUME NEW s \in DOMAIN t, at[s] = star, Len(p) > 1
          PROVE  result = t[s].data
      <3>1. wild = s /\ wild # NULL
        BY <1>3, <1>4, <1>5, <2>2
      <3>2. t[s].key = "*"
        <4>1. Last(star) = "*"
          BY <1>2, ParentOfChild
        <4>2. s # Root
          BY <1>2, <2>2, ParentOfChild DEF IsTree
        <4>3. QED
          BY <2>2, <4>1, <4>2 DEF IsTree, NodesAreReached
      <3>3. ASSUME NEW k \in broken
            PROVE  Len(p) <= k
        <4> SUFFICES ASSUME ~(Len(p) <= k) PROVE FALSE
          OBVIOUS
        <4>1. k \in 1 .. Len(p) /\ \A n \in DOMAIN t : at[n] # Prefix(p, k)
          BY <1>6, <3>3
        <4>2. k \in 0 .. Len(Front(p)) /\ k \in 0 .. Len(at[s])
          <5>0. Front(p) \in Seq(Names) /\ "*" \in Names
            BY <1>2
          <5>1. Len(star) = Len(Front(p)) + 1
            BY <5>0, LenOfAppend
          <5>2. QED
            BY <1>2, <2>2, <4>1, <5>1
        <4>3. \E m \in DOMAIN t : at[m] = Prefix(at[s], k)
          BY <4>2, PrefixClosed
        <4>4. Prefix(star, k) = Prefix(Front(p), k)
          BY <1>2, <4>2, PrefixOfAppend
        <4>5. Prefix(p, k) = Prefix(Front(p), k)
          <5>1. Front(p) \in Seq(Names) /\ Last(p) \in Names
            BY <1>2
          <5>2. Prefix(Append(Front(p), Last(p)), k) = Prefix(Front(p), k)
            BY <4>2, <5>1, PrefixOfAppend
          <5>3. QED
            BY <1>2, <5>2
        <4>6. QED
          BY <2>2, <4>1, <4>3, <4>4, <4>5
      <3>4. Min(broken) = Len(p)
        <4>1. broken \subseteq Nat
          BY <1>6
        <4>2. Len(p) \in broken /\ \A k \in broken : Len(p) <= k
          BY <2>1, <3>3
        <4>3. \A x \in broken : (\A y \in broken : x <= y) => x = Len(p)
          BY <4>1, <4>2
        <4> HIDE DEF broken
        <4>4. Min(broken) \in broken /\ \A y \in broken : Min(broken) <= y
          BY <4>2 DEF Min
        <4>5. QED
          BY <4>3, <4>4
      <3>5. QED
        BY <1>1, <2>1, <2>2, <3>1, <3>2, <3>4
    <2>3. ASSUME \A s \in DOMAIN t : at[s] # star
          PROVE  result = NULL
      <3>1. wild = NULL
        BY <1>3, <1>4, <2>3
      <3>2. QED
        BY <1>1, <2>1, <3>1
    <2>4. ASSUME ~(Len(p) > 1)
          PROVE  result = NULL
      BY <1>1, <2>1, <2>4
    <2> HIDE DEF result
    <2>5. QED
      BY <2>2, <2>3, <2>4
  <1>10. QED
    BY <1>8, <1>9
-----------------------------------------------------------------------------
(* What search and drop make of a key *)

LEMMA SameSize ==
  ASSUME NEW S, IsFiniteSet(S), NEW T, NEW f \in [S -> T],
         \A a, b \in S : f[a] = f[b] => a = b, \A c \in T : \E a \in S : f[a] = c
  PROVE  Cardinality(T) = Cardinality(S)
  <1>1. f \in Bijection(S, T)
    BY DEF Bijection, Injection, Surjection, IsInjective
  <1>2. ExistsBijection(S, T)
    BY <1>1 DEF ExistsBijection
  <1>3. QED
    BY <1>2, FS_Bijection

\* What drop removes has one path for every call, and the calls tell them apart.
LEMMA DropCalls ==
  ASSUME NEW t, NEW at, IsTree(t, at), NEW key \in Seq(Names), key # <<>>,
         NEW p, p = TokensOf(key)
  PROVE  /\ \A n \in Below(t, at, p) :
               /\ n \in DOMAIN t /\ at[n] \in Seq(Names) /\ Len(p) \in 1 .. Len(at[n])
               /\ Front(p) \o Suffix(at[n], Len(p)) = at[n]
               /\ p = normalize(key) /\ Len(p) > 1 =>
                     DropCall(t, at, key, n) = [path |-> at[n], data |-> t[n].data]
         /\ \A m, n \in Below(t, at, p) :
               DropCall(t, at, key, m) = DropCall(t, at, key, n) => m = n
  <1>1. p \in Seq(Names) /\ p # <<>> /\ Len(p) \in Nat \ {0}
    BY TokensFacts, LenProperties, EmptySeq
  <1>2. ASSUME NEW n \in Below(t, at, p)
        PROVE  /\ n \in DOMAIN t /\ at[n] \in Seq(Names) /\ Len(p) \in 1 .. Len(at[n])
               /\ Front(p) \o Suffix(at[n], Len(p)) = at[n]
               /\ Suffix(at[n], Len(p)) \in Seq(Names)
    <2>1. n \in DOMAIN t /\ at[n] \in Seq(Names) /\ Prefix(at[n], Len(p)) = p
      BY <1>2 DEF Below, IsTree
    <2>2. Len(p) \in 1 .. Len(at[n])
      BY <1>1, <1>2, <2>1, LenProperties DEF Below
    <2>3. Front(Prefix(at[n], Len(p))) \o Suffix(at[n], Len(p)) = at[n]
      BY <2>1, <2>2, SuffixJoins
    <2>4. Suffix(at[n], Len(p)) \in Seq(Names)
      BY <2>1, <2>2, SuffixFacts
    <2>5. QED
      BY <2>1, <2>2, <2>3, <2>4
  <1>3. ASSUME NEW n \in Below(t, at, p), p = normalize(key), Len(p) > 1
        PROVE  DropCall(t, at, key, n) = [path |-> at[n], data |-> t[n].data]
    BY <1>2, <1>3 DEF DropCall, CbkPath
  <1>4. ASSUME NEW m \in Below(t, at, p), NEW n \in Below(t, at, p),
               DropCall(t, at, key, m) = DropCall(t, at, key, n)
        PROVE  m = n
    <2> DEFINE s == Suffix(at[m], Len(p))
               u == Suffix(at[n], Len(p))
               N == normalize(key)
               r == IF Len(N) > 1 THEN Front(N) ELSE N
    <2>1. s \in Seq(Names) /\ u \in Seq(Names)
      BY <1>2
    <2>2. r \in Seq(Names)
      <3>1. N \in Seq(Names) /\ N # <<>>
        BY NormalizeFacts
      <3>2. Front(N) \in Seq(Names)
        BY <3>1, ParentAndName
      <3>3. QED
        BY <3>1, <3>2
    <2>3. r \o s = r \o u
      <3>1. DropCall(t, at, key, m).path = DropCall(t, at, key, n).path
        BY <1>4
      <3>2. QED
        BY <3>1 DEF DropCall, CbkPath
    <2> HIDE DEF s, u, r
    <2>4. s = u
      BY <2>1, <2>2, <2>3, KeyInjective
    <2>5. at[m] = at[n]
      BY <1>2, <2>4 DEF s, u
    <2>6. QED
      BY <1>2, <2>5 DEF IsTree
  <1>5. QED
    BY <1>2, <1>3, <1>4

LEMMA SamePrefix ==
  ASSUME NEW S, NEW p \in Seq(S), NEW q \in Seq(S)
  PROVE  IsPrefix(p, q) <=> Len(p) <= Len(q) /\ Prefix(q, Len(p)) = p
  <1>1. Len(p) \in 0 .. Len(p)
    BY LenProperties
  <1>2. Prefix(p, Len(p)) = p
    BY <1>1, PrefixFacts
  <1>3. QED
    BY <1>2 DEF IsPrefix, Prefix

LEMMA SearchMeaningHolds ==
  ASSUME StringKeys, TreeInv
  PROVE  SearchMeaning
  <1>1. PICK at : IsTree(heap, at)
    BY DEF TreeInv
  <1> SUFFICES ASSUME NEW key \in Probes
               PROVE  search(heap, key, {"*"}) = Meaning(key)
    BY DEF SearchMeaning
  <1> DEFINE p == TokensOf(key)
             star == Append(Front(p), "*")
  <1>2. p \in Seq(Names) /\ p # <<>> /\ p = TokensOf(key)
    BY KeyNames
  <1>3. Meaning(key) = IF p \in AllPaths THEN DataAt(p)
                         ELSE IF star \in AllPaths /\ Len(p) > 1 THEN DataAt(star) ELSE NULL
    BY DEF Meaning
  <1>5. /\ AllPaths = {at[n] : n \in DOMAIN heap}
        /\ \A n \in DOMAIN heap : DataAt(at[n]) = heap[n].data
    BY <1>1, AllPathsAre
  <1>6. star = Append(Front(p), "*")
    OBVIOUS
  <1> HIDE DEF p, star
  <1>7. /\ \A n \in DOMAIN heap : at[n] = p => search(heap, key, {"*"}) = heap[n].data
        /\ (\A n \in DOMAIN heap : at[n] # p) =>
               /\ \A s \in DOMAIN heap : at[s] = star /\ Len(p) > 1 =>
                     search(heap, key, {"*"}) = heap[s].data
               /\ (\A s \in DOMAIN heap : at[s] # star) \/ ~(Len(p) > 1) =>
                     search(heap, key, {"*"}) = NULL
    BY <1>1, <1>2, <1>6, SearchMeans
  <1>8. QED
    BY <1>3, <1>5, <1>7

\* The paths that drop removes, and what its calls say of them.
PathsBelow(p) == {q \in AllPaths : IsPrefix(p, q)}

CallsTell(calls, key, p, below) ==
    /\ Cardinality(calls) = Cardinality(below)
    /\ {c.data : c \in calls} = {DataAt(q) : q \in below}
    /\ p = normalize(key) /\ Len(p) > 1 =>
          calls = {[path |-> q, data |-> DataAt(q)] : q \in below}

LEMMA DropMeaningHolds ==
  ASSUME StringKeys, TreeInv
  PROVE  DropMeaning
  <1>1. PICK at : IsTree(heap, at)
    BY DEF TreeInv
  <1>2. ASSUME NEW key \in Probes,
               NEW p, p = TokensOf(key),
               NEW below, below = PathsBelow(p),
               NEW calls, calls = drop(heap, key).calls
        PROVE  CallsTell(calls, key, p, below)
    <2> DEFINE B == Below(heap, at, p)
               Call(n) == DropCall(heap, at, key, n)
    <2>1. p \in Seq(Names) /\ p # <<>> /\ key \in Seq(Names) /\ key # <<>>
      BY <1>2, KeyNames
    <2>2. calls = {Call(n) : n \in B}
      BY <1>1, <1>2, <2>1, DropMeans
    <2>3. /\ AllPaths = {at[n] : n \in DOMAIN heap}
          /\ \A n \in DOMAIN heap : DataAt(at[n]) = heap[n].data
      BY <1>1, AllPathsAre
    <2>4. \A n \in DOMAIN heap : at[n] \in Seq(Names)
      BY <1>1 DEF IsTree
    <2>5. \A n \in DOMAIN heap : IsPrefix(p, at[n]) <=> n \in B
      BY <2>1, <2>4, SamePrefix DEF Below
    <2>6. below = {at[n] : n \in B} /\ B \subseteq DOMAIN heap
      BY <1>2, <2>3, <2>5 DEF Below, PathsBelow
    <2>7. /\ \A n \in B :
               /\ p = normalize(key) /\ Len(p) > 1 =>
                     Call(n) = [path |-> at[n], data |-> heap[n].data]
          /\ \A m, n \in B : Call(m) = Call(n) => m = n
      BY <1>1, <1>2, <2>1, DropCalls
    <2>8. \A n \in B : Call(n).data = heap[n].data
      BY DEF DropCall
    <2>9. IsFiniteSet(B)
      BY <1>1, <2>6, FS_Subset DEF IsTree, IsHeap
    <2>10. \A m, n \in B : at[m] = at[n] => m = n
      BY <1>1, <2>6 DEF IsTree
    <2> HIDE DEF B, Call
    <2>11. Cardinality(calls) = Cardinality(B)
      <3> DEFINE f == [n \in B |-> Call(n)]
      <3>1. f \in [B -> calls]
        BY <2>2
      <3>2. \A a, b \in B : f[a] = f[b] => a = b
        BY <2>7
      <3>3. \A c \in calls : \E a \in B : f[a] = c
        BY <2>2
      <3> HIDE DEF f
      <3>4. QED
        BY <2>9, <3>1, <3>2, <3>3, SameSize
    <2>12. Cardinality(below) = Cardinality(B)
      <3> DEFINE f == [n \in B |-> at[n]]
      <3>1. f \in [B -> below]
        BY <2>6
      <3>2. \A a, b \in B : f[a] = f[b] => a = b
        BY <2>10
      <3>3. \A c \in below : \E a \in B : f[a] = c
        BY <2>6
      <3> HIDE DEF f
      <3>4. QED
        BY <2>9, <3>1, <3>2, <3>3, SameSize
    <2>13. {c.data : c \in calls} = {DataAt(q) : q \in below}
      BY <2>2, <2>3, <2>6, <2>8
    <2>14. ASSUME p = normalize(key), Len(p) > 1
           PROVE  calls = {[path |-> q, data |-> DataAt(q)] : q \in below}
      <3>1. \A n \in B : Call(n) = [path |-> at[n], data |-> DataAt(at[n])]
        BY <2>3, <2>6, <2>7, <2>14
      <3>2. QED
        BY <2>2, <2>6, <3>1
    <2>15. QED
      BY <2>11, <2>12, <2>13, <2>14 DEF CallsTell
  <1>4. ASSUME NEW key \in Probes
        PROVE  LET path  == TokensOf(key)
                   below == {q \in AllPaths : IsPrefix(path, q)}
                   calls == drop(heap, key).calls
               IN  /\ Cardinality(calls) = Cardinality(below)
                   /\ {c.data : c \in calls} = {DataAt(q) : q \in below}
                   /\ path = normalize(key) /\ Len(path) > 1 =>
                         calls = {[path |-> q, data |-> DataAt(q)] : q \in below}
    <2> DEFINE path  == TokensOf(key)
               below == {q \in AllPaths : IsPrefix(path, q)}
               calls == drop(heap, key).calls
    <2>1. path = TokensOf(key)
      OBVIOUS
    <2>2. calls = drop(heap, key).calls
      OBVIOUS
    <2>3. below = PathsBelow(path)
      BY DEF PathsBelow
    <2> HIDE DEF path, below, calls
    <2>4. CallsTell(calls, key, path, below)
      BY <1>2, <2>1, <2>2, <2>3
    <2>5. /\ Cardinality(calls) = Cardinality(below)
          /\ {c.data : c \in calls} = {DataAt(q) : q \in below}
          /\ path = normalize(key) /\ Len(path) > 1 =>
                calls = {[path |-> q, data |-> DataAt(q)] : q \in below}
      BY <2>4 DEF CallsTell
    <2>6. QED
      BY <2>5 DEF path, below, calls
  <1>5. QED
    BY <1>4 DEF DropMeaning

\* A key of any form means the same node to insert, to search and to drop: search
\* finds what was stored there or at the wildcard beside it, and drop calls back once
\* for every path it removes.
THEOREM KeysMean ==
  ASSUME StringKeys
  PROVE  TreeSpec => []KeyMeaning
<1>1. TreeInv /\ [TreeNext]_heap => TreeInv'
  BY TreeInvNext
<1>2. TreeInv => KeyMeaning
  BY SearchMeaningHolds, DropMeaningHolds DEF KeyMeaning
<1> QED
  BY <1>1, <1>2, TreeInvInit, PTL DEF TreeSpec
-----------------------------------------------------------------------------
(* The tree implements the map *)

\* The content of a tree with data put at a path, and with a path removed.
ContentWith(t, p, data) ==
    [q \in PathsOf(t) \cup {SubSeq(p, 1, k) : k \in 0 .. Len(p)} |->
        IF q = p THEN data ELSE IF q \in PathsOf(t) THEN ContentOf(t)[q] ELSE NULL]

ContentWithout(t, p) ==
    [q \in {r \in PathsOf(t) : ~(Len(p) <= Len(r) /\ SubSeq(r, 1, Len(p)) = p)} |->
        ContentOf(t)[q]]

LEMMA ContentAfterInsert ==
  ASSUME NEW t, NEW at, NEW u, NEW bt, NEW p \in Seq(Names), NEW end, NEW data,
         IsTree(t, at), PathAdded(t, at, u, bt, p, end, data)
  PROVE  ContentOf(u) = ContentWith(t, p, data)
  <1> DEFINE On == {SubSeq(p, 1, k) : k \in 0 .. Len(p)}
             Value(q) == IF q = p THEN data ELSE IF q \in PathsOf(t) THEN ContentOf(t)[q] ELSE NULL
  <1>1. IsTree(u, bt) /\ DOMAIN t \subseteq DOMAIN u /\ end \in DOMAIN u /\ bt[end] = p
        /\ u[end].data = data
    BY DEF PathAdded
  <1>2. PathsOf(t) = {at[n] : n \in DOMAIN t} /\ \A n \in DOMAIN t : ContentOf(t)[at[n]] = t[n].data
    BY PathsAre
  <1>3. /\ PathsOf(u) = {bt[n] : n \in DOMAIN u} /\ \A n \in DOMAIN u : ContentOf(u)[bt[n]] = u[n].data
        /\ ContentOf(u) = [q \in PathsOf(u) |-> ContentOf(u)[q]]
    BY <1>1, PathsAre
  <1>4. \A n \in DOMAIN t : bt[n] = at[n]
    BY DEF PathAdded
  <1>5. \A n \in DOMAIN u \ DOMAIN t : bt[n] \in On
    <2>1. \A n \in DOMAIN u \ DOMAIN t : bt[n] \in {Prefix(p, j) : j \in 1 .. Len(p)}
      BY DEF PathAdded
    <2>2. \A j \in 1 .. Len(p) : j \in 0 .. Len(p) /\ Prefix(p, j) = SubSeq(p, 1, j)
      BY DEF Prefix
    <2>3. QED
      BY <2>1, <2>2
  <1>6. On \subseteq PathsOf(u)
    <2> SUFFICES ASSUME NEW k \in 0 .. Len(p) PROVE SubSeq(p, 1, k) \in PathsOf(u)
      OBVIOUS
    <2>1. \E m \in DOMAIN u : bt[m] = Prefix(bt[end], k)
      BY <1>1, PrefixClosed
    <2>2. QED
      BY <1>1, <1>3, <2>1 DEF Prefix
  <1> HIDE DEF On
  <1>7. PathsOf(u) = PathsOf(t) \cup On
    BY <1>1, <1>2, <1>3, <1>4, <1>5, <1>6
  <1>8. ASSUME NEW n \in DOMAIN u
        PROVE  u[n].data = Value(bt[n])
    <2>1. CASE n = end
      BY <1>1, <2>1
    <2>2. CASE n # end /\ n \in DOMAIN t
      <3>1. u[n].data = t[n].data
        BY <2>2 DEF PathAdded
      <3>2. bt[n] # p
        BY <1>1, <2>2 DEF IsTree
      <3>3. QED
        BY <1>2, <1>4, <2>2, <3>1, <3>2
    <2>3. CASE n # end /\ n \notin DOMAIN t
      <3>1. u[n].data = NULL
        BY <2>3 DEF PathAdded
      <3>2. bt[n] # p
        BY <1>1, <2>3 DEF IsTree
      <3>3. bt[n] \notin PathsOf(t)
        BY <1>1, <1>2, <1>4, <2>3 DEF IsTree
      <3>4. QED
        BY <3>1, <3>2, <3>3
    <2>4. QED
      BY <2>1, <2>2, <2>3
  <1> HIDE DEF Value
  <1>9. ASSUME NEW q \in PathsOf(u)
        PROVE  ContentOf(u)[q] = Value(q)
    <2>1. PICK n \in DOMAIN u : q = bt[n]
      BY <1>3, <1>9
    <2>2. ContentOf(u)[bt[n]] = u[n].data
      BY <1>3
    <2>3. QED
      BY <1>8, <2>1, <2>2
  <1>10. ContentOf(u) = [q \in PathsOf(t) \cup On |-> Value(q)]
    BY <1>3, <1>7, <1>9
  <1>11. QED
    BY <1>10 DEF On, Value, ContentWith

LEMMA ContentAfterDrop ==
  ASSUME NEW t, NEW at, NEW u, NEW p \in Seq(Names),
         IsTree(t, at), PathRemoved(t, at, u, p)
  PROVE  ContentOf(u) = ContentWithout(t, p)
  <1> DEFINE kept == DOMAIN t \ Below(t, at, p)
             bt == [n \in kept |-> at[n]]
             Rest == {r \in PathsOf(t) : ~(Len(p) <= Len(r) /\ SubSeq(r, 1, Len(p)) = p)}
  <1>1. IsTree(u, bt) /\ DOMAIN u = kept /\ \A n \in kept : u[n].data = t[n].data
    BY DEF PathRemoved
  <1>2. PathsOf(t) = {at[n] : n \in DOMAIN t} /\ \A n \in DOMAIN t : ContentOf(t)[at[n]] = t[n].data
    BY PathsAre
  <1>3. \A n \in kept : bt[n] = at[n]
    OBVIOUS
  <1>4. Rest = {at[n] : n \in kept}
    BY <1>2 DEF Below, Prefix
  <1>5. kept \subseteq DOMAIN t
    OBVIOUS
  <1> HIDE DEF bt, kept
  <1>6. /\ PathsOf(u) = {bt[n] : n \in DOMAIN u} /\ \A n \in DOMAIN u : ContentOf(u)[bt[n]] = u[n].data
        /\ ContentOf(u) = [q \in PathsOf(u) |-> ContentOf(u)[q]]
    BY <1>1, PathsAre
  <1> HIDE DEF Rest
  <1>7. PathsOf(u) = Rest
    BY <1>1, <1>3, <1>4, <1>6
  <1>8. \A q \in Rest : ContentOf(u)[q] = ContentOf(t)[q]
    BY <1>1, <1>2, <1>3, <1>4, <1>5, <1>6
  <1>9. ContentOf(u) = [q \in Rest |-> ContentOf(t)[q]]
    BY <1>6, <1>7, <1>8
  <1>10. QED
    BY <1>9 DEF Rest, ContentWithout

\* The map that the refinement gives, before and after a step.
Bar == [p \in AllPaths |-> DataAt(p)]

LEMMA BarIsContent == Bar = ContentOf(heap) /\ Bar' = ContentOf(heap')
  <1>1. Bar = ContentOf(heap)
    BY SamePaths DEF Bar, ContentOf, DataAt
  <1>2. Bar' = ContentOf(heap')
    BY SamePaths DEF Bar, ContentOf, DataAt
  <1>3. QED
    BY <1>1, <1>2

LEMMA PathMapInit == TreeInit => PM!Init
  <1> SUFFICES ASSUME TreeInit PROVE PM!Init
    OBVIOUS
  <1>1. heap = NewTree
    BY DEF TreeInit
  <1> DEFINE at == [n \in {Root} |-> <<>>]
  <1>2. IsTree(heap, at) /\ DOMAIN heap = {Root} /\ heap[Root].data = NULL /\ at[Root] = <<>>
    BY <1>1, NewTreeIsTree
  <1> HIDE DEF at
  <1>3. /\ PathsOf(heap) = {at[n] : n \in DOMAIN heap} /\ DOMAIN ContentOf(heap) = PathsOf(heap)
        /\ \A n \in DOMAIN heap : ContentOf(heap)[at[n]] = heap[n].data
        /\ ContentOf(heap) = [p \in PathsOf(heap) |-> ContentOf(heap)[p]]
    BY <1>2, PathsAre
  <1>4. PathsOf(heap) = {<<>>} /\ ContentOf(heap)[<<>>] = NULL
    BY <1>2, <1>3
  <1>5. ContentOf(heap) = [p \in {<<>>} |-> NULL]
    BY <1>3, <1>4
  <1>6. Bar = [p \in {<<>>} |-> NULL]
    BY <1>5, BarIsContent
  <1>7. QED
    BY <1>6 DEF PM!Init, Bar

LEMMA PathMapNext ==
  ASSUME StringKeys, TreeInv, [TreeNext]_heap
  PROVE  PM!Next \/ Bar' = Bar
  <1>1. PICK at : IsTree(heap, at)
    BY DEF TreeInv
  <1>2. ASSUME NEW key \in Keys, Drop(key)
        PROVE  PM!Remove(TokensOf(key))
    <2>1. heap' = drop(heap, key).tree
      BY <1>2 DEF Drop
    <2> DEFINE p == TokensOf(key)
    <2>2. p \in Seq(Names) /\ p # <<>> /\ p = TokensOf(key) /\ TokensOf(key) = p
      BY KeyNames
    <2> HIDE DEF p
    <2>3. PathRemoved(heap, at, heap', p)
      BY <1>1, <2>1, <2>2, DropMeans
    <2>4. ContentOf(heap') = ContentWithout(heap, p)
      BY <1>1, <2>2, <2>3, ContentAfterDrop
    <2>5. DOMAIN ContentOf(heap) = PathsOf(heap)
      BY <1>1, PathsAre
    <2>6. Bar' = [q \in {r \in DOMAIN Bar : ~PM!IsPrefixOf(p, r)} |-> Bar[q]]
      BY <2>4, <2>5, BarIsContent DEF PM!IsPrefixOf, ContentWithout
    <2>7. QED
      BY <2>2, <2>6 DEF PM!Remove, Bar
  <1>3. ASSUME NEW key \in Keys, NEW data \in Data, Insert(key, data)
        PROVE  PM!Put(TokensOf(key), data)
    <2>1. heap' = insert(heap, key, data)
      BY <1>3 DEF Insert
    <2> DEFINE p == TokensOf(key)
    <2>2. p \in Seq(Names) /\ p # <<>> /\ p = TokensOf(key) /\ TokensOf(key) = p
      BY KeyNames
    <2> HIDE DEF p
    <2>3. PICK bt, end : PathAdded(heap, at, heap', bt, p, end, data)
      BY <1>1, <2>1, <2>2, InsertMeans
    <2>4. ContentOf(heap') = ContentWith(heap, p, data)
      BY <1>1, <2>2, <2>3, ContentAfterInsert
    <2>5. DOMAIN ContentOf(heap) = PathsOf(heap)
      BY <1>1, PathsAre
    <2>6. Bar' = [q \in DOMAIN Bar \cup {SubSeq(p, 1, k) : k \in 0 .. Len(p)} |->
                    IF q = p THEN data ELSE IF q \in DOMAIN Bar THEN Bar[q] ELSE NULL]
      BY <2>4, <2>5, BarIsContent DEF ContentWith
    <2>7. QED
      BY <2>2, <2>6 DEF PM!Put, Bar
  <1>4. CASE UNCHANGED heap
    BY <1>4, BarIsContent
  <1>5. CASE TreeNext
    <2>1. PICK key \in Keys : Drop(key) \/ \E data \in Data : Insert(key, data)
      BY <1>5 DEF TreeNext
    <2>2. PM!Remove(TokensOf(key)) \/ \E data \in Data : PM!Put(TokensOf(key), data)
      BY <1>2, <1>3, <2>1
    <2>3. QED
      BY <2>2 DEF PM!Next
  <1>6. QED
    BY <1>4, <1>5

\* The tree implements the map of paths: every insert puts one datum at one path, every
\* drop takes one path away with all below it, and the rest is as it was.
THEOREM TreeIsAPathMap ==
  ASSUME StringKeys
  PROVE  TreeSpec => ImplementsPathMap
<1>1. TreeInv /\ [TreeNext]_heap => TreeInv'
  BY TreeInvNext
<1>2. TreeInv /\ [TreeNext]_heap => [PM!Next]_Bar
  BY PathMapNext
<1>3. TreeSpec => PM!Init /\ [][PM!Next]_Bar
  BY <1>1, <1>2, TreeInvInit, PathMapInit, PTL DEF TreeSpec
<1> QED
  BY <1>3, PTL DEF ImplementsPathMap, PM!Spec, Bar
-----------------------------------------------------------------------------
(* The routes of a Router *)

\* A Route is an object, its path and a request's path are strings.
StringRoutes ==
    /\ \A r \in Routes : r # NULL /\ r.path \in Seq(STRING) \ {<<>>}
    /\ Requests \subseteq Seq(STRING) \ {<<>>}

\* The routes in a sequence that have a method and a path, the latest of them, and
\* whether one is at or below the path.
IsOf(r, m, p) == r.method = m /\ TokensOf(r.path) = p
Same(s, m, p) == {k \in DOMAIN s : s[k].method = m /\ TokensOf(s[k].path) = p}
LatestIn(s, m, p) == IF Same(s, m, p) = {} THEN NULL ELSE s[Max(Same(s, m, p))]
OccupiedIn(s, m, p) ==
    \E k \in DOMAIN s : /\ s[k].method = m
                        /\ Len(p) <= Len(TokensOf(s[k].path))
                        /\ Prefix(TokensOf(s[k].path), Len(p)) = p

LEMMA RouteNames ==
  ASSUME StringRoutes, NEW r \in Routes
  PROVE  /\ r # NULL /\ TokensOf(r.path) \in Seq(Names) /\ TokensOf(r.path) # <<>>
  <1>1. r.path \in Seq(STRING) /\ r.path # <<>> /\ r # NULL
    BY DEF StringRoutes
  <1>2. r.path \in Seq(Names)
    BY <1>1, SeqMonotonic DEF Names
  <1>3. QED
    BY <1>1, <1>2, TokensFacts

LEMMA SameLatest ==
  ASSUME NEW m, NEW p
  PROVE  Latest(m, p) = LatestIn(added, m, p)
  BY Zenon DEF Latest, LatestIn, Same

LEMMA SameOccupied ==
  ASSUME StringRoutes, added \in Seq(Routes), NEW m, NEW p \in Seq(Names)
  PROVE  Occupied(m, p) <=> OccupiedIn(added, m, p)
  <1>1. \A k \in DOMAIN added : TokensOf(added[k].path) \in Seq(Names)
    BY RouteNames
  <1>2. Prefix(p, Len(p)) = p
    BY PrefixFacts, LenProperties
  <1>3. \A q : IsPrefix(p, q) <=> Len(p) <= Len(q) /\ Prefix(q, Len(p)) = p
    BY <1>2 DEF IsPrefix, Prefix
  <1>4. QED
    BY <1>3 DEF Occupied, OccupiedIn

LEMMA GreatestNumber ==
  ASSUME NEW len \in Nat, NEW T, T \subseteq 1 .. len, T # {}
  PROVE  Max(T) \in T /\ \A m \in T : Max(T) >= m
  <1> DEFINE U == {k \in Nat : \E m \in T : k = len - m}
  <1>1. U # {} /\ U \subseteq Nat
    <2>1. PICK m : m \in T
      OBVIOUS
    <2>2. len - m \in Nat
      BY <2>1
    <2>3. QED
      BY <2>1, <2>2
  <1>2. PICK k \in U : \A j \in U : k <= j
    BY <1>1, LeastNumber
  <1>3. PICK n \in T : k = len - n
    BY <1>2
  <1>4. ASSUME NEW m \in T
        PROVE  n >= m
    <2>1. len - m \in U /\ m \in Nat /\ n \in Nat
      BY <1>3
    <2>2. k <= len - m
      BY <1>2, <2>1
    <2>3. QED
      BY <1>3, <2>1, <2>2
  <1>5. QED
    BY <1>3, <1>4 DEF Max

LEMMA LatestFacts ==
  ASSUME StringRoutes, NEW s \in Seq(Routes), NEW m, NEW p
  PROVE  /\ Same(s, m, p) = {} => LatestIn(s, m, p) = NULL
         /\ LatestIn(s, m, p) # NULL =>
               \E k \in DOMAIN s : /\ LatestIn(s, m, p) = s[k]
                                   /\ s[k].method = m /\ TokensOf(s[k].path) = p
  <1>1. DOMAIN s = 1 .. Len(s) /\ Len(s) \in Nat
    BY LenProperties
  <1>2. Same(s, m, p) \subseteq 1 .. Len(s)
    BY <1>1 DEF Same
  <1>3. ASSUME Same(s, m, p) # {}
        PROVE  Max(Same(s, m, p)) \in Same(s, m, p)
    BY <1>1, <1>2, <1>3, GreatestNumber
  <1>4. QED
    BY <1>3 DEF LatestIn, Same

LEMMA LatestAppend ==
  ASSUME NEW s \in Seq(Routes), NEW r \in Routes, NEW m, NEW p
  PROVE  /\ IsOf(r, m, p) => LatestIn(Append(s, r), m, p) = r
         /\ ~IsOf(r, m, p) => LatestIn(Append(s, r), m, p) = LatestIn(s, m, p)
  <1> DEFINE u == Append(s, r)
  <1>1. /\ Len(s) \in Nat /\ DOMAIN s = 1 .. Len(s) /\ DOMAIN u = 1 .. Len(s) + 1
        /\ \A k \in 1 .. Len(s) : u[k] = s[k]
        /\ u[Len(s) + 1] = r
    BY LenProperties, AppendProperties
  <1> HIDE DEF u
  <1>2. ASSUME r.method = m /\ TokensOf(r.path) = p
        PROVE  LatestIn(u, m, p) = r
    <2>1. Len(s) + 1 \in Same(u, m, p) /\ Same(u, m, p) \subseteq 1 .. Len(s) + 1
      BY <1>1, <1>2 DEF Same
    <2>2. Max(Same(u, m, p)) \in Same(u, m, p) /\ \A k \in Same(u, m, p) : Max(Same(u, m, p)) >= k
      <3>1. Len(s) + 1 \in Nat /\ Same(u, m, p) # {}
        BY <1>1, <2>1
      <3>2. QED
        BY <2>1, <3>1, GreatestNumber
    <2>3. Max(Same(u, m, p)) >= Len(s) + 1 /\ Max(Same(u, m, p)) \in 1 .. Len(s) + 1
      BY <2>1, <2>2
    <2>4. Max(Same(u, m, p)) = Len(s) + 1
      BY <1>1, <2>3
    <2>5. LatestIn(u, m, p) = u[Max(Same(u, m, p))]
      BY <2>1 DEF LatestIn
    <2>6. QED
      BY <1>1, <1>2, <2>4, <2>5
  <1>3. ASSUME ~(r.method = m /\ TokensOf(r.path) = p)
        PROVE  LatestIn(u, m, p) = LatestIn(s, m, p)
    <2>1. Same(u, m, p) = Same(s, m, p)
      BY <1>1, <1>3 DEF Same
    <2>2. Same(s, m, p) \subseteq 1 .. Len(s)
      BY <1>1 DEF Same
    <2>3. ASSUME Same(s, m, p) # {}
          PROVE  Max(Same(s, m, p)) \in 1 .. Len(s)
      BY <1>1, <2>2, <2>3, GreatestNumber
    <2>4. CASE Same(s, m, p) = {}
      BY <1>3, <2>1, <2>4 DEF LatestIn
    <2>5. CASE Same(s, m, p) # {}
      <3>1. LatestIn(u, m, p) = u[Max(Same(s, m, p))] /\ LatestIn(s, m, p) = s[Max(Same(s, m, p))]
        BY <2>1, <2>5 DEF LatestIn
      <3>2. QED
        BY <1>1, <1>3, <2>3, <2>5, <3>1
    <2>6. QED
      BY <2>4, <2>5
  <1>4. QED
    BY <1>2, <1>3 DEF IsOf, u

LEMMA OccupiedAppend ==
  ASSUME StringRoutes, NEW s \in Seq(Routes), NEW r \in Routes, NEW m, NEW p \in Seq(Names),
         NEW u, u = Append(s, r)
  PROVE  OccupiedIn(u, m, p) <=>
            \/ OccupiedIn(s, m, p)
            \/ /\ r.method = m /\ Len(p) <= Len(TokensOf(r.path))
               /\ Prefix(TokensOf(r.path), Len(p)) = p
  <1>1. /\ Len(s) \in Nat /\ DOMAIN s = 1 .. Len(s) /\ DOMAIN u = 1 .. Len(s) + 1
        /\ \A k \in 1 .. Len(s) : u[k] = s[k]
        /\ u[Len(s) + 1] = r
    BY LenProperties, AppendProperties
  <1>2. \A k \in DOMAIN u : k \in DOMAIN s \/ k = Len(s) + 1
    BY <1>1
  <1>3. DOMAIN s \subseteq DOMAIN u /\ Len(s) + 1 \in DOMAIN u
    BY <1>1
  <1>4. QED
    BY <1>1, <1>2, <1>3 DEF OccupiedIn

\* A tree holds the routes of one method: a node at every path that a route is at or
\* below, and at each the latest route.
Holds(t, at, s, m) ==
    /\ IsTree(t, at)
    /\ \A p \in Seq(Names) : (\E n \in DOMAIN t : at[n] = p) <=> OccupiedIn(s, m, p)
    /\ \A n \in DOMAIN t : t[n].data = LatestIn(s, m, at[n])

\* The tree before the first route of a method.
HoldsNone(t, at, s, m) ==
    /\ IsTree(t, at)
    /\ \A n \in DOMAIN t : at[n] = <<>> /\ t[n].data = NULL
    /\ \A k \in DOMAIN s : s[k].method # m

LEMMA HoldsMore ==
  ASSUME StringRoutes, NEW s \in Seq(Routes), NEW r \in Routes, NEW t, NEW at,
         Holds(t, at, s, r.method) \/ HoldsNone(t, at, s, r.method)
  PROVE  \E bt : Holds(insert(t, r.path, r), bt, Append(s, r), r.method)
  <1> DEFINE u == Append(s, r)
             m == r.method
             v == insert(t, r.path, r)
             p == TokensOf(r.path)
  <1>0. /\ u = Append(s, r) /\ m = r.method /\ v = insert(t, r.path, r)
        /\ Holds(t, at, s, m) \/ HoldsNone(t, at, s, m)
    OBVIOUS
  <1> HIDE DEF u, m, v
  <1>1. p \in Seq(Names) /\ p # <<>> /\ Len(p) \in Nat \ {0}
    BY RouteNames, LenProperties, EmptySeq
  <1>2. IsTree(t, at)
    BY <1>0 DEF Holds, HoldsNone
  <1>3. PICK bt, end : PathAdded(t, at, v, bt, p, end, r)
    BY <1>0, <1>1, <1>2, InsertMeans
  <1>4. p = TokensOf(r.path)
    OBVIOUS
  <1> HIDE DEF p
  <1>5. /\ IsTree(v, bt) /\ DOMAIN t \subseteq DOMAIN v
        /\ end \in DOMAIN v /\ bt[end] = p /\ v[end].data = r
        /\ \A n \in DOMAIN t : bt[n] = at[n]
        /\ \A n \in DOMAIN t \ {end} : v[n].data = t[n].data
        /\ \A n \in DOMAIN v \ DOMAIN t : bt[n] \in {Prefix(p, j) : j \in 1 .. Len(p)}
        /\ \A n \in (DOMAIN v \ DOMAIN t) \ {end} : v[n].data = NULL
    BY <1>3 DEF PathAdded
  <1>6. \A n \in DOMAIN v : bt[n] \in Seq(Names)
    BY <1>5 DEF IsTree
  <1>7. \A j \in 0 .. Len(p) : Prefix(p, j) \in Seq(Names) /\ Len(Prefix(p, j)) = j
    BY <1>1, PrefixFacts
  <1>8. \A q \in Seq(Names) : OccupiedIn(u, m, q) <=>
            OccupiedIn(s, m, q) \/ (Len(q) <= Len(p) /\ Prefix(p, Len(q)) = q)
    BY <1>0, <1>4, OccupiedAppend
  <1>9. \A q \in Seq(Names) : Len(q) <= Len(p) /\ Prefix(p, Len(q)) = q =>
            \E n \in DOMAIN v : bt[n] = q
    <2> SUFFICES ASSUME NEW q \in Seq(Names), Len(q) <= Len(p), Prefix(p, Len(q)) = q
                 PROVE  \E n \in DOMAIN v : bt[n] = q
      OBVIOUS
    <2>1. Len(q) \in 0 .. Len(bt[end])
      BY <1>1, <1>5, LenProperties
    <2>2. \E n \in DOMAIN v : bt[n] = Prefix(bt[end], Len(q))
      BY <1>5, <2>1, PrefixClosed
    <2>3. QED
      BY <1>5, <2>2
  <1>10. ASSUME NEW n \in DOMAIN v \ DOMAIN t
         PROVE  Len(bt[n]) <= Len(p) /\ Prefix(p, Len(bt[n])) = bt[n]
    <2>1. PICK j \in 1 .. Len(p) : bt[n] = Prefix(p, j)
      BY <1>5
    <2>2. j \in 0 .. Len(p)
      BY <1>1
    <2>3. Len(bt[n]) = j
      BY <1>7, <2>1, <2>2
    <2>4. QED
      BY <1>1, <2>1, <2>3
  <1>11. ASSUME NEW q
         PROVE  LatestIn(u, m, q) = IF p = q THEN r ELSE LatestIn(s, m, q)
    <2>1. /\ IsOf(r, m, q) => LatestIn(u, m, q) = r
          /\ ~IsOf(r, m, q) => LatestIn(u, m, q) = LatestIn(s, m, q)
      BY <1>0, LatestAppend
    <2>2. QED
      BY <1>0, <1>4, <2>1 DEF IsOf
  <1>12. \A q : LatestIn(s, m, q) # NULL =>
             \E k \in DOMAIN s : s[k].method = m /\ TokensOf(s[k].path) = q
    BY LatestFacts
  <1>13. \A n \in DOMAIN t :
            /\ t[n].data = LatestIn(s, m, at[n])
            /\ OccupiedIn(u, m, at[n])
    <2>1. CASE Holds(t, at, s, m)
      BY <1>2, <1>8, <2>1 DEF Holds, IsTree
    <2>2. CASE HoldsNone(t, at, s, m)
      <3>1. \A q : LatestIn(s, m, q) = NULL
        BY <1>12, <2>2 DEF HoldsNone
      <3>2. OccupiedIn(u, m, <<>>)
        <4>1. <<>> \in Seq(Names) /\ Len(<<>>) = 0 /\ Prefix(p, 0) = <<>>
          BY <1>1, EmptySeq, PrefixFacts
        <4>2. Len(<<>>) <= Len(p) /\ Prefix(p, Len(<<>>)) = <<>>
          BY <1>1, <4>1
        <4>3. QED
          BY <1>8, <4>1, <4>2
      <3>3. QED
        BY <2>2, <3>1, <3>2 DEF HoldsNone
    <2>3. QED
      BY <1>0, <2>1, <2>2
  <1>14. \A q \in Seq(Names) : OccupiedIn(s, m, q) => \E n \in DOMAIN t : at[n] = q
    BY <1>0 DEF Holds, HoldsNone, OccupiedIn
  <1>15. ASSUME NEW q \in Seq(Names)
         PROVE  (\E n \in DOMAIN v : bt[n] = q) <=> OccupiedIn(u, m, q)
    <2>1. ASSUME NEW n \in DOMAIN v, bt[n] = q
          PROVE  OccupiedIn(u, m, q)
      <3>1. CASE n \in DOMAIN t
        BY <1>5, <1>13, <2>1, <3>1
      <3>2. CASE n \notin DOMAIN t
        BY <1>8, <1>10, <2>1, <3>2
      <3>3. QED
        BY <3>1, <3>2
    <2>2. ASSUME OccupiedIn(u, m, q)
          PROVE  \E n \in DOMAIN v : bt[n] = q
      <3>1. CASE OccupiedIn(s, m, q)
        BY <1>5, <1>14, <3>1
      <3>2. CASE Len(q) <= Len(p) /\ Prefix(p, Len(q)) = q
        BY <1>9, <3>2
      <3>3. QED
        BY <1>8, <2>2, <3>1, <3>2
    <2>3. QED
      BY <2>1, <2>2
  <1>16. ASSUME NEW n \in DOMAIN v
         PROVE  v[n].data = LatestIn(u, m, bt[n])
    <2>1. CASE n = end
      BY <1>1, <1>5, <1>11, <2>1
    <2>2. CASE n # end
      <3>1. bt[n] # p
        BY <1>5, <2>2 DEF IsTree
      <3>2. LatestIn(u, m, bt[n]) = LatestIn(s, m, bt[n])
        BY <1>6, <1>11, <3>1
      <3>3. CASE n \in DOMAIN t
        BY <1>5, <1>13, <2>2, <3>2, <3>3
      <3>4. CASE n \notin DOMAIN t
        <4>1. v[n].data = NULL
          BY <1>5, <2>2, <3>4
        <4>2. ~OccupiedIn(s, m, bt[n])
          <5> SUFFICES ASSUME OccupiedIn(s, m, bt[n]) PROVE FALSE
            OBVIOUS
          <5>1. PICK k \in DOMAIN t : at[k] = bt[n]
            BY <1>6, <1>14
          <5>2. QED
            BY <1>5, <3>4, <5>1 DEF IsTree
        <4>3. LatestIn(s, m, bt[n]) = NULL
          <5> SUFFICES ASSUME LatestIn(s, m, bt[n]) # NULL PROVE FALSE
            OBVIOUS
          <5>1. PICK k \in DOMAIN s : s[k].method = m /\ TokensOf(s[k].path) = bt[n]
            BY <1>12
          <5>2. Len(bt[n]) \in 0 .. Len(bt[n]) /\ Len(bt[n]) <= Len(bt[n])
            BY <1>6, LenProperties
          <5>3. Prefix(bt[n], Len(bt[n])) = bt[n]
            BY <1>6, <5>2, PrefixFacts
          <5>4. QED
            BY <4>2, <5>1, <5>2, <5>3 DEF OccupiedIn
        <4>4. QED
          BY <3>2, <4>1, <4>3
      <3>5. QED
        BY <3>3, <3>4
    <2>3. QED
      BY <2>1, <2>2
  <1>17. Holds(v, bt, u, m)
    BY <1>5, <1>15, <1>16 DEF Holds
  <1>18. QED
    BY <1>17 DEF u, m, v

\* The tree of a method is there from its first route on and holds the routes of the
\* method; nothing is deleted before the destructor.
RoutesOK ==
    /\ deleted = {}
    /\ \A m : m \in DOMAIN routes <=> \E k \in DOMAIN added : added[k].method = m
    /\ \A m \in DOMAIN routes : \E at : Holds(routes[m], at, added, m)

RouterInv ==
    /\ added \in Seq(Routes)
    /\ alive \in BOOLEAN /\ (alive => RoutesOK)
    /\ DeletedOnce

LEMMA RouterInvInit == RouterInit => RouterInv
  <1> SUFFICES ASSUME RouterInit PROVE RouterInv
    OBVIOUS
  <1>1. routes = <<>> /\ added = <<>> /\ deleted = {} /\ alive = TRUE
    BY DEF RouterInit
  <1>2. added \in Seq(Routes) /\ DOMAIN added = {} /\ DOMAIN routes = {}
    BY <1>1
  <1>3. DeletedOnce
    BY <1>1 DEF DeletedOnce
  <1>4. QED
    BY <1>1, <1>2, <1>3 DEF RouterInv, RoutesOK

LEMMA RouterAdds ==
  ASSUME StringRoutes, RouterInv, NEW route \in Routes, addRoute(route)
  PROVE  RouterInv'
  <1> DEFINE m0 == route.method
             t == getDirTree(m0)
             v == insert(t, route.path, route)
             s == Append(added, route)
  <1>1. /\ alive /\ alive' = alive /\ deleted' = deleted /\ added' = s
        /\ routes' = Assigned(routes, m0, v)
    BY DEF addRoute
  <1>2. added \in Seq(Routes) /\ RoutesOK
    BY <1>1 DEF RouterInv
  <1>3. s \in Seq(Routes) /\ s = Append(added, route)
    BY <1>2, AppendProperties
  <1>4. /\ Len(added) \in Nat /\ DOMAIN added = 1 .. Len(added) /\ DOMAIN s = 1 .. Len(added) + 1
        /\ \A k \in 1 .. Len(added) : s[k] = added[k]
        /\ s[Len(added) + 1] = route
    BY <1>2, LenProperties, AppendProperties
  <1>5. \E at : Holds(t, at, added, m0) \/ HoldsNone(t, at, added, m0)
    <2>1. CASE m0 \in DOMAIN routes
      <3>1. t = routes[m0]
        BY <2>1 DEF getDirTree
      <3>2. QED
        BY <1>2, <2>1, <3>1 DEF RoutesOK
    <2>2. CASE m0 \notin DOMAIN routes
      <3>1. t = NewTree
        BY <2>2 DEF getDirTree
      <3> DEFINE at == [n \in {Root} |-> <<>>]
      <3>2. IsTree(t, at) /\ \A n \in DOMAIN t : at[n] = <<>> /\ t[n].data = NULL
        BY <3>1, NewTreeIsTree
      <3>3. \A k \in DOMAIN added : added[k].method # m0
        BY <1>2, <2>2 DEF RoutesOK
      <3> HIDE DEF at, t
      <3>4. HoldsNone(t, at, added, m0)
        BY <3>2, <3>3 DEF HoldsNone
      <3>5. QED
        BY <3>4
    <2>3. QED
      BY <2>1, <2>2
  <1>6. m0 = route.method /\ v = insert(t, route.path, route)
    OBVIOUS
  <1> HIDE DEF m0, t, v, s
  <1>7. \E bt : Holds(v, bt, s, m0)
    <2>1. PICK at : Holds(t, at, added, m0) \/ HoldsNone(t, at, added, m0)
      BY <1>5
    <2>2. added \in Seq(Routes)
      BY <1>2
    <2>3. s = Append(added, route)
      BY <1>3
    <2>4. QED
      BY <2>1, <2>2, HoldsMore DEF m0, v, s
  <1>8. ASSUME NEW m \in DOMAIN routes, m # m0
        PROVE  \E at : Holds(routes[m], at, s, m)
    <2>1. PICK at : Holds(routes[m], at, added, m)
      BY <1>2 DEF RoutesOK
    <2>2. ASSUME NEW p
          PROVE  LatestIn(s, m, p) = LatestIn(added, m, p)
      <3>1. ~IsOf(route, m, p)
        BY <1>6, <1>8 DEF IsOf
      <3>2. QED
        BY <1>2, <1>3, <3>1, LatestAppend
    <2>3. ASSUME NEW p \in Seq(Names)
          PROVE  OccupiedIn(s, m, p) <=> OccupiedIn(added, m, p)
      <3>1. route.method # m
        BY <1>6, <1>8
      <3>2. QED
        BY <1>2, <1>3, <3>1, OccupiedAppend
    <2>4. Holds(routes[m], at, s, m)
      BY <2>1, <2>2, <2>3 DEF Holds
    <2>5. QED
      BY <2>4
  <1>9. RoutesOK'
    <2>1. DOMAIN routes' = DOMAIN routes \cup {m0} /\ routes'[m0] = v
          /\ \A m \in DOMAIN routes \ {m0} : routes'[m] = routes[m]
      BY <1>1 DEF Assigned
    <2>2. \A m \in DOMAIN routes' : \E at : Holds(routes'[m], at, s, m)
      BY <1>7, <1>8, <2>1
    <2>3. \A m : (\E k \in DOMAIN s : s[k].method = m) <=>
                 (m = m0 \/ \E k \in DOMAIN added : added[k].method = m)
      BY <1>4, <1>6
    <2>4. \A m : m \in DOMAIN routes' <=> \E k \in DOMAIN s : s[k].method = m
      BY <1>2, <2>1, <2>3 DEF RoutesOK
    <2>5. deleted' = {}
      BY <1>1, <1>2 DEF RoutesOK
    <2>6. QED
      BY <1>1, <2>2, <2>4, <2>5 DEF RoutesOK
  <1>10. DeletedOnce'
    BY <1>1, <1>9 DEF DeletedOnce, RoutesOK
  <1>11. QED
    BY <1>1, <1>3, <1>9, <1>10 DEF RouterInv

\* The destructor drops "/", which is the node ".".
LEMMA SlashTokens == TokensOf(<<"", "">>) = <<".">> /\ <<".">> \in Seq(Names) /\ <<".">> # <<>>
  <1> DEFINE key == <<"", "">>
             dot == <<".">>
             n == normalize(key)
             end == Tail(key)
  <1>1. "" \in Names /\ "." \in Names /\ "" # "." /\ "" \notin DotNames
    BY DotIsDotName DEF Names
  <1>2. /\ key \in Seq(Names) /\ Len(key) = 2 /\ key # <<>>
        /\ key[1] = "" /\ key[2] = "" /\ Len(<<"">>) = 1
    BY <1>1, ShortKeys
  <1>3. dot \in Seq(Names) /\ dot # <<>> /\ Len(dot) = 1 /\ dot[1] = "."
    BY <1>1, ShortKeys
  <1>4. TokensOf(key) = LET cut == {k \in DOMAIN n : n[k] = ""}
                        IN  IF cut = {} THEN n ELSE SubSeq(n, 1, Min(cut) - 1)
    BY DEF TokensOf
  <1>5. TokensOf(<<"", "">>) = TokensOf(key)
    OBVIOUS
  <1> HIDE DEF key
  <1>a. Len(key) = 2
    BY <1>2
  <1>6. end \in Seq(Names) /\ Len(end) = 1 /\ end[1] = ""
    <2>1. end \in Seq(Names) /\ Len(end) = Len(key) - 1
          /\ \A i \in 1 .. Len(end) : end[i] = key[i + 1]
      BY <1>2, HeadTailProperties
    <2>2. Len(end) = 1
      <3>1. Len(end) = Len(key) - 1
        BY <2>1
      <3>2. QED
        BY <1>a, <3>1
    <2>3. \A i \in 1 .. 1 : end[i] = key[i + 1]
      BY <2>1, <2>2
    <2>4. end[1] = key[2]
      <3>1. 1 \in 1 .. 1 /\ 1 + 1 = 2
        OBVIOUS
      <3>2. end[1] = key[1 + 1]
        BY <2>3, <3>1
      <3>3. QED
        BY <3>1, <3>2
    <2>5. QED
      BY <1>2, <2>1, <2>2, <2>4
  <1>7. n = dot \o end
    <2>0. Len(key) > 1
      BY <1>a
    <2>1. key # <<"">> /\ Len(key) > 1 /\ key[1] \notin DotNames
      <3>1. Len(key) # Len(<<"">>)
        <4>1. Len(<<"">>) = 1
          BY <1>2
        <4>2. QED
          BY <1>a, <4>1
      <3>2. key[1] \notin DotNames
        BY <1>1, <1>2, Zenon
      <3>3. QED
        BY <2>0, <3>1, <3>2, Zenon
    <2>2. QED
      BY <1>2, <2>1 DEF normalize
  <1> HIDE DEF dot, end, n
  <1>8. /\ n \in Seq(Names) /\ Len(n) = 2 /\ n[1] = "." /\ n[2] = ""
    <2>1. /\ dot \o end \in Seq(Names) /\ Len(dot \o end) = Len(dot) + Len(end)
          /\ \A i \in 1 .. Len(dot) + Len(end) :
                (dot \o end)[i] = IF i <= Len(dot) THEN dot[i] ELSE end[i - Len(dot)]
      BY <1>3, <1>6, ConcatProperties
    <2>2. Len(dot) + Len(end) = 2 /\ 1 \in 1 .. 2 /\ 2 \in 1 .. 2 /\ 1 <= Len(dot) /\ ~(2 <= Len(dot))
          /\ 2 - Len(dot) = 1
      <3>1. Len(dot) = 1
        BY <1>3
      <3>2. Len(end) = 1
        BY <1>6
      <3>3. QED
        BY <3>1, <3>2
    <2>3. (dot \o end)[1] = dot[1] /\ (dot \o end)[2] = end[1]
      BY <2>1, <2>2
    <2>4. QED
      BY <1>3, <1>6, <1>7, <2>1, <2>2, <2>3
  <1>b. Len(n) = 2
    BY <1>8
  <1>9. {k \in DOMAIN n : n[k] = ""} = {2}
    <2>0. DOMAIN n = 1 .. Len(n)
      <3>1. n \in Seq(Names)
        BY <1>8
      <3>2. QED
        BY <3>1, LenProperties
    <2>1. DOMAIN n = {1, 2}
      BY <1>b, <2>0
    <2>2. QED
      BY <1>1, <1>8, <2>1
  <1>10. Min({2}) = 2
    BY DEF Min
  <1>11. TokensOf(key) = SubSeq(n, 1, 1)
    <2>1. TokensOf(key) = SubSeq(n, 1, Min({2}) - 1)
      BY <1>4, <1>9
    <2>2. Min({2}) - 1 = 1
      BY <1>10
    <2>3. QED
      BY <2>1, <2>2
  <1>12. SubSeq(n, 1, 1) = dot
    <2>1. 1 \in 0 .. Len(n) /\ 1 \in 1 .. 1
      BY <1>b
    <2>2. /\ Prefix(n, 1) \in Seq(Names) /\ Len(Prefix(n, 1)) = 1
          /\ \A i \in 1 .. 1 : Prefix(n, 1)[i] = n[i]
      <3>1. n \in Seq(Names) /\ 1 \in 0 .. Len(n)
        BY <1>8, <2>1
      <3>2. QED
        BY <3>1, PrefixFacts
    <2>3. Prefix(n, 1) = dot
      <3>1. Prefix(n, 1)[1] = dot[1]
        BY <1>3, <1>8, <2>1, <2>2
      <3>2. Len(Prefix(n, 1)) = Len(dot) /\ \A i \in 1 .. Len(dot) : Prefix(n, 1)[i] = dot[i]
        BY <1>3, <2>2, <3>1
      <3>3. QED
        BY <1>3, <2>2, <3>2, SeqEqual
    <2>4. QED
      BY <2>3 DEF Prefix
  <1>13. TokensOf(<<"", "">>) = dot /\ dot \in Seq(Names) /\ dot # <<>>
    BY <1>3, <1>5, <1>11, <1>12
  <1>14. QED
    BY <1>13 DEF dot

LEMMA BelowDot ==
  ASSUME NEW t, NEW at, IsTree(t, at), NEW n \in DOMAIN t
  PROVE  n \in Below(t, at, <<".">>) <=> at[n] # <<>> /\ Head(at[n]) = "."
  <1>1. at[n] \in Seq(Names) /\ Len(at[n]) \in Nat
    BY LenProperties DEF IsTree
  <1>2. "." \in Names
    BY DEF Names
  <1>3. Len(<<".">>) = 1 /\ (<<".">>)[1] = "." /\ <<".">> \in Seq(Names)
    BY <1>2, ShortKeys
  <1>4. ASSUME at[n] # <<>>
        PROVE  Prefix(at[n], 1) = <<".">> <=> Head(at[n]) = "."
    <2>1. 1 \in 0 .. Len(at[n]) /\ Head(at[n]) = at[n][1]
      BY <1>1, <1>4, EmptySeq
    <2>2. Prefix(at[n], 1) \in Seq(Names) /\ Len(Prefix(at[n], 1)) = 1 /\ Prefix(at[n], 1)[1] = at[n][1]
      <3>1. at[n] \in Seq(Names) /\ 1 \in 0 .. Len(at[n])
        BY <1>1, <2>1
      <3>2. /\ Prefix(at[n], 1) \in Seq(Names) /\ Len(Prefix(at[n], 1)) = 1
            /\ \A i \in 1 .. 1 : Prefix(at[n], 1)[i] = at[n][i]
        BY <3>1, PrefixFacts, ZenonT(30)
      <3>3. QED
        BY <3>2
    <2>3. QED
      BY <1>3, <2>1, <2>2, SeqEqual
  <1>5. at[n] # <<>> <=> 1 <= Len(at[n])
    BY <1>1, EmptySeq
  <1>6. QED
    BY <1>3, <1>4, <1>5 DEF Below

LEMMA RouterDestroyed ==
  ASSUME StringRoutes, RouterInv, DestroyRouter
  PROVE  RouterInv'
  <1> DEFINE key == <<"", "">>
             At(m) == CHOOSE at : Holds(routes[m], at, added, m)
             Call(m, n) == [method |-> m, call |-> DropCall(routes[m], At(m), key, n)]
             Gone(m) == Below(routes[m], At(m), <<".">>)
  <1>1. /\ alive /\ alive' = FALSE /\ added' = added
        /\ deleted' = UNION {{[method |-> m, call |-> c] : c \in drop(routes[m], key).calls} :
                                m \in DOMAIN routes}
    BY DEF DestroyRouter
  <1>2. added \in Seq(Routes) /\ RoutesOK
    BY <1>1 DEF RouterInv
  <1>3. \A m \in DOMAIN routes : Holds(routes[m], At(m), added, m)
    BY <1>2 DEF RoutesOK
  <1> HIDE DEF At
  <1>4. ASSUME NEW m \in DOMAIN routes
        PROVE  drop(routes[m], key).calls = {DropCall(routes[m], At(m), key, n) : n \in Gone(m)}
    <2>1. IsTree(routes[m], At(m))
      BY <1>3 DEF Holds
    <2>2. drop(routes[m], key).calls =
             {DropCall(routes[m], At(m), key, n) : n \in Below(routes[m], At(m), <<".">>)}
      <3> DEFINE dot == <<".">>
      <3>1. dot \in Seq(Names) /\ dot # <<>> /\ dot = TokensOf(key)
        BY SlashTokens
      <3> HIDE DEF dot, key
      <3>2. drop(routes[m], key).calls =
               {DropCall(routes[m], At(m), key, n) : n \in Below(routes[m], At(m), dot)}
        BY <2>1, <3>1, DropMeans
      <3>3. QED
        BY <3>2 DEF dot
    <2>3. QED
      BY <2>2
  <1> HIDE DEF key
  <1>5. \A d : d \in deleted' <=> \E m \in DOMAIN routes : \E n \in Gone(m) : d = Call(m, n)
    BY <1>1, <1>4
  <1>6. ASSUME NEW m \in DOMAIN routes, NEW n \in Gone(m)
        PROVE  /\ n \in DOMAIN routes[m] /\ Call(m, n).call.data = LatestIn(added, m, At(m)[n])
               /\ LatestIn(added, m, At(m)[n]) # NULL =>
                     \E k \in DOMAIN added : /\ LatestIn(added, m, At(m)[n]) = added[k]
                                             /\ added[k].method = m
                                             /\ TokensOf(added[k].path) = At(m)[n]
    <2>1. n \in DOMAIN routes[m]
      BY DEF Below
    <2>2. Call(m, n).call.data = routes[m][n].data
      BY DEF DropCall
    <2>3. routes[m][n].data = LatestIn(added, m, At(m)[n])
      BY <1>3, <2>1 DEF Holds
    <2>4. QED
      BY <1>2, <2>1, <2>2, <2>3, LatestFacts
  <1>7. ASSUME NEW d \in deleted', NEW e \in deleted', d.call.data = e.call.data, d.call.data # NULL
        PROVE  d = e
    <2>a. PICK m \in DOMAIN routes : \E n \in Gone(m) : d = Call(m, n)
      BY <1>5
    <2>1. PICK n \in Gone(m) : d = Call(m, n)
      BY <2>a
    <2>b. PICK m2 \in DOMAIN routes : \E n2 \in Gone(m2) : e = Call(m2, n2)
      BY <1>5
    <2>2. PICK n2 \in Gone(m2) : e = Call(m2, n2)
      BY <2>b
    <2>3. LatestIn(added, m, At(m)[n]) = d.call.data /\ LatestIn(added, m2, At(m2)[n2]) = d.call.data
      BY <1>6, <1>7, <2>1, <2>2
    <2>4. d.call.data.method = m /\ TokensOf(d.call.data.path) = At(m)[n]
      BY <1>6, <1>7, <2>1, <2>3
    <2>5. d.call.data.method = m2 /\ TokensOf(d.call.data.path) = At(m2)[n2]
      BY <1>6, <1>7, <2>2, <2>3
    <2>6. m = m2 /\ At(m)[n] = At(m)[n2] /\ n \in DOMAIN routes[m] /\ n2 \in DOMAIN routes[m]
      BY <1>6, <2>1, <2>2, <2>4, <2>5
    <2>7. n = n2
      BY <1>3, <2>6 DEF Holds, IsTree
    <2>8. QED
      BY <2>1, <2>2, <2>6, <2>7
  <1>8. ASSUME NEW k \in DOMAIN added, NEW r, r = added[k], NEW p, p = TokensOf(r.path)
        PROVE  (\E d \in deleted' : d.call.data = r)
                  <=> (Head(p) = "." /\ LatestIn(added, r.method, p) = r)
    <2>1. r \in Routes
      BY <1>2, <1>8
    <2>2. r # NULL /\ p \in Seq(Names) /\ p # <<>>
      BY <1>8, <2>1, RouteNames
    <2>3. ASSUME NEW d \in deleted', d.call.data = r
          PROVE  Head(p) = "." /\ LatestIn(added, r.method, p) = r
      <3>0. PICK m \in DOMAIN routes : \E n \in Gone(m) : d = Call(m, n)
        BY <1>5
      <3>1. PICK n \in Gone(m) : d = Call(m, n)
        BY <3>0
      <3>2. LatestIn(added, m, At(m)[n]) = r
        BY <1>6, <2>3, <3>1
      <3>3. r.method = m /\ TokensOf(r.path) = At(m)[n]
        BY <1>6, <2>2, <3>1, <3>2
      <3>4. Head(At(m)[n]) = "."
        BY <1>3, <1>6, <3>1, BelowDot DEF Holds
      <3>5. QED
        BY <1>8, <3>2, <3>3, <3>4
    <2>4. ASSUME Head(p) = ".", LatestIn(added, r.method, p) = r
          PROVE  \E d \in deleted' : d.call.data = r
      <3> DEFINE m == r.method
      <3>1. m \in DOMAIN routes
        BY <1>2, <1>8 DEF RoutesOK
      <3>2. OccupiedIn(added, m, p)
        <4>1. Len(p) \in 0 .. Len(p) /\ Len(p) <= Len(p)
          BY <2>2, LenProperties
        <4>2. Prefix(p, Len(p)) = p
          BY <2>2, <4>1, PrefixFacts
        <4>3. QED
          BY <1>8, <4>1, <4>2 DEF OccupiedIn
      <3>3. PICK n \in DOMAIN routes[m] : At(m)[n] = p
        BY <1>3, <2>2, <3>1, <3>2 DEF Holds
      <3>4. n \in Gone(m)
        BY <1>3, <2>2, <2>4, <3>1, <3>3, BelowDot DEF Holds
      <3>5. Call(m, n) \in deleted' /\ Call(m, n).call.data = r
        BY <1>5, <1>6, <2>4, <3>1, <3>3, <3>4
      <3>6. QED
        BY <3>5
    <2>5. QED
      BY <2>3, <2>4
  <1>9. DeletedOnce'
    <2>1. \A d, e \in deleted' : d.call.data = e.call.data /\ d.call.data # NULL => d = e
      BY <1>7
    <2>2. ASSUME NEW k \in DOMAIN added
          PROVE  (\E d \in deleted' : d.call.data = added[k])
                    <=> (/\ Head(TokensOf(added[k].path)) = "."
                         /\ Latest(added[k].method, TokensOf(added[k].path)) = added[k])
      BY <1>8, SameLatest
    <2>3. \A k \in DOMAIN added :
             LET r    == added[k]
                 path == TokensOf(r.path)
             IN  (\E d \in deleted' : d.call.data = r)
                    <=> (Head(path) = "." /\ Latest(r.method, path) = r)
      <3> SUFFICES ASSUME NEW k \in DOMAIN added
                   PROVE  (\E d \in deleted' : d.call.data = added[k])
                             <=> (/\ Head(TokensOf(added[k].path)) = "."
                                  /\ Latest(added[k].method, TokensOf(added[k].path)) = added[k])
        OBVIOUS
      <3> QED
        BY <2>2
    <2>4. QED
      BY <1>1, <2>1, <2>3 DEF DeletedOnce, Latest
  <1>10. QED
    BY <1>1, <1>2, <1>9 DEF RouterInv

LEMMA RouterAnswers ==
  ASSUME StringRoutes, RouterInv
  PROVE  RoutesByMeaning
  <1> SUFFICES ASSUME alive, NEW m \in Methods, NEW request \in Requests
               PROVE  getRoute(m, request) =
                         IF Occupied(m, TokensOf(request)) \/ Len(TokensOf(request)) = 1
                         THEN Latest(m, TokensOf(request))
                         ELSE Latest(m, Append(Front(TokensOf(request)), "*"))
    BY DEF RoutesByMeaning
  <1> DEFINE p == TokensOf(request)
             star == Append(Front(p), "*")
  <1>1. added \in Seq(Routes) /\ RoutesOK
    BY DEF RouterInv
  <1>2. p \in Seq(Names) /\ p # <<>> /\ p = TokensOf(request)
    <2>1. request \in Seq(STRING) /\ request # <<>>
      BY DEF StringRoutes
    <2>2. request \in Seq(Names)
      BY <2>1, SeqMonotonic DEF Names
    <2>3. QED
      BY <2>1, <2>2, TokensFacts
  <1>3. TokensOf(request) = p
    OBVIOUS
  <1>4. star = Append(Front(p), "*") /\ star \in Seq(Names)
    <2>1. Front(p) \in Seq(Names) /\ "*" \in Names
      BY <1>2, ParentAndName DEF Names
    <2>2. QED
      BY <2>1, ParentOfChild
  <1> HIDE DEF p, star
  <1>5. Len(p) \in Nat \ {0}
    BY <1>2, LenProperties, EmptySeq
  <1>6. \A q \in Seq(Names) : Occupied(m, q) <=> OccupiedIn(added, m, q)
    BY <1>1, SameOccupied
  <1>7. \A q : Latest(m, q) = LatestIn(added, m, q)
    BY SameLatest
  <1>8. ASSUME NEW q \in Seq(Names), ~OccupiedIn(added, m, q)
        PROVE  LatestIn(added, m, q) = NULL
    <2> SUFFICES ASSUME LatestIn(added, m, q) # NULL PROVE FALSE
      OBVIOUS
    <2>1. PICK k \in DOMAIN added : added[k].method = m /\ TokensOf(added[k].path) = q
      BY <1>1, LatestFacts
    <2>2. Len(q) \in 0 .. Len(q) /\ Len(q) <= Len(q)
      BY LenProperties
    <2>3. Prefix(q, Len(q)) = q
      BY <2>2, PrefixFacts
    <2>4. QED
      BY <1>8, <2>1, <2>2, <2>3 DEF OccupiedIn
  <1>9. getRoute(m, request) =
           IF OccupiedIn(added, m, p) \/ Len(p) = 1 THEN LatestIn(added, m, p)
           ELSE LatestIn(added, m, star)
    <2>1. CASE m \notin DOMAIN routes
      <3>1. \A k \in DOMAIN added : added[k].method # m
        BY <1>1, <2>1 DEF RoutesOK
      <3>2. \A q \in Seq(Names) : ~OccupiedIn(added, m, q)
        BY <3>1 DEF OccupiedIn
      <3>3. LatestIn(added, m, p) = NULL /\ LatestIn(added, m, star) = NULL
        BY <1>2, <1>4, <1>8, <3>2
      <3>4. getRoute(m, request) = NULL
        BY <2>1 DEF getRoute
      <3>5. QED
        BY <3>3, <3>4
    <2>2. CASE m \in DOMAIN routes
      <3> DEFINE t == routes[m]
      <3>1. getRoute(m, request) = search(t, request, {"*"})
        BY <2>2 DEF getRoute, searchCbk
      <3>2. PICK at : Holds(t, at, added, m)
        BY <1>1, <2>2 DEF RoutesOK
      <3> HIDE DEF t
      <3>3. /\ IsTree(t, at)
            /\ \A q \in Seq(Names) : (\E n \in DOMAIN t : at[n] = q) <=> OccupiedIn(added, m, q)
            /\ \A n \in DOMAIN t : t[n].data = LatestIn(added, m, at[n])
        BY <3>2 DEF Holds
      <3>4. /\ \A n \in DOMAIN t : at[n] = p => search(t, request, {"*"}) = t[n].data
            /\ (\A n \in DOMAIN t : at[n] # p) =>
                  /\ \A s \in DOMAIN t : at[s] = star /\ Len(p) > 1 =>
                        search(t, request, {"*"}) = t[s].data
                  /\ (\A s \in DOMAIN t : at[s] # star) \/ ~(Len(p) > 1) =>
                        search(t, request, {"*"}) = NULL
        <4>1. IsTree(t, at)
          BY <3>3
        <4>2. star = Append(Front(p), "*")
          BY <1>4
        <4>3. QED
          BY <1>2, <4>1, <4>2, SearchMeans
      <3>5. CASE OccupiedIn(added, m, p)
        <4>1. PICK n \in DOMAIN t : at[n] = p
          BY <1>2, <3>3, <3>5
        <4>2. QED
          BY <3>1, <3>3, <3>4, <3>5, <4>1
      <3>6. CASE ~OccupiedIn(added, m, p)
        <4>1. \A n \in DOMAIN t : at[n] # p
          BY <1>2, <3>3, <3>6
        <4>2. CASE Len(p) = 1
          <5>1. ~(Len(p) > 1)
            BY <4>2
          <5>2. search(t, request, {"*"}) = NULL
            BY <3>4, <4>1, <5>1
          <5>3. LatestIn(added, m, p) = NULL
            BY <1>2, <1>8, <3>6
          <5>4. QED
            BY <3>1, <4>2, <5>2, <5>3
        <4>3. CASE Len(p) # 1
          <5>0. \A l \in Nat \ {0} : l # 1 => l > 1
            OBVIOUS
          <5>1. Len(p) > 1
            BY <1>5, <4>3, <5>0
          <5>2. CASE OccupiedIn(added, m, star)
            <6>1. PICK s \in DOMAIN t : at[s] = star
              BY <1>4, <3>3, <5>2
            <6>2. search(t, request, {"*"}) = t[s].data
              BY <3>4, <4>1, <5>1, <6>1
            <6>3. QED
              BY <3>1, <3>3, <3>6, <4>3, <6>1, <6>2
          <5>3. CASE ~OccupiedIn(added, m, star)
            <6>1. \A s \in DOMAIN t : at[s] # star
              BY <1>4, <3>3, <5>3
            <6>2. search(t, request, {"*"}) = NULL
              BY <3>4, <4>1, <6>1
            <6>3. LatestIn(added, m, star) = NULL
              BY <1>4, <1>8, <5>3
            <6>4. QED
              BY <3>1, <3>6, <4>3, <6>2, <6>3
          <5>4. QED
            BY <5>2, <5>3
        <4>4. QED
          BY <4>2, <4>3
      <3>7. QED
        BY <3>5, <3>6
    <2>3. QED
      BY <2>1, <2>2
  <1>10. Occupied(m, p) <=> OccupiedIn(added, m, p)
    BY <1>2, <1>6
  <1>11. QED
    BY <1>3, <1>4, <1>7, <1>9, <1>10

LEMMA RouterStays ==
  ASSUME StringRoutes, RouterInv, [RouterNext]_routerVars
  PROVE  RouterInv'
  <1>1. CASE DestroyRouter
    BY <1>1, RouterDestroyed
  <1>2. ASSUME NEW route \in Routes, addRoute(route)
        PROVE  RouterInv'
    BY <1>2, RouterAdds
  <1>3. CASE UNCHANGED routerVars
    <2>1. routes' = routes /\ added' = added /\ deleted' = deleted /\ alive' = alive
      BY <1>3 DEF routerVars
    <2>2. DeletedOnce' <=> DeletedOnce
      BY <2>1 DEF DeletedOnce, Latest
    <2>3. RoutesOK' <=> RoutesOK
      BY <2>1 DEF RoutesOK
    <2>4. QED
      BY <2>1, <2>2, <2>3 DEF RouterInv
  <1>4. QED
    BY <1>1, <1>2, <1>3 DEF RouterNext

\* Whatever routes are added in whatever order, getRoute answers a request with the
\* latest route of its method and path or, when no route lies at or below that path,
\* with the latest wildcard route beside it.
THEOREM RequestsFindTheirRoute ==
  ASSUME StringRoutes
  PROVE  RouterSpec => []RoutesByMeaning
<1>1. RouterInv /\ [RouterNext]_routerVars => RouterInv'
  BY RouterStays
<1>2. RouterInv => RoutesByMeaning
  BY RouterAnswers
<1> QED
  BY <1>1, <1>2, RouterInvInit, PTL DEF RouterSpec

\* The destructor deletes no route twice, and every route but those that were replaced
\* or whose path begins with a hidden name.
THEOREM RoutesDeletedOnce ==
  ASSUME StringRoutes
  PROVE  RouterSpec => []DeletedOnce
<1>1. RouterInv /\ [RouterNext]_routerVars => RouterInv'
  BY RouterStays
<1>2. RouterInv => DeletedOnce
  BY DEF RouterInv
<1> QED
  BY <1>1, <1>2, RouterInvInit, PTL DEF RouterSpec
=============================================================================
