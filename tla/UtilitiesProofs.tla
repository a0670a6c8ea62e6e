--------------------------- MODULE UtilitiesProofs ---------------------------
(***************************************************************************)
(* mkpath in any number of calls at once, on any paths: a call fails only  *)
(* for a reason, and what it reports to have made is there.                *)
(*                                                                         *)
(* A call that is at its n-th do_mkdir has seen the directories before it. *)
(* Nobody but others takes anything away, so they are still there, and all *)
(* but the last of them hold something and so are directories.  A file can *)
(* hide in the last one only: mkdir says EEXIST for it too.                *)
(*                                                                         *)
(* buildQueryMap on any query, base64_encode and base64_decode on any      *)
(* text: what a loop has done after n turns (Turned, Encoded, Decoded)     *)
(* holds of the least n for which it might not, so it holds of all.        *)
(***************************************************************************)
EXTENDS Utilities, TLAPS, SequenceTheorems, WellFoundedInduction


TypeOK ==
    /\ fs \in [Places -> {"none", "dir", "file"}]
    /\ at \in [Calls -> Nat]
    /\ stmt \in [Calls -> {"stat", "mkdir", "failed", "made"}]
    /\ filed \in BOOLEAN /\ removed \in BOOLEAN
    /\ \A c \in Calls : at[c] \in 1..Len(visit[c])

\* The first n directories of call c are there.
After(c, n) ==
    \A j \in 1..n :
        /\ Exists(visit[c][j])
        /\ visit[c][j] # visit[c][n] \/ ~filed => Kind(visit[c][j]) = "dir"

Progress ==
    ~removed => \A c \in Calls :
        IF stmt[c] = "made" THEN After(c, Len(visit[c])) ELSE After(c, at[c] - 1)

\* What a call has not found cannot be a file, unless others make one.
StatSaw ==
    ~filed /\ ~removed => \A c \in Calls : stmt[c] = "mkdir" /\ ~IsEmpty(c) => Kind(Dir(c)) # "file"

IInv == TypeOK /\ WellFormed /\ Progress /\ StatSaw /\ FailsForAReason

\* The places of a call, from TopDown.
LEMMA VisitFacts ==
    ASSUME NEW c \in Calls
    PROVE  /\ Len(visit[c]) \in Nat /\ Len(visit[c]) >= 1
           /\ \A k \in 1..Len(visit[c]) : visit[c][k] \in Places \cup {Root}
           /\ visit[c][1] = Root \/ Parent(visit[c][1]) = Root
           /\ \A k \in 2..Len(visit[c]) :
                 visit[c][k] = visit[c][k - 1] \/ Parent(visit[c][k]) = visit[c][k - 1]
<1>1. visit[c] \in Seq(Seq(STRING)) /\ visit[c] # <<>>
  BY TopDown
<1>2. Len(visit[c]) \in Nat /\ Len(visit[c]) >= 1
  BY <1>1
<1>3. \A k \in 1..Len(visit[c]) : visit[c][k] \in Places \cup {Root}
  BY DEF Places
<1>s. PICK v : v = visit[c]
  OBVIOUS
<1>t. \A k \in 1..Len(v) :
          \/ k = 1 /\ (v[k] = Root \/ Parent(v[k]) = Root)
          \/ k > 1 /\ (v[k] = v[k - 1] \/ Parent(v[k]) = v[k - 1])
  BY TopDown, <1>s, Zenon
<1>4. v[1] = Root \/ Parent(v[1]) = Root
  <2>1. 1 \in 1..Len(v) /\ ~(1 > 1)
    BY <1>2, <1>s
  <2> QED
    BY ONLY <1>t, <2>1
<1>5. \A k \in 2..Len(v) : v[k] = v[k - 1] \/ Parent(v[k]) = v[k - 1]
  <2>1. \A k \in 2..Len(v) : k \in 1..Len(v) /\ k # 1
    BY <1>2, <1>s
  <2> QED
    BY ONLY <1>t, <2>1
<1> QED
  BY <1>2, <1>3, <1>4, <1>5, <1>s

\* One more directory is there: those before it are directories, since it lies in
\* the last of them or is the last of them.
LEMMA OneMore ==
    ASSUME NEW c \in Calls, NEW n \in 1..Len(visit[c]),
           WellFormed', After(c, n - 1)', Exists(visit[c][n])',
           ~filed' => Kind(visit[c][n])' = "dir"
    PROVE  After(c, n)'
<1> SUFFICES ASSUME NEW j \in 1..n
             PROVE  /\ Exists(visit[c][j])'
                    /\ visit[c][j] # visit[c][n] \/ ~filed' => Kind(visit[c][j])' = "dir"
  BY DEF After
<1>0. n \in Nat /\ n >= 1 /\ j \in Nat /\ n <= Len(visit[c]) /\ Len(visit[c]) \in Nat
  BY VisitFacts
<1>1. CASE j = n
  BY <1>1
<1>2. CASE j # n
  <2>1. j \in 1..(n - 1) /\ n - 1 \in 1..Len(visit[c]) /\ n \in 2..Len(visit[c])
    BY <1>0, <1>2
  <2>2. /\ Exists(visit[c][j])'
        /\ visit[c][j] # visit[c][n - 1] \/ ~filed' => Kind(visit[c][j])' = "dir"
    BY <2>1 DEF After
  <2>3. visit[c][n] = visit[c][n - 1] \/ Parent(visit[c][n]) = visit[c][n - 1]
    BY <2>1, VisitFacts
  <2>4. CASE visit[c][n] = visit[c][n - 1]
    BY <2>2, <2>4
  <2>5. CASE Parent(visit[c][n]) = visit[c][n - 1] /\ visit[c][j] = visit[c][n - 1]
    <3>1. visit[c][n] \in Places \cup {Root} /\ visit[c][n - 1] \in Places \cup {Root}
      BY <2>1, VisitFacts
    <3>2. CASE visit[c][n] = Root
      <4>1. Parent(Root) = Root
        BY DEF Parent, Root
      <4> QED
        BY <4>1, <3>2, <2>5 DEF Kind, Exists
    <3>3. CASE visit[c][n] \in Places
      BY <3>1, <3>3, <2>5 DEF WellFormed, Exists
    <3> QED
      BY <3>1, <3>2, <3>3, <2>2
  <2> QED
    BY <2>2, <2>3, <2>4, <2>5
<1> QED
  BY <1>1, <1>2

LEMMA Initially == Init => IInv
<1> SUFFICES ASSUME Init PROVE IInv
  OBVIOUS
<1>0. ASSUME NEW c \in Calls PROVE 1 \in 1..Len(visit[c])
  <2>1. Len(visit[c]) \in Nat /\ Len(visit[c]) >= 1
    BY VisitFacts
  <2> QED
    BY <2>1
<1>1. TypeOK
  BY <1>0 DEF Init, TypeOK
<1>2. Progress
  <2> SUFFICES ASSUME NEW c \in Calls
               PROVE  stmt[c] # "made" /\ After(c, at[c] - 1)
    BY DEF Progress
  <2>1. at[c] - 1 = 0
    BY DEF Init
  <2> QED
    BY <2>1 DEF Init, After
<1> QED
  BY <1>1, <1>2 DEF Init, IInv, StatSaw, FailsForAReason

\* Whatever exists stays as it is, if a step only adds something.
LEMMA Adding ==
    ASSUME TypeOK, WellFormed,
           NEW d \in Places, NEW k \in {"dir", "file"},
           ~Exists(d), Kind(Parent(d)) = "dir", fs' = [fs EXCEPT ![d] = k]
    PROVE  /\ fs' \in [Places -> {"none", "dir", "file"}]
           /\ Kind(d)' = k
           /\ \A e \in Places \cup {Root} : e # d => Kind(e)' = Kind(e)
           /\ WellFormed'
<1>0. d # Root
  BY DEF Places
<1>1. fs' \in [Places -> {"none", "dir", "file"}] /\ Kind(d)' = k
  BY <1>0 DEF TypeOK, Kind
<1>2. \A e \in Places \cup {Root} : e # d => Kind(e)' = Kind(e)
  BY <1>0 DEF TypeOK, Kind
<1>3. ASSUME NEW e \in Places, Exists(e)', Parent(e) \in Places \cup {Root}
      PROVE  Kind(Parent(e))' = "dir"
  <2>1. CASE e = d
    <3>1. Parent(e) # d
      BY <2>1 DEF Exists
    <3> QED
      BY <3>1, <2>1, <1>2, <1>3
  <2>2. CASE e # d
    <3>1. Exists(e)
      BY <2>2, <1>2, <1>3 DEF Exists
    <3>2. Kind(Parent(e)) = "dir"
      BY <3>1, <1>3 DEF WellFormed
    <3>3. Parent(e) # d
      BY <3>2 DEF Exists
    <3> QED
      BY <3>2, <3>3, <1>2, <1>3
  <2> QED
    BY <2>1, <2>2
<1>4. WellFormed'
  BY <1>3 DEF WellFormed
<1> QED
  BY <1>1, <1>2, <1>4

\* What a step of a call does to the file system at most.
Kept ==
    /\ UNCHANGED <<filed, removed>>
    /\ fs' \in [Places -> {"none", "dir", "file"}]
    /\ WellFormed'
    /\ \A e \in Places \cup {Root} : Exists(e) => Kind(e)' = Kind(e)
    /\ \A e \in Places \cup {Root} : Kind(e)' = "file" => Kind(e) = "file"

LEMMA AfterKept ==
    ASSUME Kept, NEW c \in Calls, NEW n \in 0..Len(visit[c]), After(c, n)
    PROVE  After(c, n)'
<1> SUFFICES ASSUME NEW j \in 1..n
             PROVE  /\ Exists(visit[c][j])'
                    /\ visit[c][j] # visit[c][n] \/ ~filed => Kind(visit[c][j])' = "dir"
  BY DEF After, Kept
<1>1. j \in 1..Len(visit[c])
  BY VisitFacts
<1>2. visit[c][j] \in Places \cup {Root}
  BY <1>1, VisitFacts
<1>3. /\ Exists(visit[c][j])
      /\ visit[c][j] # visit[c][n] \/ ~filed => Kind(visit[c][j]) = "dir"
  BY DEF After
<1>4. Kind(visit[c][j])' = Kind(visit[c][j])
  BY <1>2, <1>3 DEF Kept
<1> QED
  BY <1>3, <1>4 DEF Exists

\* A step of a call, once it is known what it does to that call.
LEMMA CallStep ==
    ASSUME IInv, Kept, NEW c \in Calls,
           NEW n \in Nat, at' = [at EXCEPT ![c] = n], n \in 1..Len(visit[c]),
           NEW s \in {"stat", "mkdir", "failed", "made"}, stmt' = [stmt EXCEPT ![c] = s],
           ~removed => IF s = "made" THEN After(c, Len(visit[c]))' ELSE After(c, n - 1)',
           s = "mkdir" /\ ~IsEmpty(c) /\ ~filed /\ ~removed => Kind(visit[c][n])' # "file",
           s = "failed" /\ ~IsEmpty(c) /\ ~removed => \E k \in 1..Len(visit[c]) : Kind(visit[c][k])' = "file"
    PROVE  IInv'
<1>1. TypeOK'
  BY DEF IInv, TypeOK, Kept
<1>2. Progress'
  <2> SUFFICES ASSUME ~removed, NEW b \in Calls
               PROVE  (IF stmt[b] = "made" THEN After(b, Len(visit[b])) ELSE After(b, at[b] - 1))'
    BY DEF Progress, Kept
  <2>1. CASE b = c
    <3>1. at'[b] = n /\ stmt'[b] = s
      BY <2>1 DEF IInv, TypeOK
    <3> QED
      BY <2>1, <3>1
  <2>2. CASE b # c
    <3>1. at'[b] = at[b] /\ stmt'[b] = stmt[b] /\ at[b] - 1 \in 0..Len(visit[b])
      BY <2>2, VisitFacts DEF IInv, TypeOK
    <3>2. IF stmt[b] = "made" THEN After(b, Len(visit[b])) ELSE After(b, at[b] - 1)
      BY DEF IInv, Progress
    <3>3. Len(visit[b]) \in 0..Len(visit[b])
      BY VisitFacts
    <3>4. CASE stmt[b] = "made"
      BY <3>1, <3>2, <3>3, <3>4, AfterKept
    <3>5. CASE stmt[b] # "made"
      <4>1. After(b, at[b] - 1)'
        BY <3>1, <3>2, <3>5, AfterKept
      <4> QED
        BY <4>1, <3>1, <3>5
    <3> QED
      BY <3>4, <3>5
  <2> QED
    BY <2>1, <2>2
<1>3. StatSaw'
  <2> SUFFICES ASSUME ~filed, ~removed, NEW b \in Calls, stmt'[b] = "mkdir", ~IsEmpty(b)
               PROVE  Kind(Dir(b))' # "file"
    BY DEF StatSaw, Kept, IsEmpty
  <2>1. CASE b = c
    <3>1. at'[b] = n /\ stmt'[b] = s
      BY <2>1 DEF IInv, TypeOK
    <3> QED
      BY <2>1, <3>1 DEF Dir
  <2>2. CASE b # c
    <3>1. at'[b] = at[b] /\ stmt[b] = "mkdir"
      BY <2>2 DEF IInv, TypeOK
    <3>2. Kind(Dir(b)) # "file" /\ Dir(b) \in Places \cup {Root}
      BY <3>1, VisitFacts DEF IInv, TypeOK, StatSaw, Dir
    <3> QED
      BY <3>1, <3>2 DEF Dir, Kept
  <2> QED
    BY <2>1, <2>2
<1>4. FailsForAReason'
  <2> SUFFICES ASSUME ~removed, NEW b \in Calls, stmt'[b] = "failed", ~IsEmpty(b)
               PROVE  \E k \in 1..Len(visit[b]) : Kind(visit[b][k])' = "file"
    BY DEF FailsForAReason, Kept, IsEmpty
  <2>1. CASE b = c
    BY <2>1 DEF IInv, TypeOK
  <2>2. CASE b # c
    <3>1. PICK k \in 1..Len(visit[b]) : Kind(visit[b][k]) = "file"
      BY <2>2 DEF IInv, TypeOK, FailsForAReason
    <3>2. visit[b][k] \in Places \cup {Root} /\ Exists(visit[b][k])
      BY <3>1, VisitFacts DEF Exists
    <3> QED
      BY <3>1, <3>2 DEF Kept
  <2> QED
    BY <2>1, <2>2
<1> QED
  BY <1>1, <1>2, <1>3, <1>4 DEF IInv, Kept

\* do_mkdir() has returned 0.
LEMMA MadeStep ==
    ASSUME IInv, Kept, NEW c \in Calls, Made(c), stmt[c] \in {"stat", "mkdir"},
           NEW n \in Nat, n = at[c], Exists(visit[c][n])',
           ~filed /\ ~removed => Kind(visit[c][n])' = "dir"
    PROVE  IInv'
<1>1. n \in 1..Len(visit[c]) /\ Len(visit[c]) \in Nat
  BY VisitFacts DEF IInv, TypeOK
<1>2. ASSUME ~removed PROVE After(c, n)'
  <2>1. After(c, n - 1)
    BY <1>2 DEF IInv, Progress
  <2>2. n - 1 \in 0..Len(visit[c])
    BY <1>1
  <2>3. After(c, n - 1)'
    BY <2>1, <2>2, AfterKept
  <2>4. WellFormed' /\ filed' = filed
    BY DEF Kept
  <2> QED
    BY <1>2, <2>3, <2>4, <1>1, OneMore
<1>3. CASE n < Len(visit[c])
  <2>1. at' = [at EXCEPT ![c] = n + 1] /\ stmt' = [stmt EXCEPT ![c] = "stat"]
    BY <1>3 DEF Made
  <2>2. n + 1 \in Nat /\ n + 1 \in 1..Len(visit[c]) /\ (n + 1) - 1 = n
    BY <1>1, <1>3
  <2>3. ~removed => After(c, (n + 1) - 1)'
    BY <1>2, <2>2
  <2> QED
    BY <2>1, <2>2, <2>3, CallStep
<1>4. CASE ~(n < Len(visit[c]))
  <2>1. n = Len(visit[c])
    BY <1>1, <1>4
  <2>2. at' = [at EXCEPT ![c] = n] /\ stmt' = [stmt EXCEPT ![c] = "made"]
    BY <1>4 DEF Made, Goto, IInv, TypeOK
  <2>3. ~removed => After(c, Len(visit[c]))'
    BY <1>2, <2>1
  <2> QED
    BY <2>1, <2>2, <2>3, <1>1, CallStep
<1> QED
  BY <1>3, <1>4

LEMMA StatKeeps == ASSUME IInv, NEW c \in Calls, Stat(c) PROVE IInv'
<1>0. PICK n \in Nat : n = at[c]
  BY DEF IInv, TypeOK
<1>1. n \in 1..Len(visit[c]) /\ visit[c][n] \in Places \cup {Root} /\ Dir(c) = visit[c][n]
  BY <1>0, VisitFacts DEF IInv, TypeOK, Dir
<1>2. Kept
  BY DEF IInv, TypeOK, Stat, Kept, WellFormed, Exists, Kind
<1>3. Kind(visit[c][n])' = Kind(visit[c][n])
  BY DEF Stat, Kind
<1>4. CASE Kind(Dir(c)) = "dir" /\ Made(c)
  <2>1. stmt[c] = "stat"
    BY DEF Stat
  <2> QED
    BY <1>0, <1>1, <1>2, <1>3, <1>4, <2>1, MadeStep DEF Exists
<1>5. ASSUME NEW s \in {"mkdir", "failed"}, Goto(c, s),
             s = "mkdir" /\ ~IsEmpty(c) /\ ~filed /\ ~removed => Kind(Dir(c)) # "file",
             s = "failed" => Kind(Dir(c)) = "file"
      PROVE  IInv'
  <2>2. at' = [at EXCEPT ![c] = n] /\ stmt' = [stmt EXCEPT ![c] = s]
    BY <1>5, <1>0 DEF Goto, IInv, TypeOK
  <2>3. ASSUME ~removed PROVE After(c, n - 1)'
    <3>1. After(c, n - 1)
      BY <1>0, <2>3 DEF IInv, Progress, Stat
    <3>2. n - 1 \in 0..Len(visit[c])
      BY <1>1, VisitFacts
    <3> QED
      BY <3>1, <3>2, <1>2, AfterKept
  <2> QED
    BY <1>1, <1>2, <1>3, <1>5, <2>2, <2>3, CallStep
<1>6. CASE /\ IsEmpty(c) \/ Kind(Dir(c)) = "none" \/ (Kind(Dir(c)) = "file" /\ Slashed(c))
           /\ Goto(c, "mkdir")
  <2>1. ASSUME ~filed, ~removed, ~IsEmpty(c)
        PROVE  Kind(Dir(c)) # "file"
    <3>1. CASE Kind(Dir(c)) = "none"
      BY <3>1
    <3>2. CASE n = Len(visit[c]) /\ Key[c][Len(Key[c])] = ""
      <4>1. CASE visit[c] = <<Root>>
        <5>1. Len(visit[c]) = 1 /\ visit[c][1] = Root
          BY <4>1
        <5> QED
          BY <1>1, <3>2, <5>1 DEF Kind
      <4>2. CASE Len(visit[c]) > 1 /\ visit[c][Len(visit[c])] = visit[c][Len(visit[c]) - 1]
        <5>1. n - 1 \in 1 .. (n - 1) /\ visit[c][n] = visit[c][n - 1]
          <6>1. n > 1 /\ visit[c][n] = visit[c][n - 1]
            BY ONLY <3>2, <4>2
          <6>2. n - 1 \in 1 .. (n - 1)
            BY ONLY <6>1, n \in Nat
          <6> QED
            BY <6>1, <6>2
        <5>2. After(c, n - 1)
          BY <1>0, <2>1 DEF IInv, Progress, Stat
        <5>3. Kind(visit[c][n - 1]) = "dir"
          BY <2>1, <5>1, <5>2 DEF After
        <5> QED
          BY <1>1, <5>1, <5>3
      <4> QED
        BY <3>2, <4>1, <4>2, TopDown
    <3> QED
      BY <1>0, <1>6, <2>1, <3>1, <3>2 DEF Slashed
  <2> QED
    BY <1>5, <1>6, <2>1
<1>7. CASE Kind(Dir(c)) = "file" /\ Goto(c, "failed")
  BY <1>5, <1>7
<1> QED
  BY <1>4, <1>6, <1>7 DEF Stat

LEMMA MkdirKeeps == ASSUME IInv, NEW c \in Calls, Mkdir(c) PROVE IInv'
<1>0. PICK n \in Nat : n = at[c]
  BY DEF IInv, TypeOK
<1>1. n \in 1..Len(visit[c]) /\ visit[c][n] \in Places \cup {Root} /\ Dir(c) = visit[c][n]
  BY <1>0, VisitFacts DEF IInv, TypeOK, Dir
<1>u. stmt[c] = "mkdir" /\ UNCHANGED <<filed, removed>>
  BY DEF Mkdir
<1>p. ~removed => After(c, n - 1)
  BY <1>0, <1>u DEF IInv, Progress
<1>s. fs' = fs => Kept /\ Kind(visit[c][n])' = Kind(visit[c][n])
  BY <1>u DEF IInv, TypeOK, Kept, WellFormed, Exists, Kind
<1>2. CASE ~IsEmpty(c) /\ Exists(Dir(c))
  <2>1. Made(c) /\ fs' = fs
    BY <1>2 DEF Mkdir
  <2>2. ~filed /\ ~removed => Kind(visit[c][n]) = "dir"
    <3>1. ~filed /\ ~removed => Kind(visit[c][n]) # "file"
      BY <1>1, <1>2, <1>u DEF IInv, StatSaw
    <3>2. Kind(visit[c][n]) \in {"none", "dir", "file"}
      BY <1>1 DEF IInv, TypeOK, Kind
    <3> QED
      BY <3>1, <3>2, <1>1, <1>2 DEF Exists
  <2>3. Exists(visit[c][n])'
    BY <2>1, <1>1, <1>2 DEF Exists, Kind
  <2> QED
    BY <1>0, <1>u, <1>s, <2>1, <2>2, <2>3, MadeStep
<1>3. CASE ~IsEmpty(c) /\ ~Exists(Dir(c)) /\ Kind(Parent(Dir(c))) = "dir"
  <2>1. Made(c) /\ fs' = [fs EXCEPT ![visit[c][n]] = "dir"]
    BY <1>1, <1>3 DEF Mkdir
  <2>2. visit[c][n] \in Places
    BY <1>1, <1>3 DEF Exists, Kind
  <2>3. /\ fs' \in [Places -> {"none", "dir", "file"}]
        /\ Kind(visit[c][n])' = "dir"
        /\ \A e \in Places \cup {Root} : e # visit[c][n] => Kind(e)' = Kind(e)
        /\ WellFormed'
    BY <1>1, <1>3, <2>1, <2>2, Adding DEF IInv
  <2>4. Kept
    BY <1>u, <1>1, <1>3, <2>3 DEF Kept, Exists
  <2> QED
    BY <1>0, <1>u, <2>1, <2>3, <2>4, MadeStep DEF Exists
<1>4. CASE IsEmpty(c) \/ (~Exists(Dir(c)) /\ Kind(Parent(Dir(c))) # "dir")
  <2>1. Goto(c, "failed") /\ fs' = fs
    BY <1>4 DEF Mkdir
  <2>2. at' = [at EXCEPT ![c] = n] /\ stmt' = [stmt EXCEPT ![c] = "failed"]
    BY <2>1, <1>0 DEF Goto, IInv, TypeOK
  <2>p. ASSUME ~removed PROVE After(c, n - 1)'
    <3>0. Kept
      BY <1>s, <2>1
    <3>1. n - 1 \in 0..Len(visit[c])
      BY <1>1, VisitFacts
    <3> QED
      BY <1>p, <2>p, <3>0, <3>1, AfterKept
  <2>3. ASSUME ~removed, ~IsEmpty(c)
        PROVE  \E k \in 1..Len(visit[c]) : Kind(visit[c][k])' = "file"
    <3>3. n # 1
      BY <1>1, <1>4, <2>3, VisitFacts DEF Kind, Exists
    <3>4. n \in 2..Len(visit[c]) /\ n - 1 \in 1..(n - 1) /\ n - 1 \in 1..Len(visit[c])
      BY <1>1, <3>3, VisitFacts
    <3>5. Exists(visit[c][n - 1])
      BY <1>p, <2>3, <3>4 DEF After
    <3>6. Parent(visit[c][n]) = visit[c][n - 1]
      BY <2>3, <3>4, <3>5, <1>1, <1>4, VisitFacts
    <3>7. Kind(visit[c][n - 1]) = "file"
      <4>1. visit[c][n - 1] \in Places \cup {Root}
        BY <3>4, VisitFacts
      <4> QED
        BY <2>3, <4>1, <3>5, <3>6, <1>1, <1>4 DEF Exists, Kind, IInv, TypeOK
    <3>8. Kind(visit[c][n - 1])' = "file"
      BY <3>7, <2>1 DEF Kind
    <3> QED
      BY <3>4, <3>8
  <2> QED
    BY <1>1, <1>s, <2>1, <2>2, <2>p, <2>3, CallStep
<1> QED
  BY <1>2, <1>3, <1>4

\* Others: a new file leaves alone what exists, a removal ends all promises.
LEMMA MakeFileKeeps == ASSUME IInv, NEW d \in Places, MakeFile(d) PROVE IInv'
<1>1. /\ fs' \in [Places -> {"none", "dir", "file"}]
      /\ Kind(d)' = "file"
      /\ \A e \in Places \cup {Root} : e # d => Kind(e)' = Kind(e)
      /\ WellFormed'
  BY Adding DEF IInv, MakeFile
<1>2. filed' /\ UNCHANGED <<at, stmt, removed>>
  BY DEF MakeFile
<1>3. \A e \in Places \cup {Root} : Exists(e) => Kind(e)' = Kind(e)
  BY <1>1 DEF MakeFile
<1>4. TypeOK'
  BY <1>1, <1>2 DEF IInv, TypeOK, MakeFile
<1>5. ASSUME NEW c \in Calls, NEW n \in 0..Len(visit[c]), After(c, n)
      PROVE  After(c, n)'
  <2> SUFFICES ASSUME NEW j \in 1..n
               PROVE  /\ Exists(visit[c][j])'
                      /\ visit[c][j] # visit[c][n] => Kind(visit[c][j])' = "dir"
    BY <1>2 DEF After
  <2>1. visit[c][j] \in Places \cup {Root}
    BY VisitFacts
  <2>2. Exists(visit[c][j]) /\ (visit[c][j] # visit[c][n] => Kind(visit[c][j]) = "dir")
    BY <1>5 DEF After
  <2> QED
    BY <1>3, <2>1, <2>2 DEF Exists
<1>6. Progress'
  <2> SUFFICES ASSUME ~removed, NEW c \in Calls
               PROVE  (IF stmt[c] = "made" THEN After(c, Len(visit[c])) ELSE After(c, at[c] - 1))'
    BY <1>2 DEF Progress
  <2>1. IF stmt[c] = "made" THEN After(c, Len(visit[c])) ELSE After(c, at[c] - 1)
    BY DEF IInv, Progress
  <2>2. PICK n \in 0..Len(visit[c]) : n = IF stmt[c] = "made" THEN Len(visit[c]) ELSE at[c] - 1
    BY VisitFacts DEF IInv, TypeOK
  <2>3. After(c, n)'
    BY <1>5, <2>1, <2>2
  <2> QED
    BY <2>2, <2>3, <1>2
<1>7. FailsForAReason'
  <2> SUFFICES ASSUME ~removed, NEW c \in Calls, stmt[c] = "failed", ~IsEmpty(c)
               PROVE  \E k \in 1..Len(visit[c]) : Kind(visit[c][k])' = "file"
    BY <1>2 DEF FailsForAReason, IsEmpty
  <2>1. PICK k \in 1..Len(visit[c]) : Kind(visit[c][k]) = "file"
    BY DEF IInv, FailsForAReason
  <2>2. visit[c][k] \in Places \cup {Root} /\ Exists(visit[c][k])
    BY <2>1, VisitFacts DEF Exists
  <2> QED
    BY <2>1, <2>2, <1>3
<1>8. StatSaw'
  BY <1>2 DEF StatSaw
<1> QED
  BY <1>1, <1>4, <1>6, <1>7, <1>8 DEF IInv

LEMMA RemoveKeeps == ASSUME IInv, NEW d \in Places, RemovePlace(d) PROVE IInv'
<1>0. d # Root /\ removed' /\ UNCHANGED <<at, stmt, filed>>
  BY DEF Places, RemovePlace
<1>1. /\ fs' \in [Places -> {"none", "dir", "file"}]
      /\ Kind(d)' = "none"
      /\ \A e \in Places \cup {Root} : e # d => Kind(e)' = Kind(e)
  BY <1>0 DEF IInv, TypeOK, RemovePlace, Kind
<1>2. WellFormed'
  <2> SUFFICES ASSUME NEW e \in Places, Exists(e)', Parent(e) \in Places \cup {Root}
               PROVE  Kind(Parent(e))' = "dir"
    BY DEF WellFormed
  <2>1. e # d /\ Exists(e)
    BY <1>1 DEF Exists
  <2>2. Parent(e) # d
    BY <2>1 DEF RemovePlace
  <2>3. Kind(Parent(e)) = "dir"
    BY <2>1 DEF IInv, WellFormed
  <2> QED
    BY <1>1, <2>2, <2>3
<1>3. TypeOK'
  BY <1>0, <1>1 DEF IInv, TypeOK
<1>4. StatSaw'
  BY <1>0 DEF StatSaw
<1> QED
  BY <1>0, <1>2, <1>3, <1>4 DEF IInv, Progress, FailsForAReason

LEMMA Inductive == IInv /\ [Next]_vars => IInv'
<1> SUFFICES ASSUME IInv, [Next]_vars PROVE IInv'
  OBVIOUS
<1>1. CASE UNCHANGED vars
  <2>0. UNCHANGED <<fs, at, stmt, filed, removed>>
    BY <1>1 DEF vars
  <2>1. TypeOK' /\ WellFormed'
    BY <2>0 DEF IInv, TypeOK, WellFormed, Exists, Kind
  <2>2. Progress'
    BY <2>0 DEF IInv, Progress, After, Exists, Kind
  <2>3. StatSaw'
    BY <2>0 DEF IInv, StatSaw, IsEmpty, Kind, Dir
  <2>4. FailsForAReason'
    BY <2>0 DEF IInv, FailsForAReason, IsEmpty, Kind
  <2> QED
    BY <2>1, <2>2, <2>3, <2>4 DEF IInv
<1>2. CASE Next
  BY <1>2, StatKeeps, MkdirKeeps, MakeFileKeeps, RemoveKeeps DEF Next
<1> QED
  BY <1>1, <1>2

\* utils.cpp, mkpath(): however many calls run at once, on whatever paths, one
\* fails only if its path is empty, others removed something or a file is in its
\* way, and one that succeeds has its path there.
THEOREM MkPathIsCorrect == Spec => []MkPathMeaning
<1>1. IInv => MkPathMeaning
  <2> SUFFICES ASSUME IInv, NEW c \in Calls, stmt[c] = "made", ~removed,
                      NEW k \in 1..Len(visit[c])
               PROVE  /\ Exists(visit[c][k])
                      /\ visit[c][k] # visit[c][Len(visit[c])] \/ ~filed => Kind(visit[c][k]) = "dir"
    BY DEF MkPathMeaning, EnsuresPath, IInv
  <2>1. After(c, Len(visit[c]))
    BY DEF IInv, Progress
  <2> QED
    BY <2>1 DEF After
<1> QED
  BY Initially, Inductive, <1>1, PTL DEF Spec
-----------------------------------------------------------------------------
(* Numbers and sequences *)

\* A set of numbers has a least one.
LEMMA LeastOf ==
  ASSUME NEW T, T \subseteq Nat, T # {}
  PROVE  \E n \in T : \A m \in T : n <= m
  <1>1. PICK n \in T : \A m \in T : ~ <<m, n>> \in OpToRel(<, Nat)
    BY NatLessThanWellFounded, WFMin
  <1>2. ASSUME NEW m \in T
        PROVE  n <= m
    <2>1. <<m, n>> \in Nat \X Nat /\ ~ <<m, n>> \in OpToRel(<, Nat)
      BY <1>1
    <2>2. ~(m < n)
      BY <2>1 DEF OpToRel
    <2>3. QED
      BY <2>2
  <1>3. QED
    BY <1>2

\* Min is the least one.
LEMMA MinOf ==
  ASSUME NEW T, T \subseteq Nat, T # {}
  PROVE  Min(T) \in T /\ \A m \in T : Min(T) <= m
  <1>1. \E n \in T : \A m \in T : n <= m
    BY LeastOf
  <1>2. QED
    BY <1>1 DEF Min

\* The characters from one place to another.
LEMMA PartOf ==
  ASSUME NEW S, NEW s \in Seq(S), NEW i \in Nat, NEW j \in Nat, i >= 1, j <= Len(s), i <= j + 1
  PROVE  /\ SubSeq(s, i, j) \in Seq(S) /\ Len(SubSeq(s, i, j)) = j - i + 1
         /\ \A k \in 1 .. j - i + 1 : SubSeq(s, i, j)[k] = s[i + k - 1]
  <1>1. Len(s) \in Nat /\ \A k \in i .. j : s[k] \in S
    <2>1. Len(s) \in Nat
      BY LenProperties
    <2>2. \A k \in i .. j : k \in 1 .. Len(s)
      BY <2>1
    <2>3. QED
      BY <2>1, <2>2, ElementOfSeq
  <1>2. /\ SubSeq(s, i, j) \in Seq(S)
        /\ Len(SubSeq(s, i, j)) = IF i <= j THEN j - i + 1 ELSE 0
        /\ \A k \in 1 .. j - i + 1 : SubSeq(s, i, j)[k] = s[i + k - 1]
    BY <1>1, SubSeqProperties
  <1>3. QED
    BY <1>2
-----------------------------------------------------------------------------
(* buildQueryMap *)

\* string::find.
LEMMA FindFacts ==
  ASSUME NEW S, NEW s \in Seq(S), NEW c, NEW from \in Nat, from <= Len(s)
  PROVE  /\ Find(s, c, from) \in from .. Len(s) /\ Len(s) \in Nat
         /\ Find(s, c, from) < Len(s) => s[Find(s, c, from) + 1] = c
         /\ \A k \in from + 1 .. Find(s, c, from) : s[k] # c
  <1> DEFINE T == {Len(s)} \cup {i \in from .. (Len(s) - 1) : s[i + 1] = c}
  <1>1. Len(s) \in Nat
    BY LenProperties
  <1>2. T \subseteq Nat /\ T # {}
    BY <1>1
  <1>3. Min(T) \in T /\ \A m \in T : Min(T) <= m
    <2> HIDE DEF T
    <2>1. QED
      BY <1>2, MinOf
  <1>4. Find(s, c, from) = Min(T)
    BY DEF Find
  <1> DEFINE e == Min(T)
  <1>5. e \in T /\ \A m \in T : e <= m
    BY <1>3
  <1> HIDE DEF e
  <1>6. e \in from .. Len(s) /\ (e < Len(s) => s[e + 1] = c)
    BY <1>1, <1>5
  <1>7. ASSUME NEW k \in from + 1 .. e, s[k] = c
        PROVE  FALSE
    <2>1. k - 1 \in from .. (Len(s) - 1) /\ s[(k - 1) + 1] = c
      BY <1>1, <1>6, <1>7
    <2>2. k - 1 \in T
      BY <2>1
    <2>3. e <= k - 1
      BY <1>5, <2>2
    <2>4. QED
      BY <1>1, <1>6, <2>3
  <1>8. QED
    BY <1>1, <1>4, <1>6, <1>7 DEF e

\* A name of a field, place by place.
LEMMA NameFacts ==
  ASSUME NEW S, "=" \in S, NEW field \in Seq(S), NEW n \in Seq(S), Names(field, n)
  PROVE  /\ Len(n) \in Nat /\ Len(field) \in Nat /\ Len(n) <= Len(field)
         /\ \A k \in 1 .. Len(n) : n[k] = field[k] /\ n[k] # "="
         /\ Len(n) < Len(field) => field[Len(n) + 1] = "="
  <1>1. Len(n) \in Nat /\ Len(field) \in Nat
    BY LenProperties
  <1>2. \A k \in 1 .. Len(n) : n[k] # "="
    BY DEF Names, Contains
  <1>3. CASE field = n
    BY <1>1, <1>2, <1>3
  <1>4. CASE IsPrefix(Append(n, "="), field)
    <2> DEFINE A == Append(n, "=")
               L == Len(n) + 1
    <2>1. /\ A \in Seq(S) /\ Len(A) = L /\ A[Len(n) + 1] = "="
          /\ \A k \in 1 .. Len(n) : A[k] = n[k]
      BY AppendProperties
    <2>2. Len(A) <= Len(field) /\ SubSeq(A, 1, Len(A)) = SubSeq(field, 1, Len(A))
      BY <1>4 DEF IsPrefix
    <2> HIDE DEF A
    <2>3. L \in Nat /\ 1 \in Nat /\ 1 <= L + 1 /\ L <= Len(field) /\ L <= Len(A) /\ L - 1 + 1 = L
      BY <1>1, <2>1, <2>2
    <2>4. \A k \in 1 .. L - 1 + 1 : SubSeq(A, 1, L)[k] = A[1 + k - 1]
      BY <2>1, <2>3, PartOf
    <2>5. \A k \in 1 .. L - 1 + 1 : SubSeq(field, 1, L)[k] = field[1 + k - 1]
      BY <2>3, PartOf
    <2>6. SubSeq(A, 1, L) = SubSeq(field, 1, L)
      BY <2>1, <2>2
    <2>7. ASSUME NEW k \in 1 .. L
          PROVE  A[k] = field[k]
      <3>1. k \in 1 .. L - 1 + 1 /\ 1 + k - 1 = k
        BY <2>3
      <3>2. QED
        BY <2>4, <2>5, <2>6, <3>1
    <2>8. L \in 1 .. L /\ \A k \in 1 .. Len(n) : k \in 1 .. L
      BY <1>1
    <2>9. field[Len(n) + 1] = "=" /\ \A k \in 1 .. Len(n) : n[k] = field[k]
      BY <2>1, <2>7, <2>8
    <2>10. QED
      BY <1>1, <1>2, <2>3, <2>9
  <1>5. QED
    BY <1>3, <1>4 DEF Names

\* A field has one name at most.
LEMMA OneName ==
  ASSUME NEW S, "=" \in S, NEW field \in Seq(S), NEW m \in Seq(S), NEW n \in Seq(S),
         Names(field, m), Names(field, n)
  PROVE  m = n
  <1>1. /\ Len(m) \in Nat /\ Len(field) \in Nat /\ Len(m) <= Len(field)
        /\ \A k \in 1 .. Len(m) : m[k] = field[k] /\ m[k] # "="
        /\ Len(m) < Len(field) => field[Len(m) + 1] = "="
    BY NameFacts
  <1>2. /\ Len(n) \in Nat /\ Len(n) <= Len(field)
        /\ \A k \in 1 .. Len(n) : n[k] = field[k] /\ n[k] # "="
        /\ Len(n) < Len(field) => field[Len(n) + 1] = "="
    BY NameFacts
  <1>3. ~(Len(m) < Len(n))
    <2>1. SUFFICES ASSUME Len(m) < Len(n)
                   PROVE  FALSE
      OBVIOUS
    <2>2. Len(m) + 1 \in 1 .. Len(n) /\ Len(m) < Len(field)
      BY <1>1, <1>2, <2>1
    <2>3. QED
      BY <1>1, <1>2, <2>2
  <1>4. ~(Len(n) < Len(m))
    <2>1. SUFFICES ASSUME Len(n) < Len(m)
                   PROVE  FALSE
      OBVIOUS
    <2>2. Len(n) + 1 \in 1 .. Len(m) /\ Len(n) < Len(field)
      BY <1>1, <1>2, <2>1
    <2>3. QED
      BY <1>1, <1>2, <2>2
  <1>5. Len(m) = Len(n)
    BY <1>1, <1>2, <1>3, <1>4
  <1>6. \A k \in 1 .. Len(m) : m[k] = n[k]
    BY <1>1, <1>2, <1>5
  <1>7. QED
    BY <1>5, <1>6, SeqEqual

\* What a field stands for has its name.
LEMMA StandsHasName ==
  ASSUME NEW S, "=" \in S, NEW n \in Seq(S), NEW v \in Seq(S), NEW field, Stands(field, n, v)
  PROVE  Names(field, n)
  <1>1. CASE field = n
    BY <1>1 DEF Stands, Names
  <1>2. CASE field = Append(n, "=") \o v
    <2> DEFINE A == Append(n, "=")
    <2>1. A \in Seq(S) /\ Len(A) = Len(n) + 1 /\ Len(n) \in Nat /\ Len(v) \in Nat
      BY AppendProperties, LenProperties
    <2> HIDE DEF A
    <2>2. Len(A \o v) = Len(A) + Len(v) /\ 1 \in 1 .. Len(A) /\ Len(A) \in 1 .. Len(A)
      <3>1. Len(A \o v) = Len(A) + Len(v)
        BY <2>1, ConcatProperties
      <3>2. QED
        BY <2>1, <3>1
    <2>3. SubSeq(A \o v, 1, Len(A)) = SubSeq(A, 1, Len(A))
      BY <2>1, <2>2, SubSeqOfConcat1
    <2>4. IsPrefix(A, A \o v)
      BY <2>1, <2>2, <2>3 DEF IsPrefix
    <2>5. QED
      BY <1>2, <2>4 DEF A, Stands, Names
  <1>3. QED
    BY <1>1, <1>2 DEF Stands

\* A token stands for the pair that is made of it.
LEMMA ParameterMeans ==
  ASSUME NEW S, NEW token \in Seq(S), "=" \in S
  PROVE  /\ Parameter(token)[1] \in Seq(S) /\ Parameter(token)[2] \in Seq(S)
         /\ Stands(token, Parameter(token)[1], Parameter(token)[2])
  <1> DEFINE e == Find(token, "=", 0)
             name == SubSeq(token, 1, e)
             value == SubSeq(token, e + 2, Len(token))
  <1>1. Len(token) \in Nat
    BY LenProperties
  <1>2. /\ e \in 0 .. Len(token)
        /\ e < Len(token) => token[e + 1] = "="
        /\ \A k \in 1 .. e : token[k] # "="
    <2>1. 0 \in Nat /\ 0 <= Len(token)
      BY <1>1
    <2>2. /\ e \in 0 .. Len(token)
          /\ e < Len(token) => token[e + 1] = "="
          /\ \A k \in 0 + 1 .. e : token[k] # "="
      BY <2>1, FindFacts
    <2>3. QED
      BY <2>2
  <1>3. Parameter(token) = <<name, value>>
    <2>1. Parameter(token) = <<SubSeq(token, 0 + 1, e), SubSeq(token, e + 1 + 1, Len(token))>>
      BY DEF Parameter, Substr
    <2> HIDE DEF e
    <2>2. 0 + 1 = 1 /\ e + 1 + 1 = e + 2
      BY <1>1, <1>2
    <2>3. QED
      BY <2>1, <2>2
  <1> HIDE DEF e
  <1>4. /\ name \in Seq(S) /\ Len(name) = e /\ \A k \in 1 .. e : name[k] = token[k]
    <2>1. 1 \in Nat /\ e \in Nat /\ e <= Len(token) /\ 1 <= e + 1
      BY <1>1, <1>2
    <2>2. /\ name \in Seq(S) /\ Len(name) = e - 1 + 1
          /\ \A k \in 1 .. e - 1 + 1 : name[k] = token[1 + k - 1]
      BY <2>1, PartOf
    <2> HIDE DEF name
    <2>3. QED
      BY <1>2, <2>1, <2>2
  <1> HIDE DEF name, value
  <1>5. ~Contains(name, "=")
    BY <1>2, <1>4 DEF Contains
  <1>6. CASE e = Len(token)
    <2>1. name = token
      BY <1>4, <1>6, SeqEqual
    <2>2. value = <<>>
      <3>1. e + 2 \in Int /\ Len(token) \in Int /\ Len(token) < e + 2
        BY <1>1, <1>6
      <3>2. QED
        BY <3>1, SubSeqEmpty DEF value
    <2>3. value \in Seq(S)
      BY <2>2, EmptySeq
    <2>4. QED
      BY <1>3, <1>4, <1>5, <2>1, <2>2, <2>3 DEF Stands
  <1>7. CASE e < Len(token)
    <2>1. e + 2 \in Nat /\ e + 2 >= 1 /\ Len(token) <= Len(token) /\ e + 2 <= Len(token) + 1
      BY <1>1, <1>2, <1>7
    <2>2. /\ value \in Seq(S) /\ Len(value) = Len(token) - (e + 2) + 1
          /\ \A k \in 1 .. Len(token) - (e + 2) + 1 : value[k] = token[(e + 2) + k - 1]
      BY <1>1, <2>1, PartOf DEF value
    <2> DEFINE A == Append(name, "=")
    <2>3. /\ A \in Seq(S) /\ Len(A) = Len(name) + 1 /\ A[Len(name) + 1] = "="
          /\ \A k \in 1 .. Len(name) : A[k] = name[k]
      BY <1>4, AppendProperties
    <2> HIDE DEF A
    <2>4. /\ A \o value \in Seq(S) /\ Len(A \o value) = Len(A) + Len(value)
          /\ \A k \in 1 .. Len(A) + Len(value) :
                (A \o value)[k] = IF k <= Len(A) THEN A[k] ELSE value[k - Len(A)]
      BY <2>2, <2>3, ConcatProperties
    <2>5. Len(A) = e + 1 /\ Len(A) + Len(value) = Len(token)
      BY <1>1, <1>2, <1>4, <2>2, <2>3
    <2>6. ASSUME NEW k \in 1 .. Len(token)
          PROVE  (A \o value)[k] = token[k]
      <3>1. CASE k <= e
        <4>1. k \in 1 .. e /\ k <= Len(A) /\ k \in 1 .. Len(name)
          BY <1>1, <1>2, <1>4, <2>5, <3>1
        <4>2. QED
          BY <1>4, <2>3, <2>4, <2>5, <4>1
      <3>2. CASE k = e + 1
        <4>1. k <= Len(A)
          BY <2>5, <3>2, <1>2
        <4>2. QED
          BY <1>2, <1>4, <1>7, <2>3, <2>4, <2>5, <3>2, <4>1
      <3>3. CASE k > e + 1
        <4>1. /\ ~(k <= Len(A)) /\ k - Len(A) \in 1 .. Len(token) - (e + 2) + 1
              /\ (e + 2) + (k - Len(A)) - 1 = k
          BY <1>1, <1>2, <2>5, <3>3
        <4>2. (A \o value)[k] = value[k - Len(A)]
          BY <2>4, <2>5, <4>1
        <4>3. PICK j : j = k - Len(A)
          OBVIOUS
        <4>4. PICK q : q = (e + 2) + j - 1
          OBVIOUS
        <4>5. value[j] = token[q]
          BY <2>2, <4>1, <4>3, <4>4
        <4>6. q = k
          BY <4>1, <4>3, <4>4
        <4>7. QED
          BY <4>2, <4>3, <4>5, <4>6
      <3>4. k <= e \/ k = e + 1 \/ k > e + 1
        BY <1>1, <1>2
      <3>5. QED
        BY <3>1, <3>2, <3>3, <3>4
    <2>7. A \o value = token
      BY <2>4, <2>5, <2>6, SeqEqual
    <2>8. Stands(token, name, value)
      BY <1>5, <2>7 DEF A, Stands
    <2>9. QED
      BY <1>3, <1>4, <2>2, <2>8
  <1>8. QED
    BY <1>1, <1>2, <1>6, <1>7

\* The turns of the loop are what their recursion says.
LEMMA QueryTurnsDef ==
  ASSUME NEW S, NEW query \in Seq(S)
  PROVE  \A n \in 0 .. Len(query) :
            QueryTurns(query)[n] = IF n = 0 THEN [from |-> 0, map |-> <<>>]
                                   ELSE NextParameter(query, QueryTurns(query)[n - 1])
  <1> DEFINE First == [from |-> 0, map |-> <<>>]
             Turn(s) == NextParameter(query, s)
             Good(n, f) == f = [k \in 0 .. n |-> IF k = 0 THEN First ELSE Turn(f[k - 1])]
             Bad == {n \in Nat : ~ \E f : Good(n, f)}
  <1>1. Len(query) \in Nat
    BY LenProperties
  <1> HIDE DEF First, Turn
  <1>2. Bad = {}
    <2> SUFFICES ASSUME Bad # {} PROVE FALSE
      OBVIOUS
    <2>1. PICK n \in Bad : \A m \in Bad : n <= m
      BY LeastOf
    <2>2. CASE n = 0
      <3>1. Good(0, [k \in 0 .. 0 |-> First])
        OBVIOUS
      <3>2. QED
        BY <2>2, <3>1
    <2>3. CASE n # 0
      <3>0. n \in Nat \ {0}
        BY <2>1, <2>3
      <3>1. n - 1 \in Nat /\ n - 1 \notin Bad
        <4>1. n - 1 \in Nat /\ ~(n <= n - 1)
          BY <3>0
        <4>2. QED
          BY <2>1, <4>1
      <3>2. PICK f : Good(n - 1, f)
        BY <3>1
      <3> DEFINE g == [k \in 0 .. n |-> IF k = n THEN Turn(f[n - 1]) ELSE f[k]]
      <3>3. ASSUME NEW k \in 0 .. n
            PROVE  g[k] = IF k = 0 THEN First ELSE Turn(g[k - 1])
        <4>1. CASE k = n
          BY <2>3, <3>1, <4>1
        <4>2. CASE k # n
          <5>1. k \in 0 .. n - 1 /\ (k # 0 => k - 1 \in 0 .. n /\ k - 1 # n)
            BY <3>1, <4>2
          <5>2. f[k] = IF k = 0 THEN First ELSE Turn(f[k - 1])
            BY <3>2, <5>1
          <5>3. QED
            BY <4>2, <5>1, <5>2
        <4>3. QED
          BY <4>1, <4>2
      <3>4. Good(n, g)
        BY <3>3
      <3>5. QED
        BY <3>4
    <2>4. QED
      BY <2>2, <2>3
  <1>3. \E f : Good(Len(query), f)
    BY <1>1, <1>2
  <1>4. QueryTurns(query) = CHOOSE f : Good(Len(query), f)
    BY DEF QueryTurns, First, Turn
  <1>5. Good(Len(query), QueryTurns(query))
    BY <1>3, <1>4
  <1>6. QED
    BY <1>5 DEF First, Turn

\* The text of a field.
TextOf(query, f) == SubSeq(query, f[1], f[2])

\* The loop has come to from, which is behind an "&" or at an end, and met no empty field.
CameTo(query, from) ==
    /\ from \in 0 .. Len(query) + 1
    /\ from \in 1 .. Len(query) => query[from] = "&"
    /\ \A i \in 1 .. from : ~Field(query, i, i - 1)

\* The map of the fields before from.
MapOf(S, query, from, map) ==
    /\ DOMAIN map \subseteq Seq(S)
    /\ \A f \in Fields(query) :
          f[1] <= from => \E name \in DOMAIN map : Names(TextOf(query, f), name)
    /\ \A name \in DOMAIN map :
          \E f \in Fields(query) :
              /\ f[1] <= from
              /\ Stands(TextOf(query, f), name, map[name])
              /\ \A g \in Fields(query) : Names(TextOf(query, g), name) => f[1] <= g[1]

\* A field that is behind from and begins no later than behind the next "&" is the next one.
LEMMA NextField ==
  ASSUME NEW S, NEW query \in Seq(S), NEW from \in Nat, from < Len(query),
         NEW e \in from + 1 .. Len(query), CameTo(query, from),
         e < Len(query) => query[e + 1] = "&",
         \A k \in from + 1 .. e : query[k] # "&"
  PROVE  /\ CameTo(query, e + 1)
         /\ <<from + 1, e>> \in Fields(query)
         /\ \A f \in Fields(query) : f[1] <= from \/ f = <<from + 1, e>> \/ f[1] > e + 1
  <1>1. Len(query) \in Nat /\ e \in Nat
    BY LenProperties
  <1>2. /\ from \in 1 .. Len(query) => query[from] = "&"
        /\ \A i \in 1 .. from : ~Field(query, i, i - 1)
    BY DEF CameTo
  <1>3. CameTo(query, e + 1)
    <2>1. e + 1 \in 0 .. Len(query) + 1 /\ (e + 1 \in 1 .. Len(query) => query[e + 1] = "&")
      BY <1>1
    <2>2. ASSUME NEW i \in 1 .. e + 1, Field(query, i, i - 1)
          PROVE  FALSE
      <3>1. /\ i = 1 \/ query[i - 1] = "&"
            /\ i - 1 = Len(query) \/ query[(i - 1) + 1] = "&"
        BY <2>2 DEF Field
      <3>2. CASE i <= from
        BY <1>2, <2>2, <3>2
      <3>3. CASE i = from + 1
        <4>1. i \in from + 1 .. e /\ i - 1 # Len(query) /\ (i - 1) + 1 = i
          BY <1>1, <3>3
        <4>2. QED
          BY <3>1, <4>1
      <3>4. CASE i > from + 1
        <4>1. i - 1 \in from + 1 .. e /\ i # 1
          BY <1>1, <3>4
        <4>2. QED
          BY <3>1, <4>1
      <3>5. QED
        BY <1>1, <3>2, <3>3, <3>4
    <2>3. QED
      BY <2>1, <2>2 DEF CameTo
  <1>4. <<from + 1, e>> \in Fields(query)
    <2>1. from + 1 \in 1 .. Len(query) /\ e \in 1 .. Len(query) /\ from + 1 <= e
      BY <1>1
    <2>2. from + 1 = 1 \/ query[(from + 1) - 1] = "&"
      <3>1. from = 0 \/ from \in 1 .. Len(query)
        BY <1>1
      <3>2. (from + 1) - 1 = from
        OBVIOUS
      <3>3. QED
        BY <1>2, <3>1, <3>2
    <2>3. e = Len(query) \/ query[e + 1] = "&"
      BY <1>1
    <2>4. Field(query, from + 1, e)
      BY <2>2, <2>3 DEF Field
    <2>5. ~ \E i \in 1 .. ((from + 1) - 1) : Field(query, i, i - 1)
      <3>1. (from + 1) - 1 = from
        OBVIOUS
      <3>2. QED
        BY <1>2, <3>1
    <2>6. QED
      BY <2>1, <2>4, <2>5 DEF Fields
  <1>5. ASSUME NEW f \in Fields(query), f[1] > from, f[1] <= e + 1
        PROVE  f = <<from + 1, e>>
    <2>1. /\ f = <<f[1], f[2]>> /\ f[1] \in 1 .. Len(query) /\ f[2] \in 1 .. Len(query)
          /\ f[1] <= f[2] /\ Field(query, f[1], f[2])
      BY DEF Fields
    <2>2. PICK i, j : i = f[1] /\ j = f[2]
      OBVIOUS
    <2>3. /\ i \in 1 .. Len(query) /\ j \in 1 .. Len(query) /\ i <= j /\ i > from /\ i <= e + 1
          /\ i = 1 \/ query[i - 1] = "&"
          /\ j = Len(query) \/ query[j + 1] = "&"
          /\ \A k \in i .. j : query[k] # "&"
      BY <1>5, <2>1, <2>2 DEF Field
    <2>4. i = from + 1
      <3>1. SUFFICES ASSUME i # from + 1
                     PROVE  FALSE
        OBVIOUS
      <3>2. i - 1 \in from + 1 .. e /\ i # 1
        BY <1>1, <2>3, <3>1
      <3>3. QED
        BY <2>3, <3>2
    <2>5. ~(j < e)
      <3>1. SUFFICES ASSUME j < e
                     PROVE  FALSE
        OBVIOUS
      <3>2. j # Len(query) /\ j + 1 \in from + 1 .. e
        BY <1>1, <2>3, <2>4, <3>1
      <3>3. QED
        BY <2>3, <3>2
    <2>6. ~(j > e)
      <3>1. SUFFICES ASSUME j > e
                     PROVE  FALSE
        OBVIOUS
      <3>2. e < Len(query) /\ e + 1 \in i .. j
        BY <1>1, <2>3, <2>4, <3>1
      <3>3. QED
        BY <2>3, <3>2
    <2>7. j = e
      BY <1>1, <2>3, <2>5, <2>6
    <2>8. QED
      BY <2>1, <2>2, <2>4, <2>7
  <1>6. \A f \in Fields(query) : f[1] \in Nat
    BY DEF Fields
  <1>7. QED
    BY <1>1, <1>3, <1>4, <1>5, <1>6

\* Where the loop ends there is no further field.
LEMMA LoopLeft ==
  ASSUME NEW S, NEW query \in Seq(S), NEW from, CameTo(query, from),
         getNextQuery(query, from) = <<>>
  PROVE  \A f \in Fields(query) : f[1] <= from
  <1>1. Len(query) \in Nat /\ from \in Nat
    BY LenProperties DEF CameTo
  <1>2. SUFFICES ASSUME NEW f \in Fields(query), f[1] > from
                 PROVE  FALSE
    <2>1. \A f \in Fields(query) : f[1] \in Nat
      BY DEF Fields
    <2>2. QED
      BY <1>1, <1>2, <2>1
  <1>3. /\ f[1] \in 1 .. Len(query) /\ f[2] \in 1 .. Len(query)
        /\ f[1] <= f[2] /\ Field(query, f[1], f[2])
        /\ ~ \E i \in 1 .. (f[1] - 1) : Field(query, i, i - 1)
    BY DEF Fields
  <1>4. from < Len(query)
    BY <1>1, <1>2, <1>3
  <1> DEFINE e == Find(query, "&", from)
  <1>5. e \in from .. Len(query) /\ (e < Len(query) => query[e + 1] = "&")
    BY <1>1, <1>4, FindFacts
  <1>6. SubSeq(query, from + 1, e) = <<>>
    BY <1>1, <1>4 DEF getNextQuery, Substr
  <1> HIDE DEF e
  <1>7. e = from
    <2>1. /\ from + 1 \in Nat /\ e \in Nat /\ from + 1 >= 1 /\ e <= Len(query)
          /\ from + 1 <= e + 1
      BY <1>1, <1>5
    <2>2. Len(SubSeq(query, from + 1, e)) = e - (from + 1) + 1
      BY <2>1, PartOf
    <2>3. Len(<<>>) = 0
      OBVIOUS
    <2>4. QED
      BY <1>1, <1>6, <2>1, <2>2, <2>3
  <1>8. query[from + 1] = "&"
    BY <1>4, <1>5, <1>7
  <1>9. CASE f[1] = from + 1
    <2>1. f[1] \in f[1] .. f[2]
      BY <1>3
    <2>2. query[f[1]] # "&"
      BY <1>3, <2>1 DEF Field
    <2>3. QED
      BY <1>8, <1>9, <2>2
  <1>10. CASE f[1] > from + 1
    <2>1. from + 1 \in 1 .. (f[1] - 1)
      BY <1>1, <1>3, <1>10
    <2>2. from + 1 = 1 \/ query[(from + 1) - 1] = "&"
      <3>1. from = 0 \/ from \in 1 .. Len(query)
        BY <1>1, <1>4
      <3>2. (from + 1) - 1 = from
        BY <1>1
      <3>3. QED
        BY <3>1, <3>2 DEF CameTo
    <2>3. query[((from + 1) - 1) + 1] = "&"
      <3>1. ((from + 1) - 1) + 1 = from + 1
        BY <1>1
      <3>2. QED
        BY <1>8, <3>1
    <2>4. (from + 1) .. ((from + 1) - 1) = {}
      BY <1>1
    <2>5. Field(query, from + 1, (from + 1) - 1)
      BY <2>2, <2>3, <2>4 DEF Field
    <2>6. QED
      BY <1>3, <2>1, <2>5
  <1>11. QED
    BY <1>1, <1>2, <1>3, <1>9, <1>10

\* A parameter is added to the map.
LEMMA MapGrows ==
  ASSUME NEW S, "=" \in S, NEW query \in Seq(S), NEW from \in Nat, NEW e \in Nat,
         NEW map, MapOf(S, query, from, map), from < e,
         <<from + 1, e>> \in Fields(query),
         \A f \in Fields(query) : f[1] <= from \/ f = <<from + 1, e>> \/ f[1] > e + 1
  PROVE  MapOf(S, query, e + 1, insert(map, Parameter(SubSeq(query, from + 1, e))))
  <1> DEFINE new == <<from + 1, e>>
             token == SubSeq(query, from + 1, e)
             p == Parameter(token)
             after == insert(map, p)
  <1>1. \A f \in Fields(query) : f[1] \in Nat /\ TextOf(query, f) \in Seq(S)
    <2>1. TAKE f \in Fields(query)
    <2>2. f[1] \in 1 .. Len(query) /\ f[2] \in 1 .. Len(query) /\ f[1] <= f[2]
      BY DEF Fields
    <2>3. PICK i, j : i = f[1] /\ j = f[2]
      OBVIOUS
    <2>4. i \in Nat /\ j \in Nat /\ i >= 1 /\ j <= Len(query) /\ i <= j + 1
      BY <2>2, <2>3, LenProperties
    <2>5. SubSeq(query, i, j) \in Seq(S)
      BY <2>4, PartOf
    <2>6. QED
      BY <2>3, <2>4, <2>5 DEF TextOf
  <1>2. TextOf(query, new) = token /\ token \in Seq(S) /\ new[1] = from + 1
    BY <1>1 DEF TextOf
  <1> HIDE DEF token
  <1>3. p[1] \in Seq(S) /\ p[2] \in Seq(S) /\ Stands(token, p[1], p[2])
    BY <1>2, ParameterMeans
  <1> HIDE DEF p
  <1>4. Names(token, p[1])
    BY <1>3, StandsHasName
  <1>5. /\ DOMAIN after = DOMAIN map \cup {p[1]}
        /\ \A n \in DOMAIN map : after[n] = map[n]
        /\ p[1] \notin DOMAIN map => after[p[1]] = p[2]
    BY DEF insert
  <1> HIDE DEF after
  <1>6. /\ DOMAIN map \subseteq Seq(S)
        /\ \A f \in Fields(query) :
              f[1] <= from => \E name \in DOMAIN map : Names(TextOf(query, f), name)
        /\ \A name \in DOMAIN map :
              \E f \in Fields(query) :
                  /\ f[1] <= from
                  /\ Stands(TextOf(query, f), name, map[name])
                  /\ \A g \in Fields(query) : Names(TextOf(query, g), name) => f[1] <= g[1]
    BY DEF MapOf
  <1>7. ASSUME NEW f \in Fields(query), f[1] <= e + 1
        PROVE  \E name \in DOMAIN after : Names(TextOf(query, f), name)
    <2>1. CASE f[1] <= from
      BY <1>5, <1>6, <2>1
    <2>2. CASE f = new
      BY <1>2, <1>4, <1>5, <2>2
    <2>3. ~(f[1] > e + 1)
      BY <1>1, <1>7
    <2>4. QED
      BY <2>1, <2>2, <2>3
  <1>8. ASSUME NEW name \in DOMAIN after
        PROVE  \E f \in Fields(query) :
                  /\ f[1] <= e + 1
                  /\ Stands(TextOf(query, f), name, after[name])
                  /\ \A g \in Fields(query) : Names(TextOf(query, g), name) => f[1] <= g[1]
    <2>1. CASE name \in DOMAIN map
      <3>1. PICK f \in Fields(query) :
                  /\ f[1] <= from
                  /\ Stands(TextOf(query, f), name, map[name])
                  /\ \A g \in Fields(query) : Names(TextOf(query, g), name) => f[1] <= g[1]
        BY <1>6, <2>1
      <3>2. f[1] <= e + 1
        BY <1>1, <3>1
      <3>3. QED
        BY <1>5, <2>1, <3>1, <3>2
    <2>2. CASE name \notin DOMAIN map
      <3>1. name = p[1] /\ after[name] = p[2]
        BY <1>5, <2>2
      <3>2. ASSUME NEW g \in Fields(query), Names(TextOf(query, g), name)
            PROVE  new[1] <= g[1]
        <4>1. ~(g[1] <= from)
          <5>1. SUFFICES ASSUME g[1] <= from
                         PROVE  FALSE
            OBVIOUS
          <5>2. PICK m \in DOMAIN map : Names(TextOf(query, g), m)
            BY <1>6, <5>1
          <5>3. m \in Seq(S) /\ name \in Seq(S) /\ TextOf(query, g) \in Seq(S)
            BY <1>1, <1>3, <1>6, <3>1
          <5>4. m = name
            BY <3>2, <5>2, <5>3, OneName
          <5>5. QED
            BY <2>2, <5>4
        <4>2. QED
          BY <1>1, <1>2, <4>1
      <3>3. new[1] <= e + 1 /\ Stands(TextOf(query, new), name, after[name])
        BY <1>2, <1>3, <3>1
      <3>4. QED
        BY <3>2, <3>3
    <2>3. QED
      BY <2>1, <2>2
  <1>9. DOMAIN after \subseteq Seq(S)
    BY <1>3, <1>5, <1>6
  <1>10. QED
    BY <1>7, <1>8, <1>9 DEF MapOf, after, p, token

\* What holds of the loop after n turns.
Turned(S, query, n, s) ==
    /\ CameTo(query, s.from) /\ MapOf(S, query, s.from, s.map)
    /\ s.from >= n \/ getNextQuery(query, s.from) = <<>>

\* A turn keeps it.
LEMMA TurnKeeps ==
  ASSUME NEW S, "=" \in S, NEW query \in Seq(S), NEW n \in Nat, NEW s, Turned(S, query, n, s)
  PROVE  Turned(S, query, n + 1, NextParameter(query, s))
  <1> DEFINE from == s.from
             token == getNextQuery(query, from)
  <1>1. Len(query) \in Nat /\ from \in Nat /\ CameTo(query, from) /\ MapOf(S, query, from, s.map)
    BY LenProperties DEF Turned, CameTo
  <1>2. CASE token = <<>>
    BY <1>2 DEF NextParameter, Turned
  <1>3. CASE token # <<>>
    <2>1. from < Len(query)
      BY <1>1, <1>3 DEF getNextQuery
    <2> DEFINE e == Find(query, "&", from)
    <2>2. /\ e \in from .. Len(query) /\ (e < Len(query) => query[e + 1] = "&")
          /\ \A k \in from + 1 .. e : query[k] # "&"
      BY <1>1, <2>1, FindFacts
    <2>3. token = SubSeq(query, from + 1, e)
      <3>1. ~(from >= Len(query))
        BY <1>1, <2>1
      <3>2. QED
        BY <3>1 DEF getNextQuery, Substr
    <2>4. NextParameter(query, s) =
             [from |-> from + Len(token) + 1, map |-> insert(s.map, Parameter(token))]
      BY <1>3 DEF NextParameter
    <2> HIDE DEF e, token, from
    <2>5. e \in from + 1 .. Len(query) /\ Len(token) = e - from
      <3>1. /\ from + 1 \in Nat /\ e \in Nat /\ from + 1 >= 1 /\ e <= Len(query)
            /\ from + 1 <= e + 1
        BY <1>1, <2>2
      <3>2. Len(token) = e - (from + 1) + 1 /\ token \in Seq(S)
        BY <2>3, <3>1, PartOf
      <3>3. Len(token) # 0
        BY <1>3, <3>2, EmptySeq
      <3>4. QED
        BY <1>1, <2>2, <3>2, <3>3
    <2>6. from + Len(token) + 1 = e + 1 /\ from < e /\ e \in Nat
      BY <1>1, <2>5
    <2>7. /\ CameTo(query, e + 1) /\ <<from + 1, e>> \in Fields(query)
          /\ \A f \in Fields(query) : f[1] <= from \/ f = <<from + 1, e>> \/ f[1] > e + 1
      BY <1>1, <2>1, <2>2, <2>5, NextField
    <2>8. MapOf(S, query, e + 1, insert(s.map, Parameter(token)))
      BY <1>1, <2>3, <2>6, <2>7, MapGrows
    <2> DEFINE t == NextParameter(query, s)
    <2>9. t.from = e + 1 /\ t.map = insert(s.map, Parameter(token))
      BY <2>4, <2>6
    <2> HIDE DEF t
    <2>10. t.from >= n + 1 \/ getNextQuery(query, t.from) = <<>>
      <3>1. CASE from >= n
        BY <1>1, <2>6, <2>9, <3>1
      <3>2. from >= n
        BY <1>3 DEF Turned, from, token
      <3>3. QED
        BY <3>1, <3>2
    <2>11. QED
      BY <2>7, <2>8, <2>9, <2>10 DEF Turned, t
  <1>4. QED
    BY <1>2, <1>3

\* The map says what its query means.
LEMMA QueryIsMeant ==
  ASSUME NEW S, "=" \in S, NEW query \in Seq(S)
  PROVE  QueryCorrect(query)
  <1> DEFINE At(n) == QueryTurns(query)[n]
             Bad == {n \in 0 .. Len(query) : ~Turned(S, query, n, At(n))}
  <1>1. Len(query) \in Nat
    BY LenProperties
  <1>2. \A n \in 0 .. Len(query) :
            At(n) = IF n = 0 THEN [from |-> 0, map |-> <<>>] ELSE NextParameter(query, At(n - 1))
    BY QueryTurnsDef
  <1> HIDE DEF At
  <1>3. Turned(S, query, 0, At(0))
    <2>1. At(0).from = 0 /\ At(0).map = <<>>
      <3>1. 0 \in 0 .. Len(query)
        BY <1>1
      <3>2. At(0) = [from |-> 0, map |-> <<>>]
        BY <1>2, <3>1
      <3>3. QED
        BY <3>2
    <2>2. CameTo(query, 0)
      BY <1>1 DEF CameTo
    <2>3. DOMAIN <<>> = {}
      OBVIOUS
    <2>4. \A f \in Fields(query) : ~(f[1] <= 0)
      BY <1>1 DEF Fields
    <2>5. MapOf(S, query, 0, <<>>)
      BY <2>3, <2>4 DEF MapOf
    <2>6. QED
      BY <2>1, <2>2, <2>5 DEF Turned
  <1>4. Bad = {}
    <2>1. SUFFICES ASSUME Bad # {}
                   PROVE  FALSE
      OBVIOUS
    <2>2. Bad \subseteq Nat
      BY <1>1
    <2>3. PICK n \in Bad : \A m \in Bad : n <= m
      BY <2>1, <2>2, LeastOf
    <2>4. n \in 0 .. Len(query) /\ n # 0 /\ ~Turned(S, query, n, At(n))
      BY <1>3, <2>3
    <2>5. n - 1 \in 0 .. Len(query) /\ n - 1 \in Nat /\ ~(n <= n - 1) /\ (n - 1) + 1 = n
      BY <1>1, <2>4
    <2>6. Turned(S, query, n - 1, At(n - 1))
      BY <2>3, <2>5
    <2>7. Turned(S, query, (n - 1) + 1, NextParameter(query, At(n - 1)))
      BY <2>5, <2>6, TurnKeeps
    <2>8. QED
      BY <1>2, <2>4, <2>5, <2>7
  <1> DEFINE last == At(Len(query))
  <1>5. Turned(S, query, Len(query), last)
    BY <1>1, <1>4
  <1>6. buildQueryMap(query) = last.map
    BY DEF buildQueryMap, At
  <1> HIDE DEF last
  <1>7. getNextQuery(query, last.from) = <<>>
    BY <1>5 DEF Turned, getNextQuery
  <1>8. \A f \in Fields(query) : f[1] <= last.from
    BY <1>5, <1>7, LoopLeft DEF Turned
  <1>9. MapOf(S, query, last.from, last.map)
    BY <1>5 DEF Turned
  <1>10. QED
    BY <1>6, <1>8, <1>9 DEF MapOf, QueryCorrect, TextOf
----------------------------------------------------------------------------
(* Base64 *)

\* A character is a digit or the padding.
Digit == 0 .. 63
Char == 0 .. 64

\* The four digits of three bytes.
LEMMA FourDigits ==
  ASSUME NEW a, a[1] \in Byte, a[2] \in Byte, a[3] \in Byte
  PROVE  /\ Char4(a) \in Seq(Digit) /\ Len(Char4(a)) = 4
         /\ Char4(a)[1] = a[1] \div 4
         /\ Char4(a)[2] = (a[1] % 4) * 16 + a[2] \div 16
         /\ Char4(a)[3] = (a[2] % 16) * 4 + a[3] \div 64
         /\ Char4(a)[4] = a[3] % 64
  <1>1. /\ a[1] \div 4 \in 0 .. 63 /\ (a[1] % 4) * 16 + a[2] \div 16 \in 0 .. 63
        /\ (a[2] % 16) * 4 + a[3] \div 64 \in 0 .. 63 /\ a[3] % 64 \in 0 .. 63
    BY DEF Byte
  <1>2. QED
    BY <1>1 DEF Char4, Digit

\* They hold the bytes.
LEMMA BytesBack ==
  ASSUME NEW b1 \in Byte, NEW b2 \in Byte, NEW b3 \in Byte,
         NEW d, d[1] = b1 \div 4, d[2] = (b1 % 4) * 16 + b2 \div 16
  PROVE  /\ Char3(d)[1] = b1
         /\ d[3] = (b2 % 16) * 4 + b3 \div 64 => Char3(d)[2] = b2
         /\ d[3] = (b2 % 16) * 4 + b3 \div 64 /\ d[4] = b3 % 64 => Char3(d)[3] = b3
  <1>1. Char3(d)[1] = ((d[1] * 4) + (d[2] % 64) \div 16) % 256
    BY DEF Char3
  <1>2. Char3(d)[2] = ((d[2] % 16) * 16 + (d[3] % 64) \div 4) % 256
    BY DEF Char3
  <1>3. Char3(d)[3] = ((d[3] % 4) * 64 + d[4]) % 256
    BY DEF Char3
  <1>4. (((b1 \div 4) * 4) + (((b1 % 4) * 16 + b2 \div 16) % 64) \div 16) % 256 = b1
    BY DEF Byte
  <1>5. ((((b1 % 4) * 16 + b2 \div 16) % 16) * 16
            + (((b2 % 16) * 4 + b3 \div 64) % 64) \div 4) % 256 = b2
    BY DEF Byte
  <1>6. ((((b2 % 16) * 4 + b3 \div 64) % 4) * 64 + (b3 % 64)) % 256 = b3
    BY DEF Byte
  <1>7. QED
    BY <1>1, <1>2, <1>3, <1>4, <1>5, <1>6

\* And their bits are those of the bytes.
LEMMA BitsOfBytes ==
  ASSUME NEW a, a[1] \in Byte, a[2] \in Byte, a[3] \in Byte, NEW r \in 0 .. 23
  PROVE  (Char4(a)[r \div 6 + 1] \div Power[3 + (r % 6)]) % 2
            = (a[r \div 8 + 1] \div Power[1 + (r % 8)]) % 2
  <1>1. /\ Power[1] = 128 /\ Power[2] = 64 /\ Power[3] = 32 /\ Power[4] = 16
        /\ Power[5] = 8 /\ Power[6] = 4 /\ Power[7] = 2 /\ Power[8] = 1
    BY DEF Power
  <1>2. CASE r \in 0 .. 5
    <2>1. /\ ((a[1] \div 4) \div 32) % 2 = (a[1] \div 128) % 2
          /\ ((a[1] \div 4) \div 16) % 2 = (a[1] \div 64) % 2
          /\ ((a[1] \div 4) \div 8) % 2 = (a[1] \div 32) % 2
          /\ ((a[1] \div 4) \div 4) % 2 = (a[1] \div 16) % 2
          /\ ((a[1] \div 4) \div 2) % 2 = (a[1] \div 8) % 2
          /\ ((a[1] \div 4) \div 1) % 2 = (a[1] \div 4) % 2
      BY DEF Byte
    <2>2. r \div 6 + 1 = 1 /\ Char4(a)[1] = (a[1] \div 4)
      BY <1>2, FourDigits
    <2>3. QED
      BY <1>1, <1>2, <2>1, <2>2
  <1>3. CASE r \in 6 .. 11
    <2>1. /\ (((a[1] % 4) * 16 + a[2] \div 16) \div 32) % 2 = (a[1] \div 2) % 2
          /\ (((a[1] % 4) * 16 + a[2] \div 16) \div 16) % 2 = (a[1] \div 1) % 2
          /\ (((a[1] % 4) * 16 + a[2] \div 16) \div 8) % 2 = (a[2] \div 128) % 2
          /\ (((a[1] % 4) * 16 + a[2] \div 16) \div 4) % 2 = (a[2] \div 64) % 2
          /\ (((a[1] % 4) * 16 + a[2] \div 16) \div 2) % 2 = (a[2] \div 32) % 2
          /\ (((a[1] % 4) * 16 + a[2] \div 16) \div 1) % 2 = (a[2] \div 16) % 2
      BY DEF Byte
    <2>2. r \div 6 + 1 = 2 /\ Char4(a)[2] = ((a[1] % 4) * 16 + a[2] \div 16)
      BY <1>3, FourDigits
    <2>3. QED
      BY <1>1, <1>3, <2>1, <2>2
  <1>4. CASE r \in 12 .. 17
    <2>1. /\ (((a[2] % 16) * 4 + a[3] \div 64) \div 32) % 2 = (a[2] \div 8) % 2
          /\ (((a[2] % 16) * 4 + a[3] \div 64) \div 16) % 2 = (a[2] \div 4) % 2
          /\ (((a[2] % 16) * 4 + a[3] \div 64) \div 8) % 2 = (a[2] \div 2) % 2
          /\ (((a[2] % 16) * 4 + a[3] \div 64) \div 4) % 2 = (a[2] \div 1) % 2
          /\ (((a[2] % 16) * 4 + a[3] \div 64) \div 2) % 2 = (a[3] \div 128) % 2
          /\ (((a[2] % 16) * 4 + a[3] \div 64) \div 1) % 2 = (a[3] \div 64) % 2
      BY DEF Byte
    <2>2. r \div 6 + 1 = 3 /\ Char4(a)[3] = ((a[2] % 16) * 4 + a[3] \div 64)
      BY <1>4, FourDigits
    <2>3. QED
      BY <1>1, <1>4, <2>1, <2>2
  <1>5. CASE r \in 18 .. 23
    <2>1. /\ ((a[3] % 64) \div 32) % 2 = (a[3] \div 32) % 2
          /\ ((a[3] % 64) \div 16) % 2 = (a[3] \div 16) % 2
          /\ ((a[3] % 64) \div 8) % 2 = (a[3] \div 8) % 2
          /\ ((a[3] % 64) \div 4) % 2 = (a[3] \div 4) % 2
          /\ ((a[3] % 64) \div 2) % 2 = (a[3] \div 2) % 2
          /\ ((a[3] % 64) \div 1) % 2 = (a[3] \div 1) % 2
      BY DEF Byte
    <2>2. r \div 6 + 1 = 4 /\ Char4(a)[4] = (a[3] % 64)
      BY <1>5, FourDigits
    <2>3. QED
      BY <1>1, <1>5, <2>1, <2>2
  <1>6. QED
    BY <1>2, <1>3, <1>4, <1>5

\* The turns of base64_encode's loop are what their recursion says.
LEMMA EncodeTurnsDef ==
  ASSUME NEW S, NEW bytes \in Seq(S)
  PROVE  \A n \in 0 .. Len(bytes) :
            EncodeTurns(bytes)[n] = IF n = 0 THEN [a |-> <<>>, ret |-> <<>>]
                              ELSE EncodeByte(EncodeTurns(bytes)[n - 1], bytes[n])
  <1> DEFINE First == [a |-> <<>>, ret |-> <<>>]
             Turn(s, k) == EncodeByte(s, bytes[k])
             Good(n, f) == f = [k \in 0 .. n |-> IF k = 0 THEN First ELSE Turn(f[k - 1], k)]
             Bad == {n \in Nat : ~ \E f : Good(n, f)}
  <1>1. Len(bytes) \in Nat
    BY LenProperties
  <1> HIDE DEF First, Turn
  <1>2. Bad = {}
    <2> SUFFICES ASSUME Bad # {} PROVE FALSE
      OBVIOUS
    <2>1. PICK n \in Bad : \A m \in Bad : n <= m
      BY LeastOf
    <2>2. CASE n = 0
      <3>1. Good(0, [k \in 0 .. 0 |-> First])
        OBVIOUS
      <3>2. QED
        BY <2>2, <3>1
    <2>3. CASE n # 0
      <3>0. n \in Nat \ {0}
        BY <2>1, <2>3
      <3>1. n - 1 \in Nat /\ n - 1 \notin Bad
        <4>1. n - 1 \in Nat /\ ~(n <= n - 1)
          BY <3>0
        <4>2. QED
          BY <2>1, <4>1
      <3>2. PICK f : Good(n - 1, f)
        BY <3>1
      <3> DEFINE g == [k \in 0 .. n |-> IF k = n THEN Turn(f[n - 1], n) ELSE f[k]]
      <3>3. ASSUME NEW k \in 0 .. n
            PROVE  g[k] = IF k = 0 THEN First ELSE Turn(g[k - 1], k)
        <4>1. CASE k = n
          BY <2>3, <3>1, <4>1
        <4>2. CASE k # n
          <5>1. k \in 0 .. n - 1 /\ (k # 0 => k - 1 \in 0 .. n /\ k - 1 # n)
            BY <3>1, <4>2
          <5>2. f[k] = IF k = 0 THEN First ELSE Turn(f[k - 1], k)
            BY <3>2, <5>1
          <5>3. QED
            BY <4>2, <5>1, <5>2
        <4>3. QED
          BY <4>1, <4>2
      <3>4. Good(n, g)
        BY <3>3
      <3>5. QED
        BY <3>4
    <2>4. QED
      BY <2>2, <2>3
  <1>3. \E f : Good(Len(bytes), f)
    BY <1>1, <1>2
  <1>4. EncodeTurns(bytes) = CHOOSE f : Good(Len(bytes), f)
    BY DEF EncodeTurns, First, Turn
  <1>5. Good(Len(bytes), EncodeTurns(bytes))
    BY <1>3, <1>4
  <1>6. QED
    BY <1>5 DEF First, Turn

\* So are those of base64_decode's loop.
LEMMA DecodeTurnsDef ==
  ASSUME NEW S, NEW read \in Seq(S)
  PROVE  \A n \in 0 .. Len(read) :
            DecodeTurns(read)[n] = IF n = 0 THEN [a |-> <<>>, ret |-> <<>>]
                              ELSE DecodeChar(DecodeTurns(read)[n - 1], read[n])
  <1> DEFINE First == [a |-> <<>>, ret |-> <<>>]
             Turn(s, k) == DecodeChar(s, read[k])
             Good(n, f) == f = [k \in 0 .. n |-> IF k = 0 THEN First ELSE Turn(f[k - 1], k)]
             Bad == {n \in Nat : ~ \E f : Good(n, f)}
  <1>1. Len(read) \in Nat
    BY LenProperties
  <1> HIDE DEF First, Turn
  <1>2. Bad = {}
    <2> SUFFICES ASSUME Bad # {} PROVE FALSE
      OBVIOUS
    <2>1. PICK n \in Bad : \A m \in Bad : n <= m
      BY LeastOf
    <2>2. CASE n = 0
      <3>1. Good(0, [k \in 0 .. 0 |-> First])
        OBVIOUS
      <3>2. QED
        BY <2>2, <3>1
    <2>3. CASE n # 0
      <3>0. n \in Nat \ {0}
        BY <2>1, <2>3
      <3>1. n - 1 \in Nat /\ n - 1 \notin Bad
        <4>1. n - 1 \in Nat /\ ~(n <= n - 1)
          BY <3>0
        <4>2. QED
          BY <2>1, <4>1
      <3>2. PICK f : Good(n - 1, f)
        BY <3>1
      <3> DEFINE g == [k \in 0 .. n |-> IF k = n THEN Turn(f[n - 1], n) ELSE f[k]]
      <3>3. ASSUME NEW k \in 0 .. n
            PROVE  g[k] = IF k = 0 THEN First ELSE Turn(g[k - 1], k)
        <4>1. CASE k = n
          BY <2>3, <3>1, <4>1
        <4>2. CASE k # n
          <5>1. k \in 0 .. n - 1 /\ (k # 0 => k - 1 \in 0 .. n /\ k - 1 # n)
            BY <3>1, <4>2
          <5>2. f[k] = IF k = 0 THEN First ELSE Turn(f[k - 1], k)
            BY <3>2, <5>1
          <5>3. QED
            BY <4>2, <5>1, <5>2
        <4>3. QED
          BY <4>1, <4>2
      <3>4. Good(n, g)
        BY <3>3
      <3>5. QED
        BY <3>4
    <2>4. QED
      BY <2>2, <2>3
  <1>3. \E f : Good(Len(read), f)
    BY <1>1, <1>2
  <1>4. DecodeTurns(read) = CHOOSE f : Good(Len(read), f)
    BY DEF DecodeTurns, First, Turn
  <1>5. Good(Len(read), DecodeTurns(read))
    BY <1>3, <1>4
  <1>6. QED
    BY <1>5 DEF First, Turn

\* One sequence behind another.
Behind(S, r, w) ==
    /\ r \o w \in Seq(S) /\ Len(r \o w) = Len(r) + Len(w)
    /\ \A i \in 1 .. Len(r) : (r \o w)[i] = r[i]
    /\ \A c \in 1 .. Len(w) : (r \o w)[Len(r) + c] = w[c]

\* It is what it should be.
LEMMA Joined ==
  ASSUME NEW S, NEW r \in Seq(S), NEW w \in Seq(S)
  PROVE  Behind(S, r, w)
  <1>1. Len(r) \in Nat /\ Len(w) \in Nat
    BY LenProperties
  <1>2. /\ r \o w \in Seq(S) /\ Len(r \o w) = Len(r) + Len(w)
        /\ \A i \in 1 .. Len(r) + Len(w) :
              (r \o w)[i] = IF i <= Len(r) THEN r[i] ELSE w[i - Len(r)]
    BY ConcatProperties
  <1>3. \A i \in 1 .. Len(r) : (r \o w)[i] = r[i]
    BY <1>1, <1>2
  <1>4. ASSUME NEW c \in 1 .. Len(w)
        PROVE  (r \o w)[Len(r) + c] = w[c]
    <2>1. /\ Len(r) + c \in 1 .. Len(r) + Len(w) /\ ~(Len(r) + c <= Len(r))
          /\ Len(r) + c - Len(r) = c
      BY <1>1
    <2>2. QED
      BY <1>2, <2>1
  <1>5. QED
    BY <1>2, <1>3, <1>4 DEF Behind

\* The first places of a sequence.
Begins(S, s, n) ==
    /\ SubSeq(s, 1, n) \in Seq(S) /\ Len(SubSeq(s, 1, n)) = n
    /\ \A k \in 1 .. n : SubSeq(s, 1, n)[k] = s[k]

\* They are there if the sequence is that long.
LEMMA Beginning ==
  ASSUME NEW S, NEW s \in Seq(S), NEW n \in Nat, n <= Len(s)
  PROVE  Begins(S, s, n)
  <1>1. 1 \in Nat /\ 1 >= 1 /\ 1 <= n + 1
    OBVIOUS
  <1>2. /\ SubSeq(s, 1, n) \in Seq(S) /\ Len(SubSeq(s, 1, n)) = n - 1 + 1
        /\ \A k \in 1 .. n - 1 + 1 : SubSeq(s, 1, n)[k] = s[1 + k - 1]
    BY <1>1, PartOf
  <1>3. n - 1 + 1 = n /\ \A k \in 1 .. n : 1 + k - 1 = k
    OBVIOUS
  <1>4. QED
    BY <1>2, <1>3 DEF Begins

\* How long a text becomes.
LEMMA Sizes ==
  ASSUME NEW L \in Nat, NEW q \in Nat, NEW i \in 0 .. 2, L = 3 * q + i
  PROVE  /\ (8 * L + 5) \div 6 = IF i = 0 THEN 4 * q ELSE 4 * q + i + 1
         /\ 4 * ((L + 2) \div 3) = IF i = 0 THEN 4 * q ELSE 4 * q + 4
  <1>1. CASE i = 0
    BY <1>1
  <1>2. CASE i = 1
    BY <1>2
  <1>3. CASE i = 2
    BY <1>3
  <1>4. QED
    BY <1>1, <1>2, <1>3

\* The g-th three bytes of a text, filled up with zeros.
ByteAt(text, k) == IF k <= Len(text) THEN text[k] ELSE 0
Block(text, g) == <<ByteAt(text, 3 * g + 1), ByteAt(text, 3 * g + 2), ByteAt(text, 3 * g + 3)>>

\* They are bytes, also behind the end of the text.
LEMMA BlockBytes ==
  ASSUME NEW text \in Seq(Byte), NEW g \in Nat
  PROVE  \A j \in 1 .. 3 : /\ Block(text, g)[j] \in Byte
                           /\ Block(text, g)[j] = ByteAt(text, 3 * g + j)
  <1>1. Len(text) \in Nat /\ 0 \in Byte
    BY LenProperties DEF Byte
  <1>2. \A k \in Nat : k >= 1 => ByteAt(text, k) \in Byte
    <2>1. TAKE k \in Nat
    <2>2. HAVE k >= 1
    <2>3. CASE k <= Len(text)
      <3>1. k \in 1 .. Len(text)
        BY <1>1, <2>2, <2>3
      <3>2. QED
        BY <2>3, <3>1, ElementOfSeq DEF ByteAt
    <2>4. CASE ~(k <= Len(text))
      BY <1>1, <2>4 DEF ByteAt
    <2>5. QED
      BY <2>3, <2>4
  <1>3. \A j \in 1 .. 3 : Block(text, g)[j] = ByteAt(text, 3 * g + j)
    BY DEF Block
  <1>4. \A j \in 1 .. 3 : 3 * g + j \in Nat /\ 3 * g + j >= 1
    OBVIOUS
  <1>5. QED
    BY <1>2, <1>3, <1>4

\* base64_encode's loop has read n bytes: the full blocks are written.
Encoded(text, n, s) ==
    /\ s = [a |-> s.a, ret |-> s.ret]
    /\ s.a \in Seq(Byte) /\ Len(s.a) = n % 3
    /\ \A j \in 1 .. (n % 3) : s.a[j] = text[n - (n % 3) + j]
    /\ s.ret \in Seq(Digit) /\ Len(s.ret) = 4 * (n \div 3)
    /\ \A g \in 0 .. (n \div 3) - 1 : \A c \in 1 .. 4 :
          s.ret[4 * g + c] = Char4(Block(text, g))[c]

\* The next byte keeps it.
LEMMA EncodeKeeps ==
  ASSUME NEW text \in Seq(Byte), NEW n \in Nat, n < Len(text), NEW s, Encoded(text, n, s)
  PROVE  Encoded(text, n + 1, EncodeByte(s, text[n + 1]))
  <1>1. Len(text) \in Nat /\ n + 1 \in 1 .. Len(text)
    BY LenProperties
  <1>2. text[n + 1] \in Byte
    BY <1>1, ElementOfSeq
  <1> DEFINE a == Append(s.a, text[n + 1])
             t == EncodeByte(s, text[n + 1])
             m == n % 3
             q == n \div 3
  <1>3. m \in 0 .. 2 /\ q \in Nat /\ n = 3 * q + m
    OBVIOUS
  <1>4. /\ s = [a |-> s.a, ret |-> s.ret]
        /\ s.a \in Seq(Byte) /\ Len(s.a) = m /\ \A j \in 1 .. m : s.a[j] = text[n - m + j]
        /\ s.ret \in Seq(Digit) /\ Len(s.ret) = 4 * q
        /\ \A g \in 0 .. q - 1 : \A c \in 1 .. 4 : s.ret[4 * g + c] = Char4(Block(text, g))[c]
    BY DEF Encoded
  <1>5. /\ a \in Seq(Byte) /\ Len(a) = m + 1 /\ a[m + 1] = text[n + 1]
        /\ \A j \in 1 .. m : a[j] = s.a[j]
    BY <1>2, <1>4, AppendProperties
  <1>6. t = IF Len(a) = 3 THEN [a |-> <<>>, ret |-> s.ret \o Char4(a)] ELSE [s EXCEPT !.a = a]
    BY DEF EncodeByte
  <1> HIDE DEF a, t, m, q
  <1>7. \A j \in 1 .. m + 1 : a[j] = text[3 * q + j]
    <2>1. TAKE j \in 1 .. m + 1
    <2>2. CASE j = m + 1
      <3>1. 3 * q + j = n + 1
        BY <1>3, <2>2
      <3>2. QED
        BY <1>5, <2>2, <3>1
    <2>3. CASE j # m + 1
      <3>1. j \in 1 .. m /\ n - m + j = 3 * q + j
        BY <1>3, <2>3
      <3>2. QED
        BY <1>4, <1>5, <3>1
    <2>4. QED
      BY <2>2, <2>3
  <1>8. CASE m = 2
    <2>1. /\ (n + 1) % 3 = 0 /\ (n + 1) \div 3 = q + 1 /\ Len(a) = 3 /\ 4 * (q + 1) = 4 * q + 4
          /\ 3 * q + 3 <= Len(text)
      BY <1>1, <1>3, <1>5, <1>8
    <2>2. t = [a |-> <<>>, ret |-> s.ret \o Char4(a)]
      BY <1>6, <2>1
    <2>3. \A j \in 1 .. 3 : a[j] = Block(text, q)[j] /\ a[j] \in Byte
      <3>1. TAKE j \in 1 .. 3
      <3>2. 3 * q + j <= Len(text)
        BY <1>1, <1>3, <2>1
      <3>3. a[j] = ByteAt(text, 3 * q + j)
        BY <1>7, <1>8, <3>2 DEF ByteAt
      <3>4. QED
        BY <1>3, <3>3, BlockBytes
    <2>4. Char4(a) = Char4(Block(text, q))
      BY <2>3 DEF Char4
    <2>5. Char4(a) \in Seq(Digit) /\ Len(Char4(a)) = 4
      BY <2>3, FourDigits
    <2>6. PICK w : w = Char4(a)
      OBVIOUS
    <2>7. PICK r : r = s.ret
      OBVIOUS
    <2>8. /\ r \o w \in Seq(Digit) /\ Len(r \o w) = 4 * q + 4
          /\ \A i \in 1 .. 4 * q : (r \o w)[i] = r[i]
          /\ \A c \in 1 .. 4 : (r \o w)[4 * q + c] = w[c]
      <3>1. r \in Seq(Digit) /\ w \in Seq(Digit) /\ Len(r) = 4 * q /\ Len(w) = 4
        BY <1>4, <2>5, <2>6, <2>7
      <3>2. Behind(Digit, r, w)
        BY <3>1, Joined
      <3>3. QED
        BY <3>1, <3>2 DEF Behind
    <2>9. ASSUME NEW g \in 0 .. q, NEW c \in 1 .. 4
          PROVE  (r \o w)[4 * g + c] = Char4(Block(text, g))[c]
      <3>1. CASE g = q
        BY <2>4, <2>6, <2>8, <3>1
      <3>2. CASE g # q
        <4>1. g \in 0 .. q - 1 /\ 4 * g + c \in 1 .. 4 * q
          BY <1>3, <3>2
        <4>2. QED
          BY <1>4, <2>7, <2>8, <4>1
      <3>3. QED
        BY <3>1, <3>2
    <2>10. ((n + 1) \div 3) - 1 = q /\ 1 .. ((n + 1) % 3) = {}
      BY <1>3, <2>1
    <2>11. <<>> \in Seq(Byte) /\ Len(<<>>) = 0
      BY EmptySeq
    <2>12. t.a = <<>> /\ t.ret = r \o w /\ t = [a |-> t.a, ret |-> t.ret]
      BY <2>2, <2>6, <2>7
    <2>13. \A g \in 0 .. ((n + 1) \div 3) - 1 : \A c \in 1 .. 4 :
              t.ret[4 * g + c] = Char4(Block(text, g))[c]
      <3>1. TAKE g \in 0 .. ((n + 1) \div 3) - 1
      <3>2. TAKE c \in 1 .. 4
      <3>3. g \in 0 .. q
        BY <2>10
      <3>4. (r \o w)[4 * g + c] = Char4(Block(text, g))[c]
        BY <2>9, <3>3
      <3>5. QED
        BY <2>12, <3>4
    <2>14. t.ret \in Seq(Digit) /\ Len(t.ret) = 4 * ((n + 1) \div 3)
      BY <2>1, <2>8, <2>12
    <2>15. t.a \in Seq(Byte) /\ Len(t.a) = (n + 1) % 3
      BY <2>1, <2>11, <2>12
    <2>16. QED
      BY <2>10, <2>12, <2>13, <2>14, <2>15 DEF Encoded, t
  <1>9. CASE m # 2
    <2>1. /\ (n + 1) % 3 = m + 1 /\ (n + 1) \div 3 = q /\ Len(a) # 3
          /\ (n + 1) - (m + 1) = 3 * q
      BY <1>3, <1>5, <1>9
    <2>2. t = [s EXCEPT !.a = a]
      BY <1>6, <2>1
    <2>3. t.a = a /\ t.ret = s.ret /\ t = [a |-> t.a, ret |-> t.ret]
      BY <1>4, <2>2
    <2>4. \A j \in 1 .. ((n + 1) % 3) : t.a[j] = text[(n + 1) - ((n + 1) % 3) + j]
      BY <1>7, <2>1, <2>3
    <2>5. t.a \in Seq(Byte) /\ Len(t.a) = (n + 1) % 3
      BY <1>5, <2>1, <2>3
    <2>6. /\ t.ret \in Seq(Digit) /\ Len(t.ret) = 4 * ((n + 1) \div 3)
          /\ \A g \in 0 .. ((n + 1) \div 3) - 1 : \A c \in 1 .. 4 :
                t.ret[4 * g + c] = Char4(Block(text, g))[c]
      BY <1>4, <2>1, <2>3
    <2>7. QED
      BY <2>3, <2>4, <2>5, <2>6 DEF Encoded, t
  <1>10. QED
    BY <1>8, <1>9
\* The g-th four digits.
Quad(d, g) == <<d[4 * g + 1], d[4 * g + 2], d[4 * g + 3], d[4 * g + 4]>>

\* char_array_3 holds bytes, whatever char_array_4 holds.
LEMMA ThreeBytes ==
  ASSUME NEW a, a[1] \in Nat, a[2] \in Nat, a[3] \in Nat, a[4] \in Nat
  PROVE  Char3(a) \in Seq(Byte) /\ Len(Char3(a)) = 3
  <1>1. /\ ((a[1] * 4) + (a[2] % 64) \div 16) % 256 \in Byte
        /\ ((a[2] % 16) * 16 + (a[3] % 64) \div 4) % 256 \in Byte
        /\ ((a[3] % 4) * 64 + a[4]) % 256 \in Byte
    <2>1. \A x \in Nat : x % 256 \in Byte
      BY DEF Byte
    <2>2. /\ (a[1] * 4) + (a[2] % 64) \div 16 \in Nat
          /\ (a[2] % 16) * 16 + (a[3] % 64) \div 4 \in Nat
          /\ (a[3] % 4) * 64 + a[4] \in Nat
      OBVIOUS
    <2>3. QED
      BY <2>1, <2>2
  <1>2. QED
    BY <1>1 DEF Char3

\* base64_decode's loop has read n digits: the full quads are written.
Decoded(d, n, s) ==
    /\ s = [a |-> s.a, ret |-> s.ret]
    /\ s.a \in Seq(Digit) /\ Len(s.a) = n % 4
    /\ \A j \in 1 .. (n % 4) : s.a[j] = d[n - (n % 4) + j]
    /\ s.ret \in Seq(Byte) /\ Len(s.ret) = 3 * (n \div 4)
    /\ \A g \in 0 .. (n \div 4) - 1 : \A c \in 1 .. 3 :
          s.ret[3 * g + c] = Char3(Quad(d, g))[c]

\* The next digit keeps it.
LEMMA DecodeKeeps ==
  ASSUME NEW d \in Seq(Digit), NEW n \in Nat, n < Len(d), NEW s, Decoded(d, n, s)
  PROVE  Decoded(d, n + 1, DecodeChar(s, d[n + 1]))
  <1>1. Len(d) \in Nat /\ n + 1 \in 1 .. Len(d)
    BY LenProperties
  <1>2. d[n + 1] \in Digit
    BY <1>1, ElementOfSeq
  <1> DEFINE a == Append(s.a, d[n + 1])
             t == DecodeChar(s, d[n + 1])
             m == n % 4
             q == n \div 4
  <1>3. m \in 0 .. 3 /\ q \in Nat /\ n = 4 * q + m
    OBVIOUS
  <1>4. /\ s = [a |-> s.a, ret |-> s.ret]
        /\ s.a \in Seq(Digit) /\ Len(s.a) = m /\ \A j \in 1 .. m : s.a[j] = d[n - m + j]
        /\ s.ret \in Seq(Byte) /\ Len(s.ret) = 3 * q
        /\ \A g \in 0 .. q - 1 : \A c \in 1 .. 3 : s.ret[3 * g + c] = Char3(Quad(d, g))[c]
    BY DEF Decoded
  <1>5. /\ a \in Seq(Digit) /\ Len(a) = m + 1 /\ a[m + 1] = d[n + 1]
        /\ \A j \in 1 .. m : a[j] = s.a[j]
    BY <1>2, <1>4, AppendProperties
  <1>6. t = IF Len(a) = 4 THEN [a |-> <<>>, ret |-> s.ret \o Char3(a)] ELSE [s EXCEPT !.a = a]
    BY DEF DecodeChar
  <1> HIDE DEF a, t, m, q
  <1>7. \A j \in 1 .. m + 1 : a[j] = d[4 * q + j]
    <2>1. TAKE j \in 1 .. m + 1
    <2>2. CASE j = m + 1
      <3>1. 4 * q + j = n + 1
        BY <1>3, <2>2
      <3>2. QED
        BY <1>5, <2>2, <3>1
    <2>3. CASE j # m + 1
      <3>1. j \in 1 .. m /\ n - m + j = 4 * q + j
        BY <1>3, <2>3
      <3>2. QED
        BY <1>4, <1>5, <3>1
    <2>4. QED
      BY <2>2, <2>3
  <1>8. CASE m = 3
    <2>1. /\ (n + 1) % 4 = 0 /\ (n + 1) \div 4 = q + 1 /\ Len(a) = 4 /\ 3 * (q + 1) = 3 * q + 3
          /\ 4 * q + 4 <= Len(d)
      BY <1>1, <1>3, <1>5, <1>8
    <2>2. t = [a |-> <<>>, ret |-> s.ret \o Char3(a)]
      BY <1>6, <2>1
    <2>3. \A j \in 1 .. 4 : a[j] = Quad(d, q)[j]
      BY <1>3, <1>7, <1>8 DEF Quad
    <2>4. Char3(a) = Char3(Quad(d, q))
      BY <2>3 DEF Char3
    <2>5. Char3(a) \in Seq(Byte) /\ Len(Char3(a)) = 3
      <3>1. \A j \in 1 .. 4 : a[j] \in Digit
        BY <1>5, <2>1, ElementOfSeq
      <3>2. Digit \subseteq Nat
        BY DEF Digit
      <3>3. 1 \in 1 .. 4 /\ 2 \in 1 .. 4 /\ 3 \in 1 .. 4 /\ 4 \in 1 .. 4
        OBVIOUS
      <3>4. a[1] \in Digit /\ a[2] \in Digit /\ a[3] \in Digit /\ a[4] \in Digit
        BY <3>1, <3>3, Zenon
      <3>5. a[1] \in Nat /\ a[2] \in Nat /\ a[3] \in Nat /\ a[4] \in Nat
        BY <3>2, <3>4
      <3>6. QED
        BY <3>5, ThreeBytes
    <2>6. PICK w : w = Char3(a)
      OBVIOUS
    <2>7. PICK r : r = s.ret
      OBVIOUS
    <2>8. /\ r \o w \in Seq(Byte) /\ Len(r \o w) = 3 * q + 3
          /\ \A i \in 1 .. 3 * q : (r \o w)[i] = r[i]
          /\ \A c \in 1 .. 3 : (r \o w)[3 * q + c] = w[c]
      <3>1. r \in Seq(Byte) /\ w \in Seq(Byte) /\ Len(r) = 3 * q /\ Len(w) = 3
        BY <1>4, <2>5, <2>6, <2>7
      <3>2. Behind(Byte, r, w)
        BY <3>1, Joined
      <3>3. QED
        BY <3>1, <3>2 DEF Behind
    <2>9. ASSUME NEW g \in 0 .. q, NEW c \in 1 .. 3
          PROVE  (r \o w)[3 * g + c] = Char3(Quad(d, g))[c]
      <3>1. CASE g = q
        BY <2>4, <2>6, <2>8, <3>1
      <3>2. CASE g # q
        <4>1. g \in 0 .. q - 1 /\ 3 * g + c \in 1 .. 3 * q
          BY <1>3, <3>2
        <4>2. QED
          BY <1>4, <2>7, <2>8, <4>1
      <3>3. QED
        BY <3>1, <3>2
    <2>10. ((n + 1) \div 4) - 1 = q /\ 1 .. ((n + 1) % 4) = {}
      BY <1>3, <2>1
    <2>11. <<>> \in Seq(Digit) /\ Len(<<>>) = 0
      BY EmptySeq
    <2>12. t.a = <<>> /\ t.ret = r \o w /\ t = [a |-> t.a, ret |-> t.ret]
      BY <2>2, <2>6, <2>7
    <2>13. \A g \in 0 .. ((n + 1) \div 4) - 1 : \A c \in 1 .. 3 :
              t.ret[3 * g + c] = Char3(Quad(d, g))[c]
      <3>1. TAKE g \in 0 .. ((n + 1) \div 4) - 1
      <3>2. TAKE c \in 1 .. 3
      <3>3. g \in 0 .. q
        BY <2>10
      <3>4. (r \o w)[3 * g + c] = Char3(Quad(d, g))[c]
        BY <2>9, <3>3
      <3>5. QED
        BY <2>12, <3>4
    <2>14. t.ret \in Seq(Byte) /\ Len(t.ret) = 3 * ((n + 1) \div 4)
      BY <2>1, <2>8, <2>12
    <2>15. t.a \in Seq(Digit) /\ Len(t.a) = (n + 1) % 4
      BY <2>1, <2>11, <2>12
    <2>16. QED
      BY <2>10, <2>12, <2>13, <2>14, <2>15 DEF Decoded, t
  <1>9. CASE m # 3
    <2>1. /\ (n + 1) % 4 = m + 1 /\ (n + 1) \div 4 = q /\ Len(a) # 4
          /\ (n + 1) - (m + 1) = 4 * q
      <3>1. m \in 0 .. 2
        BY <1>3, <1>9
      <3>2. n + 1 = 4 * q + (m + 1) /\ m + 1 \in 0 .. 3
        BY <1>3, <3>1
      <3>3. (n + 1) % 4 = m + 1 /\ (n + 1) \div 4 = q
        BY <1>3, <3>1, <3>2
      <3>4. QED
        BY <1>3, <1>5, <3>1, <3>2, <3>3
    <2>2. t = [s EXCEPT !.a = a]
      BY <1>6, <2>1
    <2>3. t.a = a /\ t.ret = s.ret /\ t = [a |-> t.a, ret |-> t.ret]
      BY <1>4, <2>2
    <2>4. \A j \in 1 .. ((n + 1) % 4) : t.a[j] = d[(n + 1) - ((n + 1) % 4) + j]
      BY <1>7, <2>1, <2>3
    <2>5. t.a \in Seq(Digit) /\ Len(t.a) = (n + 1) % 4
      BY <1>5, <2>1, <2>3
    <2>6. /\ t.ret \in Seq(Byte) /\ Len(t.ret) = 3 * ((n + 1) \div 4)
          /\ \A g \in 0 .. ((n + 1) \div 4) - 1 : \A c \in 1 .. 3 :
                t.ret[3 * g + c] = Char3(Quad(d, g))[c]
      BY <1>4, <2>1, <2>3
    <2>7. QED
      BY <2>3, <2>4, <2>5, <2>6 DEF Decoded, t
  <1>10. QED
    BY <1>8, <1>9

\* What base64_encode writes, place by place.
LEMMA EncodeMeans ==
  ASSUME NEW text \in Seq(Byte)
  PROVE  LET code == base64_encode(text)
             size == (8 * Len(text) + 5) \div 6
         IN  /\ code \in Seq(Char) /\ Len(code) = 4 * ((Len(text) + 2) \div 3)
             /\ size \in Nat /\ size <= Len(code)
             /\ \A g \in Nat : \A c \in 1 .. 4 :
                   4 * g + c <= size => code[4 * g + c] = Char4(Block(text, g))[c]
             /\ \A k \in size + 1 .. Len(code) : code[k] = Pad
  <1> DEFINE At(n) == EncodeTurns(text)[n]
             L == Len(text)
             Bad == {n \in 0 .. L : ~Encoded(text, n, At(n))}
  <1>1. L \in Nat
    BY LenProperties
  <1>2. \A n \in 0 .. L :
            At(n) = IF n = 0 THEN [a |-> <<>>, ret |-> <<>>] ELSE EncodeByte(At(n - 1), text[n])
    BY EncodeTurnsDef
  <1> HIDE DEF At
  <1>3. Encoded(text, 0, At(0))
    <2>1. At(0) = [a |-> <<>>, ret |-> <<>>]
      BY <1>1, <1>2
    <2>2. At(0).a = <<>> /\ At(0).ret = <<>> /\ At(0) = [a |-> At(0).a, ret |-> At(0).ret]
      BY <2>1
    <2>3. <<>> \in Seq(Byte) /\ <<>> \in Seq(Digit) /\ Len(<<>>) = 0
      BY EmptySeq
    <2>4. 0 % 3 = 0 /\ 0 \div 3 = 0
      OBVIOUS
    <2>5. \A g \in 0 .. (0 \div 3) - 1 : FALSE
      BY <2>4
    <2>6. \A j \in 1 .. (0 % 3) : FALSE
      BY <2>4
    <2>7. Len(At(0).a) = 0 % 3 /\ Len(At(0).ret) = 4 * (0 \div 3)
      BY <2>2, <2>3, <2>4
    <2>8. At(0).a \in Seq(Byte) /\ At(0).ret \in Seq(Digit)
      BY <2>2, <2>3
    <2>9. QED
      BY <2>2, <2>5, <2>6, <2>7, <2>8 DEF Encoded
  <1>4. Bad = {}
    <2>1. SUFFICES ASSUME Bad # {}
                   PROVE  FALSE
      OBVIOUS
    <2>2. PICK n \in Bad : \A m \in Bad : n <= m
      <3>1. Bad \subseteq Nat
        BY <1>1
      <3> HIDE DEF Bad
      <3>2. QED
        BY <2>1, <3>1, LeastOf
    <2>3. n \in 0 .. L /\ n # 0 /\ ~Encoded(text, n, At(n))
      BY <1>3, <2>2
    <2>4. n - 1 \in 0 .. L /\ n - 1 \in Nat /\ ~(n <= n - 1) /\ (n - 1) + 1 = n /\ n - 1 < L
      BY <1>1, <2>3
    <2>5. Encoded(text, n - 1, At(n - 1))
      BY <2>2, <2>4
    <2>6. Encoded(text, (n - 1) + 1, EncodeByte(At(n - 1), text[(n - 1) + 1]))
      BY <2>4, <2>5, EncodeKeeps
    <2>7. QED
      BY <1>2, <2>3, <2>4, <2>6
  <1>5. PICK s : s = At(L)
    OBVIOUS
  <1>6. Encoded(text, L, s)
    BY <1>1, <1>4, <1>5
  <1> DEFINE i == Len(s.a)
             code == base64_encode(text)
             size == (8 * Len(text) + 5) \div 6
             q == L \div 3
  <1>7. code = IF i = 0 THEN s.ret
               ELSE s.ret \o SubSeq(Char4(s.a \o <<0, 0>>), 1, i + 1) \o SubSeq(<<Pad, Pad>>, 1, 3 - i)
    BY <1>5 DEF base64_encode, At
  <1>8. /\ s.a \in Seq(Byte) /\ i = L % 3 /\ \A j \in 1 .. i : s.a[j] = text[L - i + j]
        /\ s.ret \in Seq(Digit) /\ Len(s.ret) = 4 * q
        /\ \A g \in 0 .. q - 1 : \A c \in 1 .. 4 : s.ret[4 * g + c] = Char4(Block(text, g))[c]
    BY <1>6 DEF Encoded
  <1>9. q \in Nat /\ L = 3 * q + (L % 3) /\ L % 3 \in 0 .. 2
    BY <1>1
  <1> HIDE DEF i, code, q
  <1>10. CASE i = 0
    <2>1. L = 3 * q /\ size = 4 * q /\ 4 * ((L + 2) \div 3) = 4 * q
      <3>1. 0 \in 0 .. 2 /\ L = 3 * q + 0
        BY <1>8, <1>9, <1>10
      <3>2. QED
        BY <1>1, <1>9, <3>1, Sizes
    <2>2. code = s.ret /\ code \in Seq(Char)
      <3>1. Digit \subseteq Char
        BY DEF Digit, Char
      <3>2. QED
        BY <1>7, <1>8, <1>10, <3>1, SeqMonotonic
    <2>3. \A g \in Nat : \A c \in 1 .. 4 : 4 * g + c <= size => g \in 0 .. q - 1
      BY <1>9, <2>1
    <2>4. size \in Nat /\ size <= Len(code) /\ size + 1 .. Len(code) = {}
      BY <1>8, <1>9, <2>1, <2>2
    <2>5. Len(code) = 4 * ((L + 2) \div 3)
      BY <1>8, <2>1, <2>2
    <2>6. \A g \in Nat : \A c \in 1 .. 4 :
             4 * g + c <= size => code[4 * g + c] = Char4(Block(text, g))[c]
      BY <1>8, <2>2, <2>3
    <2>7. QED
      BY <2>2, <2>4, <2>5, <2>6 DEF code
  <1>11. CASE i # 0
    <2>1. /\ i \in 1 .. 2 /\ L = 3 * q + i /\ size = 4 * q + i + 1
          /\ 4 * ((L + 2) \div 3) = 4 * q + 4
      <3>1. i \in 1 .. 2 /\ i \in 0 .. 2 /\ L = 3 * q + i
        BY <1>8, <1>9, <1>11
      <3>2. QED
        BY <1>1, <1>9, <1>11, <3>1, Sizes
    <2> DEFINE x == s.a \o <<0, 0>>
               w == SubSeq(Char4(x), 1, i + 1)
               pad == SubSeq(<<Pad, Pad>>, 1, 3 - i)
               r == s.ret
    <2>2. \A j \in 1 .. 3 : x[j] = Block(text, q)[j] /\ x[j] \in Byte
      <3>1. <<0, 0>> \in Seq(Byte) /\ Len(<<0, 0>>) = 2 /\ <<0, 0>>[1] = 0 /\ <<0, 0>>[2] = 0
        BY DEF Byte
      <3>2. /\ \A j \in 1 .. i : x[j] = s.a[j]
            /\ \A c \in 1 .. 2 : x[i + c] = 0
        <4>1. PICK y, z : y = s.a /\ z = <<0, 0>>
          OBVIOUS
        <4>2. Behind(Byte, y, z)
          BY <1>8, <3>1, <4>1, Joined
        <4>3. Len(y) = i /\ x = y \o z
          BY <4>1 DEF i
        <4>4. Len(z) = 2 /\ \A c \in 1 .. 2 : z[c] = 0
          BY <3>1, <4>1
        <4> HIDE DEF x
        <4>5. /\ \A j \in 1 .. Len(y) : (y \o z)[j] = y[j]
              /\ \A c \in 1 .. Len(z) : (y \o z)[Len(y) + c] = z[c]
          BY <4>2 DEF Behind
        <4>6. \A c \in 1 .. 2 : x[i + c] = 0
          BY <4>3, <4>4, <4>5
        <4>7. \A j \in 1 .. i : x[j] = s.a[j]
          BY <4>1, <4>3, <4>5
        <4>8. QED
          BY <4>6, <4>7
      <3> HIDE DEF x
      <3>3. TAKE j \in 1 .. 3
      <3>4. CASE j <= i
        <4>1. j \in 1 .. i /\ L - i + j = 3 * q + j /\ 3 * q + j <= L
          BY <1>9, <2>1, <3>4
        <4>2. x[j] = ByteAt(text, 3 * q + j)
          BY <1>8, <3>2, <4>1 DEF ByteAt
        <4>3. QED
          BY <1>9, <4>2, BlockBytes
      <3>5. CASE j > i
        <4>1. j - i \in 1 .. 2 /\ i + (j - i) = j /\ ~(3 * q + j <= L)
          BY <1>9, <2>1, <3>5
        <4>2. x[j] = 0
          BY <3>2, <4>1
        <4>3. x[j] = ByteAt(text, 3 * q + j)
          BY <4>1, <4>2 DEF ByteAt
        <4>4. QED
          BY <1>9, <4>3, BlockBytes
      <3>6. QED
        BY <2>1, <3>4, <3>5
    <2> HIDE DEF x
    <2>3. Char4(x) = Char4(Block(text, q)) /\ Char4(x) \in Seq(Digit) /\ Len(Char4(x)) = 4
      <3>1. Char4(x) = Char4(Block(text, q))
        BY <2>2 DEF Char4
      <3>2. QED
        BY <2>2, <3>1, FourDigits
    <2>4. /\ w \in Seq(Char) /\ Len(w) = i + 1
          /\ \A c \in 1 .. i + 1 : w[c] = Char4(Block(text, q))[c]
      <3>1. PICK y : y = Char4(x)
        OBVIOUS
      <3>2. i + 1 \in Nat /\ i + 1 <= 4
        BY <2>1
      <3>3. Begins(Digit, y, i + 1)
        BY <2>3, <3>1, <3>2, Beginning
      <3>4. w = SubSeq(y, 1, i + 1) /\ Digit \subseteq Char
        BY <3>1 DEF Digit, Char
      <3> HIDE DEF w
      <3>5. w \in Seq(Digit) /\ Len(w) = i + 1 /\ \A c \in 1 .. i + 1 : w[c] = y[c]
        BY <3>3, <3>4 DEF Begins
      <3>6. w \in Seq(Char)
        BY <3>4, <3>5, SeqMonotonic
      <3>7. QED
        BY <2>3, <3>1, <3>5, <3>6
    <2>5. pad \in Seq(Char) /\ Len(pad) = 3 - i /\ \A c \in 1 .. 3 - i : pad[c] = Pad
      <3>1. PICK y : y = <<Pad, Pad>>
        OBVIOUS
      <3>2. y \in Seq(Char) /\ Len(y) = 2 /\ y[1] = Pad /\ y[2] = Pad
        BY <3>1 DEF Pad, Char
      <3>3. 3 - i \in Nat /\ 3 - i <= 2
        BY <2>1
      <3>4. Begins(Char, y, 3 - i)
        BY <3>2, <3>3, Beginning
      <3>5. pad = SubSeq(y, 1, 3 - i)
        BY <3>1
      <3> HIDE DEF pad
      <3>6. pad \in Seq(Char) /\ Len(pad) = 3 - i /\ \A c \in 1 .. 3 - i : pad[c] = y[c]
        BY <3>4, <3>5 DEF Begins
      <3>7. \A k \in 1 .. 3 - i : y[k] = Pad
        <4>1. \A k \in 1 .. 3 - i : k = 1 \/ k = 2
          BY <2>1
        <4>2. QED
          BY <3>2, <4>1
      <3>8. QED
        BY <3>6, <3>7
    <2>6. code = (r \o w) \o pad
      BY <1>7, <1>11 DEF x
    <2>7. r \in Seq(Char) /\ Len(r) = 4 * q
      <3>1. Digit \subseteq Char
        BY DEF Digit, Char
      <3>2. QED
        BY <1>8, <3>1, SeqMonotonic
    <2> HIDE DEF w, pad
    <2>8. /\ r \o w \in Seq(Char) /\ Len(r \o w) = 4 * q + i + 1
          /\ \A k \in 1 .. 4 * q : (r \o w)[k] = r[k]
          /\ \A c \in 1 .. i + 1 : (r \o w)[4 * q + c] = w[c]
      <3>1. Behind(Char, r, w)
        BY <2>4, <2>7, Joined
      <3> HIDE DEF r
      <3>2. QED
        BY <1>9, <2>1, <2>4, <2>7, <3>1 DEF Behind
    <2>9. /\ code \in Seq(Char) /\ Len(code) = 4 * q + 4
          /\ \A k \in 1 .. size : code[k] = (r \o w)[k]
          /\ \A c \in 1 .. 3 - i : code[size + c] = Pad
      <3>1. PICK y : y = r \o w
        OBVIOUS
      <3>2. Behind(Char, y, pad) /\ code = y \o pad
        BY <2>5, <2>6, <2>8, <3>1, Joined
      <3>3. Len(y) = size /\ Len(y) + Len(pad) = 4 * q + 4
        <4>1. Len(y) = 4 * q + i + 1 /\ Len(pad) = 3 - i
          BY <2>5, <2>8, <3>1
        <4>2. QED
          BY <1>9, <2>1, <4>1
      <3>4. QED
        BY <2>5, <3>1, <3>2, <3>3 DEF Behind
    <2>10. ASSUME NEW g \in Nat, NEW c \in 1 .. 4, 4 * g + c <= size
           PROVE  code[4 * g + c] = Char4(Block(text, g))[c]
      <3>1. code[4 * g + c] = (r \o w)[4 * g + c]
        <4>1. 4 * g + c \in 1 .. size
          BY <1>9, <2>1, <2>10
        <4>2. QED
          BY <2>9, <4>1
      <3>2. CASE g = q
        <4>1. c \in 1 .. i + 1
          BY <1>9, <2>1, <2>10, <3>2
        <4>2. QED
          BY <2>4, <2>8, <3>1, <3>2, <4>1
      <3>3. CASE g # q
        <4>1. g \in 0 .. q - 1 /\ 4 * g + c \in 1 .. 4 * q
          BY <1>9, <2>1, <2>10, <3>3
        <4>2. QED
          BY <1>8, <2>8, <3>1, <4>1
      <3>4. QED
        BY <3>2, <3>3
    <2>11. ASSUME NEW k \in size + 1 .. Len(code)
           PROVE  code[k] = Pad
      <3>1. k - size \in 1 .. 3 - i /\ size + (k - size) = k
        BY <1>9, <2>1, <2>9
      <3>2. QED
        BY <2>9, <3>1
    <2>12. size \in Nat /\ size <= Len(code)
      BY <1>9, <2>1, <2>9
    <2>13. QED
      BY <2>1, <2>9, <2>10, <2>11, <2>12 DEF code
  <1>12. QED
    BY <1>10, <1>11
\* The loop of base64_decode to its end.
LEMMA DecodeLoop ==
  ASSUME NEW d \in Seq(Digit)
  PROVE  Decoded(d, Len(d), DecodeTurns(d)[Len(d)])
  <1> DEFINE At(n) == DecodeTurns(d)[n]
             L == Len(d)
             Bad == {n \in 0 .. L : ~Decoded(d, n, At(n))}
  <1>1. L \in Nat
    BY LenProperties
  <1>2. \A n \in 0 .. L :
            At(n) = IF n = 0 THEN [a |-> <<>>, ret |-> <<>>] ELSE DecodeChar(At(n - 1), d[n])
    BY DecodeTurnsDef
  <1> HIDE DEF At
  <1>3. Decoded(d, 0, At(0))
    <2>1. At(0) = [a |-> <<>>, ret |-> <<>>]
      BY <1>1, <1>2
    <2>2. At(0).a = <<>> /\ At(0).ret = <<>> /\ At(0) = [a |-> At(0).a, ret |-> At(0).ret]
      BY <2>1
    <2>3. <<>> \in Seq(Byte) /\ <<>> \in Seq(Digit) /\ Len(<<>>) = 0
      BY EmptySeq
    <2>4. 0 % 4 = 0 /\ 0 \div 4 = 0
      OBVIOUS
    <2>5. \A g \in 0 .. (0 \div 4) - 1 : FALSE
      BY <2>4
    <2>6. \A j \in 1 .. (0 % 4) : FALSE
      BY <2>4
    <2>7. Len(At(0).a) = 0 % 4 /\ Len(At(0).ret) = 3 * (0 \div 4)
      BY <2>2, <2>3, <2>4
    <2>8. At(0).a \in Seq(Digit) /\ At(0).ret \in Seq(Byte)
      BY <2>2, <2>3
    <2>9. QED
      BY <2>2, <2>5, <2>6, <2>7, <2>8 DEF Decoded
  <1>4. Bad = {}
    <2>1. SUFFICES ASSUME Bad # {}
                   PROVE  FALSE
      OBVIOUS
    <2>2. PICK n \in Bad : \A m \in Bad : n <= m
      <3>1. Bad \subseteq Nat
        BY <1>1
      <3> HIDE DEF Bad
      <3>2. QED
        BY <2>1, <3>1, LeastOf
    <2>3. n \in 0 .. L /\ n # 0 /\ ~Decoded(d, n, At(n))
      BY <1>3, <2>2
    <2>4. n - 1 \in 0 .. L /\ n - 1 \in Nat /\ ~(n <= n - 1) /\ (n - 1) + 1 = n /\ n - 1 < L
      BY <1>1, <2>3
    <2>5. Decoded(d, n - 1, At(n - 1))
      BY <2>2, <2>4
    <2>6. Decoded(d, (n - 1) + 1, DecodeChar(At(n - 1), d[(n - 1) + 1]))
      BY <2>4, <2>5, DecodeKeeps
    <2>7. QED
      BY <1>2, <2>3, <2>4, <2>6
  <1>5. QED
    BY <1>1, <1>4 DEF At

\* base64_decode reads up to the first character that is none.
LEMMA ReadMeans ==
  ASSUME NEW z \in Seq(Nat), NEW n \in Nat, n <= Len(z),
         \A k \in 1 .. n : is_base64(z[k]),
         n < Len(z) => ~is_base64(z[n + 1])
  PROVE  Read(z) = SubSeq(z, 1, n)
  <1> DEFINE stops == {k \in 1 .. Len(z) : ~is_base64(z[k])}
  <1>1. Len(z) \in Nat
    BY LenProperties
  <1>2. Read(z) = IF stops = {} THEN z ELSE SubSeq(z, 1, Min(stops) - 1)
    BY DEF Read
  <1>3. stops \subseteq Nat /\ \A k \in stops : k > n
    BY <1>1
  <1>4. CASE n = Len(z)
    <2>1. stops = {}
      BY <1>1, <1>3, <1>4
    <2>2. QED
      BY <1>2, <1>4, <2>1, SubSeqFull
  <1>5. CASE n < Len(z)
    <2>1. n + 1 \in stops
      BY <1>1, <1>5
    <2> HIDE DEF stops
    <2>2. Min(stops) \in stops /\ \A m \in stops : Min(stops) <= m
      BY <1>3, <2>1, MinOf
    <2>3. PICK m : m = Min(stops)
      OBVIOUS
    <2>4. m \in Nat /\ m > n /\ m <= n + 1
      BY <1>3, <2>1, <2>2, <2>3
    <2>5. m - 1 = n
      BY <2>4
    <2>6. QED
      BY <1>2, <2>1, <2>3, <2>5
  <1>6. QED
    BY <1>1, <1>4, <1>5

\* The digits of a text.
IsCodeOf(d, text) ==
    /\ d \in Seq(Digit) /\ Len(d) = (8 * Len(text) + 5) \div 6
    /\ \A g \in Nat : \A c \in 1 .. 4 :
          4 * g + c <= Len(d) => d[4 * g + c] = Char4(Block(text, g))[c]

\* From its digits comes the text.
LEMMA DecodeMeans ==
  ASSUME NEW text \in Seq(Byte), NEW d, IsCodeOf(d, text), NEW z, Read(z) = d, NEW junk \in Nat
  PROVE  base64_decode(z, junk) = text
  <1> DEFINE L == Len(text)
             q == L \div 3
             m == L % 3
             s == DecodeTurns(d)[Len(d)]
             i == Len(s.a)
             D(g) == Char4(Block(text, g))
  <1>1. L \in Nat /\ q \in Nat /\ m \in 0 .. 2 /\ L = 3 * q + m
    BY LenProperties
  <1>2. d \in Seq(Digit) /\ Len(d) = IF m = 0 THEN 4 * q ELSE 4 * q + m + 1
    BY <1>1, Sizes DEF IsCodeOf
  <1>3. Decoded(d, Len(d), s)
    BY <1>2, DecodeLoop
  <1>4. base64_decode(z, junk) =
            IF i = 0 THEN s.ret
            ELSE s.ret \o SubSeq(Char3(s.a \o <<junk, junk, junk>>), 1, i - 1)
    BY DEF base64_decode
  <1> HIDE DEF s, q, m
  <1>5. Len(d) \in Nat /\ Len(d) \div 4 = q /\ Len(d) % 4 = IF m = 0 THEN 0 ELSE m + 1
    <2>1. CASE m = 0
      BY <1>1, <1>2, <2>1
    <2>2. CASE m = 1
      BY <1>1, <1>2, <2>2
    <2>3. CASE m = 2
      BY <1>1, <1>2, <2>3
    <2>4. QED
      BY <1>1, <2>1, <2>2, <2>3
  <1>6. /\ s.a \in Seq(Digit) /\ i = Len(d) % 4
        /\ \A j \in 1 .. i : s.a[j] = d[Len(d) - i + j]
        /\ s.ret \in Seq(Byte) /\ Len(s.ret) = 3 * q
        /\ \A g \in 0 .. q - 1 : \A c \in 1 .. 3 : s.ret[3 * g + c] = Char3(Quad(d, g))[c]
    BY <1>3, <1>5 DEF Decoded
  <1>7. \A g \in Nat : \A c \in 1 .. 4 : 4 * g + c <= Len(d) => d[4 * g + c] = D(g)[c]
    BY DEF IsCodeOf
  <1>8. ASSUME NEW g \in Nat
        PROVE  /\ \A j \in 1 .. 3 : Block(text, g)[j] \in Byte
               /\ D(g)[1] = Block(text, g)[1] \div 4
               /\ D(g)[2] = (Block(text, g)[1] % 4) * 16 + Block(text, g)[2] \div 16
               /\ D(g)[3] = (Block(text, g)[2] % 16) * 4 + Block(text, g)[3] \div 64
               /\ D(g)[4] = Block(text, g)[3] % 64
    <2>1. \A j \in 1 .. 3 : Block(text, g)[j] \in Byte
      BY BlockBytes
    <2>2. Block(text, g)[1] \in Byte /\ Block(text, g)[2] \in Byte /\ Block(text, g)[3] \in Byte
      BY <2>1
    <2>3. QED
      BY <2>1, <2>2, FourDigits
  <1> HIDE DEF D, i
  <1>9. ASSUME NEW g \in 0 .. q - 1, NEW c \in 1 .. 3
        PROVE  s.ret[3 * g + c] = text[3 * g + c]
    <2>1. g \in Nat /\ \A k \in 1 .. 4 : 4 * g + k <= Len(d)
      BY <1>1, <1>2, <1>5
    <2>2. PICK x : x = Quad(d, g)
      OBVIOUS
    <2>3. x[1] = D(g)[1] /\ x[2] = D(g)[2] /\ x[3] = D(g)[3] /\ x[4] = D(g)[4]
      <3>1. \A k \in 1 .. 4 : d[4 * g + k] = D(g)[k]
        BY <1>7, <2>1
      <3>2. x[1] = d[4 * g + 1] /\ x[2] = d[4 * g + 2] /\ x[3] = d[4 * g + 3] /\ x[4] = d[4 * g + 4]
        BY <2>2 DEF Quad
      <3>3. QED
        BY <3>1, <3>2
    <2>4. PICK b : b = Block(text, g)
      OBVIOUS
    <2>5. b[1] \in Byte /\ b[2] \in Byte /\ b[3] \in Byte
      BY <1>8, <2>1, <2>4
    <2>6. Char3(x)[1] = b[1] /\ Char3(x)[2] = b[2] /\ Char3(x)[3] = b[3]
      BY <1>8, <2>1, <2>3, <2>4, <2>5, BytesBack
    <2>7. Char3(x)[c] = b[c]
      BY <2>6
    <2>8. b[c] = text[3 * g + c]
      <3>1. 3 * g + c <= L
        BY <1>1
      <3>2. QED
        BY <2>1, <2>4, <3>1, BlockBytes DEF ByteAt
    <2>9. QED
      BY <1>6, <2>2, <2>7, <2>8
  <1>10. ASSUME NEW k \in 1 .. 3 * q
         PROVE  s.ret[k] = text[k]
    <2>1. PICK g, c : g = (k - 1) \div 3 /\ c = ((k - 1) % 3) + 1
      OBVIOUS
    <2>2. g \in 0 .. q - 1 /\ c \in 1 .. 3 /\ 3 * g + c = k
      BY <1>1, <2>1
    <2>3. QED
      BY <1>9, <2>2
  <1>11. CASE m = 0
    <2>1. base64_decode(z, junk) = s.ret /\ Len(s.ret) = L
      BY <1>1, <1>4, <1>5, <1>6, <1>11
    <2>2. QED
      BY <1>1, <1>6, <1>10, <1>11, <2>1, SeqEqual
  <1>12. CASE m # 0
    <2>1. i = m + 1 /\ i \in 2 .. 3 /\ Len(d) = 4 * q + i /\ L = 3 * q + (i - 1)
      BY <1>1, <1>2, <1>5, <1>6, <1>12
    <2> DEFINE tail == <<junk, junk, junk>>
               x == s.a \o tail
               w == SubSeq(Char3(x), 1, i - 1)
    <2>2. /\ x[1] = D(q)[1] /\ x[2] = D(q)[2] /\ (i = 3 => x[3] = D(q)[3])
          /\ x[1] \in Nat /\ x[2] \in Nat /\ x[3] \in Nat /\ x[4] \in Nat
      <3>1. tail \in Seq(Nat) /\ Len(tail) = 3 /\ \A k \in 1 .. 3 : tail[k] = junk
        OBVIOUS
      <3>2. s.a \in Seq(Nat) /\ Len(s.a) = i
        <4>1. Digit \subseteq Nat
          BY DEF Digit
        <4>2. QED
          BY <1>6, <4>1, SeqMonotonic DEF i
      <3> HIDE DEF tail
      <3>3. PICK y : y = s.a
        OBVIOUS
      <3>4. Behind(Nat, y, tail)
        BY <3>1, <3>2, <3>3, Joined
      <3>5. x = y \o tail
        BY <3>3
      <3> HIDE DEF x
      <3>6. /\ x \in Seq(Nat) /\ Len(x) = i + 3
            /\ \A j \in 1 .. i : x[j] = y[j]
        BY <3>1, <3>2, <3>3, <3>4, <3>5 DEF Behind
      <3>7. \A j \in 1 .. i : x[j] = D(q)[j]
        <4>1. TAKE j \in 1 .. i
        <4>2. j \in 1 .. 4 /\ Len(d) - i + j = 4 * q + j /\ 4 * q + j <= Len(d)
          BY <1>1, <2>1
        <4>3. d[4 * q + j] = D(q)[j]
          BY <1>1, <1>7, <4>2
        <4>4. QED
          BY <1>6, <3>3, <3>6, <4>2, <4>3
      <3>8. 1 \in 1 .. Len(x) /\ 2 \in 1 .. Len(x) /\ 3 \in 1 .. Len(x) /\ 4 \in 1 .. Len(x)
        BY <2>1, <3>6
      <3>9. x[1] \in Nat /\ x[2] \in Nat /\ x[3] \in Nat /\ x[4] \in Nat
        BY <3>6, <3>8, ElementOfSeq
      <3>10. QED
        BY <2>1, <3>7, <3>9
    <2>3. base64_decode(z, junk) = s.ret \o w
      <3>1. i # 0
        BY <2>1
      <3>2. QED
        BY <1>4, <3>1
    <2> HIDE DEF x
    <2>4. PICK b : b = Block(text, q)
      OBVIOUS
    <2>5. b[1] \in Byte /\ b[2] \in Byte /\ b[3] \in Byte
      BY <1>1, <1>8, <2>4
    <2>6. Char3(x)[1] = b[1] /\ (i = 3 => Char3(x)[2] = b[2])
      BY <1>1, <1>8, <2>2, <2>4, <2>5, BytesBack
    <2>7. Char3(x) \in Seq(Byte) /\ Len(Char3(x)) = 3
      BY <2>2, ThreeBytes
    <2>8. w \in Seq(Byte) /\ Len(w) = i - 1 /\ \A c \in 1 .. i - 1 : w[c] = b[c]
      <3>1. PICK y : y = Char3(x)
        OBVIOUS
      <3>2. i - 1 \in Nat /\ i - 1 <= 3
        BY <2>1
      <3>3. Begins(Byte, y, i - 1)
        BY <2>7, <3>1, <3>2, Beginning
      <3>4. w = SubSeq(y, 1, i - 1)
        BY <3>1
      <3> HIDE DEF w
      <3>5. w \in Seq(Byte) /\ Len(w) = i - 1 /\ \A c \in 1 .. i - 1 : w[c] = y[c]
        BY <3>3, <3>4 DEF Begins
      <3>6. \A c \in 1 .. i - 1 : y[c] = b[c]
        BY <2>1, <2>6, <3>1
      <3>7. QED
        BY <3>5, <3>6
    <2> HIDE DEF w
    <2>9. PICK r : r = s.ret
      OBVIOUS
    <2>10. Behind(Byte, r, w)
      BY <1>6, <2>8, <2>9, Joined
    <2>11. PICK t : t = r \o w
      OBVIOUS
    <2>12. /\ t \in Seq(Byte) /\ Len(t) = L
           /\ \A k \in 1 .. 3 * q : t[k] = r[k]
           /\ \A c \in 1 .. i - 1 : t[3 * q + c] = w[c]
      <3>1. Len(r) = 3 * q /\ Len(w) = i - 1
        BY <1>6, <2>8, <2>9
      <3>2. QED
        BY <2>1, <2>10, <2>11, <3>1 DEF Behind
    <2>13. ASSUME NEW k \in 1 .. L
           PROVE  t[k] = text[k]
      <3>1. CASE k <= 3 * q
        <4>1. k \in 1 .. 3 * q
          BY <1>1, <3>1
        <4>2. QED
          BY <1>10, <2>9, <2>12, <4>1
      <3>2. CASE k > 3 * q
        <4>1. PICK c : c = k - 3 * q
          OBVIOUS
        <4>2. c \in 1 .. i - 1 /\ c \in 1 .. 3 /\ 3 * q + c = k /\ 3 * q + c <= L
          BY <1>1, <2>1, <3>2, <4>1
        <4>3. b[c] = ByteAt(text, 3 * q + c)
          BY <1>1, <2>4, <4>2, BlockBytes
        <4>4. QED
          BY <2>8, <2>12, <4>2, <4>3 DEF ByteAt
      <3>3. QED
        BY <1>1, <3>1, <3>2
    <2>14. t = text
      BY <2>12, <2>13, SeqEqual
    <2>15. QED
      BY <2>3, <2>9, <2>11, <2>14
  <1>13. QED
    BY <1>11, <1>12
\* Where bit i is: in which group, and which of its bits.
LEMMA BitPlaces ==
  ASSUME NEW i \in Nat, NEW g \in Nat, NEW r \in 0 .. 23, i = 24 * g + r
  PROVE  /\ i \div 6 = 4 * g + r \div 6 /\ i % 6 = r % 6 /\ r \div 6 \in 0 .. 3 /\ r % 6 \in 0 .. 5
         /\ i \div 8 = 3 * g + r \div 8 /\ i % 8 = r % 8 /\ r \div 8 \in 0 .. 2 /\ r % 8 \in 0 .. 7
  OBVIOUS

\* The digits of a text hold its bits.
LEMMA BitsMean ==
  ASSUME NEW text \in Seq(Byte), NEW d, IsCodeOf(d, text), NEW i \in 0 .. 6 * Len(d) - 1
  PROVE  Bit(d, 6, i) = Bit(text, 8, i)
  <1>1. Len(text) \in Nat /\ Len(d) \in Nat /\ i \in Nat
    BY LenProperties DEF IsCodeOf
  <1>2. PICK g, r : g = i \div 24 /\ r = i % 24
    OBVIOUS
  <1>3. g \in Nat /\ r \in 0 .. 23 /\ i = 24 * g + r
    BY <1>1, <1>2
  <1>4. /\ i \div 6 = 4 * g + r \div 6 /\ i % 6 = r % 6 /\ r \div 6 \in 0 .. 3 /\ r % 6 \in 0 .. 5
        /\ i \div 8 = 3 * g + r \div 8 /\ i % 8 = r % 8 /\ r \div 8 \in 0 .. 2 /\ r % 8 \in 0 .. 7
    BY <1>1, <1>3, BitPlaces
  <1>5. PICK c, j : c = r \div 6 + 1 /\ j = r \div 8 + 1
    OBVIOUS
  <1>6. PICK p, o : p = r % 6 /\ o = r % 8
    OBVIOUS
  <1>7. /\ c \in 1 .. 4 /\ j \in 1 .. 3 /\ p \in 0 .. 5 /\ o \in 0 .. 7
        /\ i \div 6 + 1 = 4 * g + c /\ i % 6 = p /\ i \div 8 + 1 = 3 * g + j /\ i % 8 = o
    BY <1>1, <1>3, <1>4, <1>5, <1>6
  <1>8. PICK b : b = Block(text, g)
    OBVIOUS
  <1>9. b[1] \in Byte /\ b[2] \in Byte /\ b[3] \in Byte /\ b[j] = ByteAt(text, 3 * g + j)
    <2>1. \A k \in 1 .. 3 : b[k] \in Byte /\ b[k] = ByteAt(text, 3 * g + k)
      BY <1>3, <1>8, BlockBytes
    <2>2. QED
      BY <1>7, <2>1
  <1>10. (Char4(b)[c] \div Power[3 + p]) % 2 = (b[j] \div Power[1 + o]) % 2
    BY <1>3, <1>5, <1>6, <1>9, BitsOfBytes
  <1>11. Bit(d, 6, i) = (Char4(b)[c] \div Power[3 + p]) % 2
    <2>1. i \div 6 < Len(d) /\ 9 - 6 + p = 3 + p
      BY <1>1, <1>7
    <2>2. Bit(d, 6, i) = (d[i \div 6 + 1] \div Power[9 - 6 + p]) % 2
      BY <1>7, <2>1 DEF Bit
    <2>3. 4 * g + c <= Len(d)
      BY <1>1, <1>7, <2>1
    <2>4. d[4 * g + c] = Char4(b)[c]
      BY <1>3, <1>7, <1>8, <2>3 DEF IsCodeOf
    <2>5. QED
      BY <1>7, <2>1, <2>2, <2>4
  <1>12. Bit(text, 8, i) = (b[j] \div Power[1 + o]) % 2
    <2>1. 9 - 8 + o = 1 + o /\ (i \div 8 < Len(text) <=> 3 * g + j <= Len(text))
      BY <1>1, <1>3, <1>7
    <2>2. Bit(text, 8, i) =
             IF i \div 8 < Len(text) THEN (text[i \div 8 + 1] \div Power[9 - 8 + o]) % 2 ELSE 0
      BY <1>7 DEF Bit
    <2>3. CASE 3 * g + j <= Len(text)
      BY <1>7, <1>9, <2>1, <2>2, <2>3 DEF ByteAt
    <2>4. CASE ~(3 * g + j <= Len(text))
      <3>1. b[j] = 0
        BY <1>9, <2>4 DEF ByteAt
      <3>2. Power[1 + o] \in {128, 64, 32, 16, 8, 4, 2, 1}
        <4>1. /\ Power[1] = 128 /\ Power[2] = 64 /\ Power[3] = 32 /\ Power[4] = 16
              /\ Power[5] = 8 /\ Power[6] = 4 /\ Power[7] = 2 /\ Power[8] = 1
          BY DEF Power
        <4>2. \A k \in 1 .. 8 : Power[k] \in {128, 64, 32, 16, 8, 4, 2, 1}
          BY <4>1
        <4>3. 1 + o \in 1 .. 8
          BY <1>7
        <4>4. QED
          BY <4>2, <4>3
      <3>3. \A x \in {128, 64, 32, 16, 8, 4, 2, 1} : (0 \div x) % 2 = 0
        OBVIOUS
      <3>4. QED
        BY <2>1, <2>2, <2>4, <3>1, <3>2, <3>3
    <2>5. QED
      BY <2>3, <2>4
  <1>13. QED
    BY <1>10, <1>11, <1>12

\* base64_encode and base64_decode do what they should.
LEMMA Base64IsMeant ==
  ASSUME NEW text \in Seq(Byte)
  PROVE  Correct(text)
  <1> DEFINE code == base64_encode(text)
             size == (8 * Len(text) + 5) \div 6
             digits == SubSeq(code, 1, size)
  <1>1. /\ code \in Seq(Char) /\ Len(code) = 4 * ((Len(text) + 2) \div 3)
        /\ size \in Nat /\ size <= Len(code)
        /\ \A g \in Nat : \A c \in 1 .. 4 :
              4 * g + c <= size => code[4 * g + c] = Char4(Block(text, g))[c]
        /\ \A k \in size + 1 .. Len(code) : code[k] = Pad
    BY EncodeMeans
  <1>2. Len(text) \in Nat /\ Len(code) \in Nat
    BY <1>1, LenProperties
  <1> HIDE DEF code, size
  <1>3. \A k \in 1 .. size : code[k] \in Digit
    <2>1. TAKE k \in 1 .. size
    <2>2. PICK g, c : g = (k - 1) \div 4 /\ c = ((k - 1) % 4) + 1
      OBVIOUS
    <2>3. g \in Nat /\ c \in 1 .. 4 /\ 4 * g + c = k
      BY <1>1, <2>2, SMTT(30)
    <2>4. PICK b : b = Block(text, g)
      OBVIOUS
    <2>5. \A j \in 1 .. 3 : b[j] \in Byte
      BY <2>3, <2>4, BlockBytes
    <2>6. b[1] \in Byte /\ b[2] \in Byte /\ b[3] \in Byte
      BY <2>5
    <2>7. Char4(b) \in Seq(Digit) /\ Len(Char4(b)) = 4
      BY <2>6, FourDigits
    <2>8. Char4(b)[c] \in Digit
      BY <2>3, <2>7, ElementOfSeq
    <2>9. code[4 * g + c] = Char4(b)[c]
      <3>1. 4 * g + c <= size
        BY <1>1, <2>3
      <3>2. QED
        BY <1>1, <2>3, <2>4, <3>1
    <2>10. QED
      BY <2>3, <2>8, <2>9
  <1>4. Begins(Char, code, size)
    BY <1>1, Beginning
  <1>5. digits \in Seq(Digit) /\ Len(digits) = size /\ \A k \in 1 .. size : digits[k] = code[k]
    <2>1. Len(digits) = size /\ \A k \in 1 .. size : digits[k] = code[k]
      BY <1>4 DEF Begins
    <2>2. size \in Int /\ 1 \in Int /\ \A k \in 1 .. size : code[k] \in Digit
      BY <1>1, <1>3
    <2>3. SubSeq(code, 1, size) \in Seq(Digit)
      BY <2>2, SubSeqProperties
    <2>4. QED
      BY <2>1, <2>3
  <1> HIDE DEF digits
  <1>6. IsCodeOf(digits, text)
    <2>1. \A g \in Nat : \A c \in 1 .. 4 :
             4 * g + c <= size => 4 * g + c \in 1 .. size
      BY <1>1
    <2>2. QED
      BY <1>1, <1>5, <2>1 DEF IsCodeOf, size
  <1>7. ASSUME NEW k \in 1 .. Len(code)
        PROVE  IF k <= size THEN is_base64(code[k]) ELSE code[k] = Pad
    <2>1. CASE k <= size
      <3>1. k \in 1 .. size
        BY <1>1, <2>1
      <3>2. code[k] \in Digit
        BY <1>3, <3>1
      <3>3. is_base64(code[k])
        <4>1. PICK y : y = code[k]
          OBVIOUS
        <4>2. y \in Digit
          BY <3>2, <4>1
        <4>3. \A x \in Digit : x < 64
          BY DEF Digit
        <4>4. y < 64
          BY <4>2, <4>3, Zenon
        <4>5. QED
          BY <4>1, <4>4 DEF is_base64
      <3>4. QED
        BY <2>1, <3>3, Zenon
    <2>2. CASE ~(k <= size)
      <3>1. k \in size + 1 .. Len(code)
        BY <1>1, <1>2, <2>2
      <3>2. code[k] = Pad
        BY <1>1, <3>1
      <3>3. QED
        BY <2>2, <3>2 DEF is_base64
    <2>3. QED
      BY <2>1, <2>2
  <1>8. \A i \in 0 .. (6 * size - 1) : Bit(digits, 6, i) = Bit(text, 8, i)
    BY <1>5, <1>6, BitsMean
  <1>9. Char \subseteq Nat /\ Digit \subseteq Nat
    BY DEF Char, Digit
  <1>10. ASSUME NEW junk \in {0, 255}, NEW rest \in {<<>>, <<Other, 7>>},
                NEW y \in {code, digits}
         PROVE  base64_decode(y \o rest, junk) = text
    <2>1. rest \in Seq(Nat) /\ (Len(rest) = 0 \/ (Len(rest) = 2 /\ rest[1] = Other))
      <3>1. CASE rest = <<>>
        BY <3>1
      <3>2. CASE rest = <<Other, 7>>
        <4>1. PICK o : o = Other
          OBVIOUS
        <4>2. o \in Nat
          BY <4>1 DEF Other
        <4>3. rest = <<o, 7>>
          BY <3>2, <4>1
        <4>4. QED
          BY <4>1, <4>2, <4>3
      <3>3. QED
        BY <3>1, <3>2
    <2>2. y \in Seq(Nat) /\ Len(y) \in Nat /\ size <= Len(y)
      <3>1. code \in Seq(Nat) /\ digits \in Seq(Nat)
        BY <1>1, <1>5, <1>9, SeqMonotonic
      <3>2. QED
        BY <1>1, <1>2, <1>5, <3>1
    <2>3. \A k \in 1 .. size : y[k] = digits[k] /\ is_base64(y[k])
      <3>1. TAKE k \in 1 .. size
      <3>2. k \in 1 .. Len(code) /\ k <= size
        BY <1>1, <1>2
      <3>3. is_base64(code[k]) /\ digits[k] = code[k]
        BY <1>5, <1>7, <3>2
      <3>4. QED
        BY <3>3
    <2>4. size < Len(y) => y[size + 1] = Pad
      <3>1. SUFFICES ASSUME size < Len(y)
                     PROVE  y[size + 1] = Pad
        OBVIOUS
      <3>2. y = code
        BY <1>1, <1>5, <3>1
      <3>3. size + 1 \in size + 1 .. Len(code)
        BY <1>1, <1>2, <3>1, <3>2
      <3>4. QED
        BY <1>1, <3>2, <3>3
    <2>5. PICK z : z = y \o rest
      OBVIOUS
    <2>6. Behind(Nat, y, rest)
      BY <2>1, <2>2, Joined
    <2>7. /\ z \in Seq(Nat) /\ Len(z) = Len(y) + Len(rest)
          /\ \A k \in 1 .. Len(y) : z[k] = y[k]
          /\ \A k \in 1 .. Len(rest) : z[Len(y) + k] = rest[k]
      BY <2>5, <2>6 DEF Behind
    <2>8. size <= Len(z) /\ \A k \in 1 .. size : z[k] = digits[k] /\ is_base64(z[k])
      <3>1. \A k \in 1 .. size : k \in 1 .. Len(y)
        BY <1>1, <2>2
      <3>2. size <= Len(z)
        BY <1>1, <2>1, <2>2, <2>7
      <3>3. QED
        BY <2>3, <2>7, <3>1, <3>2
    <2>9. size < Len(z) => ~is_base64(z[size + 1])
      <3>1. SUFFICES ASSUME size < Len(z)
                     PROVE  ~is_base64(z[size + 1])
        OBVIOUS
      <3>2. CASE size < Len(y)
        <4>1. size + 1 \in 1 .. Len(y)
          BY <1>1, <2>2, <3>2
        <4>2. z[size + 1] = Pad
          BY <2>4, <2>7, <3>2, <4>1
        <4>3. QED
          BY <4>2 DEF is_base64, Pad
      <3>3. CASE ~(size < Len(y))
        <4>1. Len(y) = size /\ Len(rest) = 2 /\ rest[1] = Other
          BY <1>1, <2>1, <2>2, <2>7, <3>1, <3>3
        <4>2. 1 \in 1 .. Len(rest)
          BY <4>1
        <4>3. z[size + 1] = Other
          BY <2>7, <4>1, <4>2
        <4>4. QED
          BY <4>3 DEF is_base64, Other
      <3>4. QED
        BY <3>2, <3>3
    <2>10. Read(z) = SubSeq(z, 1, size)
      <3>1. \A k \in 1 .. size : is_base64(z[k])
        BY <2>8
      <3>2. QED
        <4>1. z \in Seq(Nat) /\ size \in Nat /\ size <= Len(z)
          BY <1>1, <2>7, <2>8
        <4>2. QED
          BY <2>9, <3>1, <4>1, ReadMeans
    <2>11. SubSeq(z, 1, size) = digits
      <3>1. Begins(Nat, z, size)
        BY <1>1, <2>7, <2>8, Beginning
      <3>2. PICK h : h = SubSeq(z, 1, size)
        OBVIOUS
      <3>3. h \in Seq(Nat) /\ Len(h) = size /\ \A k \in 1 .. size : h[k] = z[k]
        BY <3>1, <3>2 DEF Begins
      <3>4. digits \in Seq(Nat)
        BY <1>5, <1>9, SeqMonotonic
      <3>5. h = digits
        <4>1. Len(h) = Len(digits) /\ \A k \in 1 .. Len(h) : h[k] = digits[k]
          BY <1>5, <2>8, <3>3
        <4>2. QED
          BY <3>3, <3>4, <4>1, SeqEqual
      <3>6. QED
        BY <3>2, <3>5
    <2>12. Read(z) = digits /\ junk \in Nat
      BY <2>10, <2>11
    <2>13. base64_decode(z, junk) = text
      BY <1>6, <2>12, DecodeMeans
    <2>14. QED
      BY <2>5, <2>13
  <1>11. \A junk \in {0, 255} : \A rest \in {<<>>, <<Other, 7>>} :
            /\ base64_decode(code \o rest, junk) = text
            /\ base64_decode(digits \o rest, junk) = text
    <2>1. TAKE junk \in {0, 255}
    <2>2. TAKE rest \in {<<>>, <<Other, 7>>}
    <2>3. \A y \in {code, digits} : base64_decode(y \o rest, junk) = text
      BY <1>10, ZenonT(30)
    <2>4. code \in {code, digits} /\ digits \in {code, digits}
      OBVIOUS
    <2>5. QED
      BY <2>3, <2>4, ZenonT(30)
  <1>12. QED
    BY <1>1, <1>7, <1>8, <1>11 DEF Correct, code, size, digits

-----------------------------------------------------------------------------
(* What there is to encode and to parse *)

Inputs == plain \in Seq(Byte) /\ request \in Seq(STRING)

\* They are of their types and stay as they are.
LEMMA InputsStay == UtilitiesSpec => []Inputs
  <1>1. UtilitiesInit => Inputs
    BY InputsAssumption DEF UtilitiesInit, Inputs
  <1>2. Inputs /\ [UtilitiesNext]_<<vars, plain, request>> => Inputs'
    BY DEF Inputs, UtilitiesNext
  <1>3. QED
    BY <1>1, <1>2, PTL DEF UtilitiesSpec

\* http-thread.cpp, buildQueryMap(): whatever the query, the map holds the names of the
\* parameters before the first empty one and no others, each with the value of its first.
THEOREM QueriesAreParsed == UtilitiesSpec => []QueryMeaning
  <1>1. Inputs => QueryMeaning
    <2>1. SUFFICES ASSUME Inputs
                   PROVE  QueryCorrect(request)
      BY DEF QueryMeaning
    <2> DEFINE S == STRING \cup {"="}
    <2>2. STRING \subseteq S /\ "=" \in S
      OBVIOUS
    <2> HIDE DEF S
    <2>3. request \in Seq(S)
      BY <2>1, <2>2, SeqMonotonic DEF Inputs
    <2>4. QED
      BY <2>2, <2>3, QueryIsMeant
  <1>2. QED
    BY <1>1, InputsStay, PTL

\* base64.cpp: whatever the text, base64_encode writes its bits six by six with the padding
\* that belongs to its length, and base64_decode gives it back, with and without the padding,
\* with and without more behind it, whatever stands in the places it has not written.
THEOREM Base64IsCorrect == UtilitiesSpec => []Base64Meaning
  <1>1. Inputs => Base64Meaning
    BY Base64IsMeant DEF Inputs, Base64Meaning
  <1>2. QED
    BY <1>1, InputsStay, PTL
=============================================================================
