------------------------------- MODULE MkPath -------------------------------
(***************************************************************************)
(* mkpath (utils.cpp): calls that run at the same time, in threads or in   *)
(* processes, on one file system, and others who may make files there and  *)
(* remove what is empty.                                                   *)
(*                                                                         *)
(* External, as the code uses it: stat and mkdir of the kernel, each one   *)
(* step.  Permissions, limits and symbolic links are left out.             *)
(***************************************************************************)
EXTENDS Naturals, Sequences

CONSTANTS Calls,   \* the calls of mkpath
          Key      \* Key[c]: the path of call c as the names between its slashes

VARIABLES
    fs,        \* fs[d]: "none", "dir" or "file"
    at,        \* at[c]: the number of the do_mkdir that call c is in
    stmt,      \* stmt[c]: "stat", "mkdir", "failed" (-1) or "made" (0)
    others,    \* what others do meanwhile: a subset of {"file", "remove"}
    filed,     \* others have made a file
    removed    \* others have removed something

vars == <<fs, at, stmt, others, filed, removed>>

\* The directory a key names: a leading slash and a doubled one add nothing.
Named(key) == SelectSeq(key, LAMBDA name : name # "")

\* The arguments of do_mkdir: the key up to each slash that ends a name, then the
\* key itself; a slash at its end makes the last one come twice.
Visits(key) ==
    LET slashes == SelectSeq([i \in 1..(Len(key) - 1) |-> i], LAMBDA i : key[i] # "")
    IN  Append([k \in 1..Len(slashes) |-> Named(SubSeq(key, 1, slashes[k]))], Named(key))

visit == [c \in Calls |-> Visits(Key[c])]

Root == <<>>
Parent(d) == SubSeq(d, 1, Len(d) - 1)
Places == (UNION {{visit[c][k] : k \in 1..Len(visit[c])} : c \in Calls}) \ {Root}

\* From top to bottom: the first do_mkdir is for the root or a directory in it, any
\* other for the same directory as the one before it or for one that lies in that; the
\* last one is for the same directory if the path ends in a slash.
ASSUME TopDown ==
    \A c \in Calls :
        /\ visit[c] \in Seq(Seq(STRING)) /\ visit[c] # <<>>
        /\ \A k \in 1..Len(visit[c]) :
              \/ k = 1 /\ (visit[c][k] = Root \/ Parent(visit[c][k]) = Root)
              \/ k > 1 /\ (visit[c][k] = visit[c][k - 1] \/ Parent(visit[c][k]) = visit[c][k - 1])
        /\ Key[c][Len(Key[c])] = "" =>
              \/ visit[c] = <<Root>>
              \/ Len(visit[c]) > 1 /\ visit[c][Len(visit[c])] = visit[c][Len(visit[c]) - 1]

Kind(d) == IF d = Root THEN "dir" ELSE fs[d]
Exists(d) == Kind(d) # "none"
\* Everything lies in a directory.
WellFormed == \A d \in Places : Exists(d) /\ Parent(d) \in Places \cup {Root} => Kind(Parent(d)) = "dir"

Init ==
    /\ fs \in [Places -> {"none", "dir", "file"}] /\ WellFormed
    /\ at = [c \in Calls |-> 1]
    /\ stmt = [c \in Calls |-> "stat"]
    /\ others \in SUBSET {"file", "remove"}
    /\ filed = FALSE /\ removed = FALSE
----------------------------------------------------------------------------
(* do_mkdir() and the loop of mkpath() *)

Dir(c) == visit[c][at[c]]
Goto(c, s) == stmt' = [stmt EXCEPT ![c] = s] /\ UNCHANGED at

\* status is 0: the next do_mkdir, or the end.
Made(c) ==
    IF at[c] < Len(visit[c])
      THEN at' = [at EXCEPT ![c] = @ + 1] /\ stmt' = [stmt EXCEPT ![c] = "stat"]
      ELSE Goto(c, "made")

\* The empty path names nothing (ENOENT), though it has no name that could be missing.
IsEmpty(c) == Key[c] = <<"">>
\* The last do_mkdir of a path that ends in a slash: a file is not found there (ENOTDIR).
Slashed(c) == at[c] = Len(visit[c]) /\ Key[c][Len(Key[c])] = ""

\* stat(): nothing is found, or a directory, or something else.
Stat(c) ==
    /\ stmt[c] = "stat"
    /\ \/ /\ IsEmpty(c) \/ Kind(Dir(c)) = "none" \/ (Kind(Dir(c)) = "file" /\ Slashed(c))
          /\ Goto(c, "mkdir")
       \/ Kind(Dir(c)) = "dir" /\ ~IsEmpty(c) /\ Made(c)
       \/ Kind(Dir(c)) = "file" /\ ~Slashed(c) /\ Goto(c, "failed")
    /\ UNCHANGED <<fs, others, filed, removed>>

\* Mutant: without the test for EEXIST.
MkdirStrict(c) ==
    /\ stmt[c] = "mkdir"
    /\ IF ~Exists(Dir(c)) /\ Kind(Parent(Dir(c))) = "dir"
         THEN fs' = [fs EXCEPT ![Dir(c)] = "dir"] /\ Made(c)
         ELSE Goto(c, "failed") /\ UNCHANGED fs
    /\ UNCHANGED <<others, filed, removed>>

\* mkdir(): EEXIST whatever is there by now, a slash after it or not; ENOENT or ENOTDIR
\* if the path is empty or the directory above is gone or is none.
Mkdir(c) ==
    /\ stmt[c] = "mkdir"
    /\ IF ~IsEmpty(c) /\ Exists(Dir(c))
         THEN Made(c) /\ UNCHANGED fs
         ELSE IF ~IsEmpty(c) /\ Kind(Parent(Dir(c))) = "dir"
           THEN fs' = [fs EXCEPT ![Dir(c)] = "dir"] /\ Made(c)
           ELSE Goto(c, "failed") /\ UNCHANGED fs
    /\ UNCHANGED <<others, filed, removed>>
----------------------------------------------------------------------------
(* Others *)

MakeFile(d) ==
    /\ "file" \in others
    /\ ~Exists(d) /\ Kind(Parent(d)) = "dir"
    /\ fs' = [fs EXCEPT ![d] = "file"]
    /\ filed' = TRUE
    /\ UNCHANGED <<at, stmt, others, removed>>

RemovePlace(d) ==
    /\ "remove" \in others
    /\ Exists(d) /\ \A e \in Places : Parent(e) = d => ~Exists(e)
    /\ fs' = [fs EXCEPT ![d] = "none"]
    /\ removed' = TRUE
    /\ UNCHANGED <<at, stmt, others, filed>>

Next ==
    \/ \E c \in Calls : Stat(c) \/ Mkdir(c)
    \/ \E d \in Places : MakeFile(d) \/ RemovePlace(d)

Spec == Init /\ [][Next]_vars
----------------------------------------------------------------------------
(* Properties *)

\* A call fails only if its path is empty, others removed something or a file is in its way: calls
\* that make the same directories at the same time do not make each other fail
\* ("EEXIST for race condition", do_mkdir).
FailsForAReason ==
    \A c \in Calls : stmt[c] = "failed" /\ ~IsEmpty(c) /\ ~removed =>
        \E k \in 1..Len(visit[c]) : Kind(visit[c][k]) = "file"

\* When a call has succeeded and nobody removed anything, all of its path is there,
\* as directories above the last name, and at the last one too unless others made
\* files: EEXIST is taken for success without a look at what exists.
EnsuresPath ==
    \A c \in Calls : stmt[c] = "made" /\ ~removed =>
        \A k \in 1..Len(visit[c]) :
            LET d == visit[c][k] IN
            /\ Exists(d)
            /\ d # visit[c][Len(visit[c])] \/ ~filed => Kind(d) = "dir"

\* mkpath() ensures that all directories of its path exist, or fails for a reason.
MkPathMeaning == FailsForAReason /\ EnsuresPath
============================================================================
