------------------------------ MODULE QueryMap ------------------------------
(***************************************************************************)
(* RequestEvent::buildQueryMap (http-thread.cpp): the parameters of a      *)
(* request.  A query is a sequence of characters, of which only "&" and    *)
(* "=" are told from the others; positions begin with 0 as in the code.    *)
(***************************************************************************)
EXTENDS Integers, Sequences, SequencesExt

\* string::find: the first position of c that is not before from, or the size.
Find(s, c, from) ==
    Min({Len(s)} \cup {i \in from..(Len(s) - 1) : s[i + 1] = c})

\* string::substr from one position up to another.
Substr(s, from, to) == SubSeq(s, from + 1, to)

getNextQuery(query, from) ==
    IF from >= Len(query) THEN <<>> ELSE Substr(query, from, Find(query, "&", from))

\* The pair that a token stands for: without "=" it is all name.
Parameter(token) ==
    LET eq == Find(token, "=", 0) IN <<Substr(token, 0, eq), Substr(token, eq + 1, Len(token))>>

\* Mutant: the parameter that comes last replaces the others.
putInstead(map, p) == [n \in DOMAIN map \cup {p[1]} |-> IF n = p[1] THEN p[2] ELSE map[n]]

\* unordered_map::insert keeps what is there.
insert(map, p) == [n \in DOMAIN map \cup {p[1]} |-> IF n \in DOMAIN map THEN map[n] ELSE p[2]]

\* One turn of the loop; it is left at an empty token.
NextParameter(query, s) ==
    LET token == getNextQuery(query, s.from)
    IN  IF token = <<>> THEN s
        ELSE [from |-> s.from + Len(token) + 1, map |-> insert(s.map, Parameter(token))]

\* The loop after n turns.  Each takes a character at least.
QueryTurns(query) ==
    LET turn[n \in 0..Len(query)] ==
            IF n = 0 THEN [from |-> 0, map |-> <<>>] ELSE NextParameter(query, turn[n - 1])
    IN  turn

buildQueryMap(query) == QueryTurns(query)[Len(query)].map
----------------------------------------------------------------------------
(* What it means *)

\* A field: what stands between two "&", or an end of the query.
Field(query, i, j) ==
    /\ i = 1 \/ query[i - 1] = "&"
    /\ j = Len(query) \/ query[j + 1] = "&"
    /\ \A k \in i..j : query[k] # "&"

\* The fields that count: they are not empty, and none before them is.
Fields(query) ==
    {f \in (1..Len(query)) \X (1..Len(query)) :
        /\ f[1] <= f[2] /\ Field(query, f[1], f[2])
        /\ ~ \E i \in 1..(f[1] - 1) : Field(query, i, i - 1)}

\* A name holds no "=", and is the whole field or is followed by one.
Names(field, name) ==
    ~Contains(name, "=") /\ (field = name \/ IsPrefix(Append(name, "="), field))
Stands(field, name, value) ==
    /\ ~Contains(name, "=")
    /\ \/ field = name /\ value = <<>>
       \/ field = Append(name, "=") \o value

\* The map holds the names of the fields before the first empty one, and no others,
\* each with the value of the first field of that name.
QueryCorrect(query) ==
    LET map == buildQueryMap(query)
        text(f) == SubSeq(query, f[1], f[2])
    IN  /\ \A f \in Fields(query) : \E name \in DOMAIN map : Names(text(f), name)
        /\ \A name \in DOMAIN map :
              \E f \in Fields(query) :
                  /\ Stands(text(f), name, map[name])
                  /\ \A g \in Fields(query) : Names(text(g), name) => f[1] <= g[1]
============================================================================
