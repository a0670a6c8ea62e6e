---------------------------- MODULE MCUtilities ----------------------------
(* Three calls of mkpath whose paths have directories in common, written   *)
(* with a leading, a doubled and a trailing slash, and one with the empty  *)
(* path; texts for Base64 that end in every place of a group; and queries  *)
(* of every form.                                                          *)
EXTENDS Utilities

CONSTANTS c1, c2, c3, c4
MCKey == (c1 :> <<"", "a", "b", "">>) @@ (c2 :> <<"a", "", "b", "c">>) @@ (c3 :> <<"a", "d">>)
         @@ (c4 :> <<"">>)

MCTexts == UNION {[1..n -> {0, 1, 77, 254, 255}] : n \in 0..4}
MCQueries == UNION {[1..n -> {"&", "=", "x", "y"}] : n \in 0..6}
============================================================================
