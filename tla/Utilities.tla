----------------------------- MODULE Utilities -----------------------------
(***************************************************************************)
(* Three parts that keep no state between two calls, under one             *)
(* specification: calls of mkpath, a text for Base64, and the query of a   *)
(* request.                                                                *)
(***************************************************************************)
EXTENDS MkPath, Base64, QueryMap

CONSTANTS Texts,    \* texts to encode
          Queries   \* queries to parse

\* A text is made of bytes, a query of characters.
ASSUME InputsAssumption ==
    Texts \subseteq Seq(Byte) /\ Queries \subseteq Seq(STRING) /\ <<>> \in Texts \cap Queries

VARIABLES plain,    \* the bytes to encode
          request   \* the query to parse

\* Either mkpath runs, or there is a text or a query.
UtilitiesInit ==
    /\ Init
    /\ \/ plain = <<>> /\ request = <<>>
       \/ /\ others = {} /\ \A d \in Places : fs[d] = "none"
          /\ \/ plain \in Texts /\ request = <<>>
             \/ plain = <<>> /\ request \in Queries
UtilitiesNext == plain = <<>> /\ request = <<>> /\ Next /\ UNCHANGED <<plain, request>>
UtilitiesSpec == UtilitiesInit /\ [][UtilitiesNext]_<<vars, plain, request>>

\* base64_encode and base64_decode do what Correct says for every text.
Base64Meaning == Correct(plain)

\* buildQueryMap does what QueryCorrect says for every query: what stands behind an
\* empty parameter is lost, and of two with one name the first counts.
QueryMeaning == QueryCorrect(request)
============================================================================
