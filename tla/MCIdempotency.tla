---------------------------- MODULE MCIdempotency ----------------------------
(* Values for model checking Idempotency. *)
EXTENDS Idempotency, TLC

CONSTANTS r1, r2, r3, r4, r5, k1, k2, p1, p2

\* Two sendings of one request, another request that reuses its key, and two
\* sendings of a request with an oversized response.
Sent    == {r1, r2, r3, r4, r5}
SentKey == r1 :> k1 @@ r2 :> k1 @@ r3 :> k1 @@ r4 :> k2 @@ r5 :> k2
SentPrint == r1 :> p1 @@ r2 :> p1 @@ r3 :> p2 @@ r4 :> p1 @@ r5 :> p1
=============================================================================
