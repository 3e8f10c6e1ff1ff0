----------------------------- MODULE MCRequests -----------------------------
(* Requests with two servers, one fetching noffle and two articles.      *)
EXTENDS Requests

CONSTANTS s1, s2, t1, a1, a2

OneServer  == {s1}
TwoServers == {s1, s2}
OneFetcher == {t1}
TwoArts    == {a1, a2}
=============================================================================
