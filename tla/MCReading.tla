----------------------------- MODULE MCReading ------------------------------
(* Reading with one reader, a group of the outside news server (rem) and a *)
(* group of the hunt (loc).                                                *)
EXTENDS Reading

CONSTANTS s1, rem, loc, a, n1

MCServers == {s1}
MCGroups  == {rem, loc}
MCLocal   == {loc}
MCArts    == {a}
MCNotices == {n1}

\* The hunt's group gets fewer articles than that of the outside server.
MCNumbers == [g \in MCGroups |-> IF g = loc THEN 1 ELSE 2]
=============================================================================
