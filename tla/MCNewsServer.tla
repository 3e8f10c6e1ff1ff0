---------------------------- MODULE MCNewsServer ---------------------------
(* NewsServer with two readers, a group of the outside news server (r) and *)
(* a group of the hunt (l).                                                *)
EXTENDS NewsServer, TLC

CONSTANTS s1, s2, r, l, a, b, n1

MCServers == {s1, s2}
MCGroups  == {r, l}
MCLocal   == {l}
MCArts    == {a, b}
MCNotices == {n1}
MCNone    == {}

\* The hunt's group gets fewer articles than that of the outside server.
MCFew     == [g \in MCGroups |-> IF g = l THEN 1 ELSE 2]
MCThree   == [g \in MCGroups |-> 3]

\* Neither servers nor articles are told apart anywhere.
MCSymmetry == Permutations(MCServers) \cup Permutations(MCArts)
=============================================================================
