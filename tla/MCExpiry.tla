------------------------------ MODULE MCExpiry ------------------------------
(***************************************************************************)
(* Three articles: b answers a, and c answers b.  b is posted to both      *)
(* groups.  In the second thread d answers c, and the program that wrote d *)
(* has left out a, the beginning of the references.                        *)
(***************************************************************************)
EXTENDS Expiry

CONSTANTS a, b, c, d, g, h

MCArts   == {a, b, c}
MCGroups == {g, h}

MCThread  == (a :> <<>>) @@ (b :> <<a>>) @@ (c :> <<a, b>>)
MCFour    == {a, b, c, d}
MCTrimmed == MCThread @@ (d :> <<b, c>>)
MCAll     == [x \in MCFour |-> {g}]
MCHome    == (a :> {g}) @@ (b :> {g, h}) @@ (c :> {g})

MCMode    == (g :> "thread") @@ (h :> "over")

Line(key, n)    == [key |-> key, n |-> n, groups |-> {}]
Pattern(gs, n)  == [key |-> "expire", n |-> n, groups |-> gs]

MCFiles == {<<Line("thread-follow-time", 1), Pattern({g}, 1), Pattern({h}, 0)>>,
            <<Line("default-expire", 1), Line("thread-follow-time", 0),
              Pattern({g}, 0 - 1), Pattern({h}, 1), Pattern({g, h}, 2),
              Line("auto-subscribe-mode", 5), Line("default-expire", 0)>>}
=============================================================================
