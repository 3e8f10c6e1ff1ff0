------------------------------ MODULE MCPolsys ------------------------------
(***************************************************************************)
(* polsys.pl with two clients that leave hints of different length.        *)
(***************************************************************************)
EXTENDS Polsys

\* "text" is long enough for the login and for more than one line "1".
Lengths == [l \in Lines |-> IF l = Blank THEN 0 ELSE IF l = "text" THEN 4 ELSE 1]
=============================================================================
