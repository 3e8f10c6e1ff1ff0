---------------------------- MODULE SpoolAccess ----------------------------
(***************************************************************************)
(* What the locking policy of noffle promises (noffle.c, head comment):    *)
(* the databases of the spool directory are open in at most one process at *)
(* a time.  "inside" is the set of processes that have any of them open.   *)
(***************************************************************************)
CONSTANT Procs

VARIABLE inside

Init == inside = {}

Enter(p) == /\ inside = {}
            /\ inside' = {p}

Leave(p) == /\ inside = {p}
            /\ inside' = {}

Next == \E p \in Procs : Enter(p) \/ Leave(p)

Spec == Init /\ [][Next]_inside
=============================================================================
