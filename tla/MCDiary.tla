------------------------------ MODULE MCDiary -------------------------------
(***************************************************************************)
(* diary.pl with three clients, one of which talks: children share nothing *)
(* with one another once they are forked.                                  *)
(***************************************************************************)
EXTENDS Diary

CONSTANTS c1, c2, c3

MCClients == {c1, c2, c3}
MCTalkers == {c1}
=============================================================================
