-------------------------- MODULE MCRemoteSession --------------------------
(* RemoteSession with a single group, which is new at first, and a single  *)
(* article that is posted.                                                 *)
EXTENDS RemoteSession

CONSTANTS g, m1

MCGroups    == {g}
MCOldGroups == {}
MCPosts     == {m1}
MCMaxNumb   == [x \in MCGroups |-> 3]
=============================================================================
