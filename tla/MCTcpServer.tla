---------------------------- MODULE MCTcpServer -----------------------------
(***************************************************************************)
(* tcpserver with three clients and a limit of two children; the lookups   *)
(* of one client with two name servers.                                    *)
(***************************************************************************)
EXTENDS TcpServer

CONSTANTS c1, c2, c3

MCClients  == {c1, c2, c3}
MCResolved == {c1}
=============================================================================
