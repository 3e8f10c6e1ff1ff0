----------------------------- MODULE ForkServer -----------------------------
(***************************************************************************)
(* The accept loop of the two Perl servers of the game, polsys.pl and      *)
(* diary.pl: the parent forks a child for each client and its handler of   *)
(* SIGCHLD waits for the children that have ended.  The scripts differ in  *)
(* the handler (ReapsUntilNone) and in whether the parent closes its copy  *)
(* of the client's socket at once (ClosesClient).  What a child does is    *)
(* left open here: it serves until it ends; module Polsys says what it     *)
(* does.                                                                   *)
(*                                                                         *)
(* A client is one connection, and the process that serves it goes by the  *)
(* same name.  Perl lets a system call that a signal has interrupted       *)
(* start again (SA_RESTART, as Perl 5.6 does), so accept itself does not   *)
(* fail.                                                                   *)
(***************************************************************************)
EXTENDS Naturals, Sequences

CONSTANTS Clients,         \* the connections that may come
          ReapsUntilNone,  \* diary.pl: 1 until (-1 == waitpid(-1, WNOHANG))
          ClosesClient,    \* polsys.pl: continue { $client->close; }
          MayFailFork      \* may fork find no process?

ASSUME ForkServerAssumption == /\ ReapsUntilNone \in BOOLEAN
                               /\ ClosesClient \in BOOLEAN
                               /\ MayFailFork \in BOOLEAN

VARIABLES parent,   \* "down", in its "loop", or in the handler's loop ("reap")
          backlog,  \* the connections the kernel holds for accept
          conn,     \* conn[c]: how far c has come
          pending   \* is a SIGCHLD pending?

serverVars == <<parent, backlog, conn, pending>>

Stages == {"out",       \* has not connected
           "backlog",   \* connected, not accepted
           "accepted",  \* in $client, fork has not returned
           "unserved",  \* fork has failed, the parent keeps the socket
           "served",    \* a child works for it
           "zombie",    \* the child has ended, the parent has not waited
           "closed"}

In(stage) == {c \in Clients : conn[c] = stage}

\* No child of the parent is left: waitpid returns -1.
NoChild == In("served") \cup In("zombie") = {}

ServerTypeOK == /\ parent \in {"down", "loop", "reap"}
                /\ backlog \in Seq(Clients)
                /\ conn \in [Clients -> Stages]
                /\ pending \in BOOLEAN

ServerInit == /\ parent = "loop"
              /\ backlog = <<>>
              /\ conn = [c \in Clients |-> "out"]
              /\ pending = FALSE
-----------------------------------------------------------------------------
Connect(c) == /\ parent # "down"
              /\ conn[c] = "out"
              /\ conn' = [conn EXCEPT ![c] = "backlog"]
              /\ backlog' = Append(backlog, c)
              /\ UNCHANGED <<parent, pending>>

\* Mistake: the parent waits for its child before it accepts again.
AcceptAlone == /\ parent = "loop"
               /\ In("accepted") \cup In("served") = {}
               /\ backlog # <<>>
               /\ conn' = [conn EXCEPT ![Head(backlog)] = "accepted"]
               /\ backlog' = Tail(backlog)
               /\ UNCHANGED <<parent, pending>>

\* $client = $server->accept(): the socket that $client held before is
\* closed with its last reference.
Accept == /\ parent = "loop"
          /\ In("accepted") = {}
          /\ backlog # <<>>
          /\ conn' = [c \in Clients |->
                        IF c = Head(backlog) THEN "accepted"
                        ELSE IF conn[c] = "unserved" THEN "closed"
                        ELSE conn[c]]
          /\ backlog' = Tail(backlog)
          /\ UNCHANGED <<parent, pending>>

Fork(c) == /\ parent = "loop"
           /\ conn[c] = "accepted"
           /\ conn' = [conn EXCEPT ![c] = "served"]
           /\ UNCHANGED <<parent, backlog, pending>>

\* next unless defined $pid
ForkFails(c) == /\ MayFailFork
                /\ parent = "loop"
                /\ conn[c] = "accepted"
                /\ conn' = [conn EXCEPT ![c] = IF ClosesClient THEN "closed"
                                               ELSE "unserved"]
                /\ UNCHANGED <<parent, backlog, pending>>

\* The child of c exits or is killed; a SIGCHLD that is pending already
\* stays one signal.
Ends(c) == /\ conn[c] = "served"
           /\ conn' = [conn EXCEPT ![c] = "zombie"]
           /\ pending' = TRUE
           /\ UNCHANGED <<parent, backlog>>

-----------------------------------------------------------------------------
(* REAPER runs between any two operations of the loop.                     *)

\* What one waitpid(-1, WNOHANG) may do: it waits for any child that has ended.
AfterWaitPid == IF In("zombie") = {} THEN {conn}
                ELSE {[conn EXCEPT ![z] = "closed"] : z \in In("zombie")}

\* polsys.pl calls waitpid once for each signal; diary.pl until it returns -1,
\* and it returns 0 while children are running.
Reaper == /\ pending
          /\ parent = "loop"
          /\ pending' = FALSE
          /\ parent' = IF ReapsUntilNone THEN "reap" ELSE "loop"
          /\ conn' \in IF ReapsUntilNone THEN {conn} ELSE AfterWaitPid
          /\ UNCHANGED backlog

\* Mistake: one waitpid for all signals that have become one.
WaitOnce(z) == /\ parent = "reap"
               /\ conn[z] = "zombie"
               /\ conn' = [conn EXCEPT ![z] = "closed"]
               /\ parent' = "loop"
               /\ UNCHANGED <<backlog, pending>>

WaitPid(z) == /\ parent = "reap"
              /\ conn[z] = "zombie"
              /\ conn' = [conn EXCEPT ![z] = "closed"]
              /\ UNCHANGED <<parent, backlog, pending>>

\* Mistake: 1 until (0 == waitpid(-1, WNOHANG)), which is -1 without children.
UntilNoneHasEnded == /\ parent = "reap"
                     /\ In("zombie") = {}
                     /\ In("served") # {}
                     /\ parent' = "loop"
                     /\ UNCHANGED <<backlog, conn, pending>>

ReaperReturns == /\ parent = "reap"
                 /\ NoChild
                 /\ parent' = "loop"
                 /\ UNCHANGED <<backlog, conn, pending>>

\* init/polsys stop and init/diary stop: killall ends the parent and its
\* children, which go by the same name.
Stop == /\ parent # "down"
        /\ parent' = "down"
        /\ backlog' = <<>>
        /\ conn' = [c \in Clients |-> IF conn[c] = "out" THEN "out" ELSE "closed"]
        /\ pending' = FALSE

Start == /\ parent = "down"
         /\ parent' = "loop"
         /\ UNCHANGED <<backlog, conn, pending>>

ParentStep == \/ Accept
              \/ \E c \in Clients : Fork(c) \/ ForkFails(c) \/ WaitPid(c)
              \/ Reaper
              \/ ReaperReturns

ServerStep == \/ \E c \in Clients : Connect(c)
              \/ ParentStep
              \/ Start

Init == ServerInit

Next == \/ ServerStep
        \/ \E c \in Clients : Ends(c)
        \/ Stop

Spec == Init /\ [][Next]_serverVars

\* The parent is a running process; its children end when they like.
FairSpec == Spec /\ WF_serverVars(ParentStep)
-----------------------------------------------------------------------------
(***************************************************************************)
(* Invariant of diary.pl.  A child that has ended is waited for: the       *)
(* signal is still to come or the handler is at work.  (polsys.pl waits    *)
(* once for two children whose signals have become one.)                   *)
(***************************************************************************)
ZombieIsAnnounced == ReapsUntilNone /\ In("zombie") # {}
                       => pending \/ parent = "reap"

\* The parent has not got to c.  (A client that is left over by a failed
\* fork of diary.pl is not counted: it gets no answer until another client
\* is accepted.)
Waits(c) == conn[c] \in {"backlog", "accepted"}

(***************************************************************************)
(* Liveness of polsys.pl.  The parent gets to every client that has        *)
(* connected, whatever the clients before it do: it never waits for a      *)
(* child (polsys.pl:9-13, 198-211).                                        *)
(***************************************************************************)
Answered == \A c \in Clients : Waits(c) ~> ~Waits(c)

(***************************************************************************)
(* Liveness of diary.pl.  The handler keeps the parent from accept until   *)
(* all children have ended, so a client is only sure to be answered if     *)
(* again and again nobody is served.                                       *)
(***************************************************************************)
AnsweredWhenQuiet == []<>(In("served") = {}) => Answered
=============================================================================
