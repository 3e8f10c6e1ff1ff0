----------------------------- MODULE TcpServer ------------------------------
(***************************************************************************)
(* tcpserver as init/newsserver starts it: the parent accepts connections  *)
(* as long as less than Limit children are there; a child looks up who its *)
(* client is and becomes noffle.  SIGCHLD is blocked but in accept and in  *)
(* sig_pause.                                                              *)
(*                                                                         *)
(* Children share nothing, so what is asked is modelled for the clients of *)
(* Resolved only; for the others it is one step.                           *)
(***************************************************************************)
EXTENDS Resolver, Sequences

CONSTANTS Clients,    \* the connections that may come
          Resolved,   \* those whose lookups are modelled
          Limit       \* limit, 40 in the code

ASSUME TcpServerAssumption == /\ Resolved \subseteq Clients
                              /\ Limit \in Nat \ {0}

VARIABLES parent,        \* where the parent is, see Places
          numchildren,
          pending,       \* is a SIGCHLD pending?
          backlog,       \* the connections the kernel holds for accept
          conn,          \* conn[c]: how far c has come
          look           \* look[c]: what the child of c asks, in Lookup

vars == <<parent, numchildren, pending, backlog, conn, look>>

Places == {"down",
           "test",     \* while (numchildren >= limit)
           "full",     \* about to call sig_pause
           "pause", "accept",
           "fork"}     \* the socket is in t

Stages == {"out", "backlog", "accepted",
           "asks",     \* a child of tcpserver's looks up who it is
           "reads",    \* noffle serves it
           "zombie",
           "orphan",   \* noffle serves it, its parent has been stopped
           "closed"}

In(stages) == {c \in Clients : conn[c] \in stages}

TypeOK == /\ parent \in Places
          /\ numchildren \in 0 .. Limit
          /\ pending \in BOOLEAN
          /\ backlog \in Seq(Clients)
          /\ conn \in [Clients -> Stages]
          /\ DOMAIN look = Resolved

Init == /\ parent = "test"
        /\ numchildren = 0
        /\ pending = FALSE
        /\ backlog = <<>>
        /\ conn = [c \in Clients |-> "out"]
        /\ look = [c \in Resolved |-> Fresh]
-----------------------------------------------------------------------------
(* The parent *)

Connect(c) == /\ parent # "down"
              /\ conn[c] = "out"
              /\ conn' = [conn EXCEPT ![c] = "backlog"]
              /\ backlog' = Append(backlog, c)
              /\ UNCHANGED <<parent, numchildren, pending, look>>

Test == /\ parent = "test"
        /\ parent' = IF numchildren >= Limit THEN "full" ELSE "accept"
        /\ UNCHANGED <<numchildren, pending, backlog, conn, look>>

\* sig_pause: the signal is let through and the parent is asleep at once.
Pause == /\ parent = "full"
         /\ parent' = "pause"
         /\ UNCHANGED <<numchildren, pending, backlog, conn, look>>

\* All children that have ended are waited for.
Reap == LET dead == In({"zombie"})
        IN  /\ pending' = FALSE
            /\ conn' = [c \in Clients |-> IF c \in dead THEN "closed" ELSE conn[c]]
            /\ numchildren' = IF Cardinality(dead) > numchildren THEN 0
                              ELSE numchildren - Cardinality(dead)
            /\ UNCHANGED <<backlog, look>>

\* Mistake: SIGCHLD is not blocked between the test and pause.
SigchldUnblocked == /\ pending /\ parent \in {"full", "pause", "accept"}
                    /\ parent' = IF parent = "full" THEN "pause" ELSE "test"
                    /\ Reap

\* The handler: sig_pause returns; accept too, unless it has not been called.
Sigchld == /\ pending
           /\ \/ parent = "pause" /\ parent' = "test"
              \/ parent = "accept" /\ parent' \in {"test", "accept"}
           /\ Reap

Accept == /\ parent = "accept"
          /\ backlog # <<>>
          /\ parent' = "fork"
          /\ numchildren' = numchildren + 1
          /\ conn' = [conn EXCEPT ![Head(backlog)] = "accepted"]
          /\ backlog' = Tail(backlog)
          /\ UNCHANGED <<pending, look>>

\* The connection is gone before accept has it.
AcceptFails == /\ parent = "accept"
               /\ backlog # <<>>
               /\ parent' = "test"
               /\ conn' = [conn EXCEPT ![Head(backlog)] = "closed"]
               /\ backlog' = Tail(backlog)
               /\ UNCHANGED <<numchildren, pending, look>>

Fork(c) == /\ parent = "fork"
           /\ conn[c] = "accepted"
           /\ parent' = "test"
           /\ conn' = [conn EXCEPT ![c] = "asks"]
           /\ UNCHANGED <<numchildren, pending, backlog, look>>

\* Mistake: the child that could not be made stays in the count.
ForkFailsCounted(c) == /\ parent = "fork"
                       /\ conn[c] = "accepted"
                       /\ parent' = "test"
                       /\ conn' = [conn EXCEPT ![c] = "closed"]
                       /\ UNCHANGED <<numchildren, pending, backlog, look>>

ForkFails(c) == /\ parent = "fork"
                /\ conn[c] = "accepted"
                /\ parent' = "test"
                /\ numchildren' = numchildren - 1
                /\ conn' = [conn EXCEPT ![c] = "closed"]
                /\ UNCHANGED <<pending, backlog, look>>

\* killall tcpserver: the parent ends, and the children that are not noffle yet.
Stop == /\ parent # "down"
        /\ parent' = "down"
        /\ numchildren' = 0
        /\ pending' = FALSE
        /\ backlog' = <<>>
        /\ conn' = [c \in Clients |-> CASE conn[c] = "reads" -> "orphan"
                                        [] conn[c] \in {"out", "orphan"} -> conn[c]
                                        [] OTHER -> "closed"]
        /\ look' = [c \in Resolved |-> Fresh]

Restart == /\ parent = "down"
           /\ parent' = "test"
           /\ UNCHANGED <<numchildren, pending, backlog, conn, look>>

-----------------------------------------------------------------------------
(* A child *)

\* c with its lookup as l, and the child at stage s.
Child(c, l, s) == /\ look' = [look EXCEPT ![c] = l]
                  /\ conn' = [conn EXCEPT ![c] = s]
                  /\ UNCHANGED <<parent, numchildren, pending, backlog>>

Asks(c) == c \in Resolved /\ conn[c] = "asks"

\* Nobody has been asked since the last result.
Ask(c) == /\ Asks(c) /\ ~look[c].busy /\ look[c].result = "none"
          /\ \E l \in Begin(look[c]) : Child(c, l, "asks")

\* There is no nameserver to be read of: dns_resolvconfip fails.
NoResolvConf(c) == /\ Asks(c) /\ ~look[c].busy /\ look[c].result = "none"
                   /\ look[c].asks # "user"
                   /\ Child(c, NoSocket(look[c]), "asks")

\* Whatever has come out, the next is asked.
Proceed(c) == /\ Asks(c) /\ look[c].result # "none" /\ look[c].asks # "user"
              /\ Child(c, [NextQuestion(look[c]) EXCEPT !.result = "none"], "asks")

\* Something comes on the socket.
Arrive(c) == /\ Asks(c) /\ look[c].busy /\ look[c].event = "none"
             /\ \E e \in Events : Child(c, [look[c] EXCEPT !.event = e], "asks")

Read(c) == /\ Asks(c) /\ look[c].busy /\ look[c].event # "none"
           /\ \E l \in Get(look[c]) : Child(c, l, "asks")

GiveUp(c) == /\ Asks(c) /\ look[c].busy /\ look[c].event = "none"
             /\ \E l \in Timeout(look[c]) : Child(c, l, "asks")

\* pathexec
Exec(c) == /\ conn[c] = "asks"
           /\ c \in Resolved => look[c].asks = "user" /\ look[c].result # "none"
           /\ conn' = [conn EXCEPT ![c] = "reads"]
           /\ look' = [look EXCEPT ![c] = Fresh]
           /\ UNCHANGED <<parent, numchildren, pending, backlog>>

\* noffle ends, or a child that has no memory or whose client is gone.
Exit(c) == /\ \/ /\ conn[c] \in {"asks", "reads"}
                 /\ conn' = [conn EXCEPT ![c] = "zombie"]
                 /\ pending' = TRUE
              \/ /\ conn[c] = "orphan"
                 /\ conn' = [conn EXCEPT ![c] = "closed"]
                 /\ UNCHANGED pending
           /\ look' = [k \in Resolved |-> IF k = c THEN Fresh ELSE look[k]]
           /\ UNCHANGED <<parent, numchildren, backlog>>

ChildStep(c) == Ask(c) \/ NoResolvConf(c) \/ Proceed(c) \/ Read(c) \/ GiveUp(c) \/ Exec(c)

ParentStep == \/ Test \/ Pause \/ Sigchld \/ Accept \/ AcceptFails
              \/ \E c \in Clients : Fork(c) \/ ForkFails(c)

Next == \/ ParentStep \/ Stop \/ Restart
        \/ \E c \in Clients : Connect(c) \/ Exit(c) \/ ChildStep(c)
        \/ \E c \in Resolved : Arrive(c)

\* The processes run; nobody has to send anything, or to leave.
Spec == /\ Init /\ [][Next]_vars
        /\ WF_vars(ParentStep)
        /\ \A c \in Resolved : WF_vars(ChildStep(c))
-----------------------------------------------------------------------------
(* Properties *)

\* The parent's count is that of the children that it has not waited for
\* (tcpserver.c:272-290, 406, 422), so no more than Limit are at work for it.
CountIsTrue ==
    numchildren = Cardinality(In({"asks", "reads", "zombie"}))
                    + IF parent = "fork" THEN 1 ELSE 0

\* No server is asked more often than three times by UDP and once by TCP (see
\* Lookup), and a lookup that has failed has asked all of them
\* (dns_transmit.c:95-192).
AllServersAsked == \A c \in Resolved : look[c] \in Lookup /\ AllAsked(look[c])

\* A child that asks comes to an end, unless it is sent useless things again
\* and again: timeouts are looked at only when nothing is there to be read
\* (dns_transmit.c:249, remoteinfo.c:39).
Flooded(c) == conn[c] = "asks" /\ look[c].event \in {"irrelevant", "failed", "refused"}
LookupEnds ==
    \A c \in Resolved : (<>[]~Flooded(c)) => (conn[c] = "asks" ~> conn[c] # "asks")

\* Everyone who has connected is accepted if again and again less than Limit
\* children are at work, also when Limit have been there and the parent was
\* asleep (tcpserver.c:398-402).
Room     == Cardinality(In({"asks", "reads"})) < Limit
WaitersAccepted == []<>Room => []<>(In({"backlog", "accepted"}) = {})
=============================================================================
