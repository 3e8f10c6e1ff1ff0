------------------------------ MODULE Resolver ------------------------------
(***************************************************************************)
(* What a child of tcpserver asks about its client before the news server  *)
(* begins: the name of its own address, that of the client's (dns_name.c,  *)
(* dns_resolve.c, dns_transmit.c) and the user there (remoteinfo.c).       *)
(*                                                                         *)
(* The questions are operators on the record of one child.  Each socket is *)
(* connected to one server and closed before the next is asked, so what is *)
(* late is lost.  Contents of packets, and writes and reads that move a    *)
(* part of the bytes only, are left out.                                   *)
(***************************************************************************)
EXTENDS Naturals, FiniteSets

CONSTANTS NameServers,   \* number of the servers in /etc/resolv.conf, at most 16
          MaySkip        \* may a connect or send fail at once?

ASSUME ResolverAssumption == /\ NameServers \in 1 .. 16
                             /\ MaySkip \in BOOLEAN

Servers == 0 .. NameServers - 1

\* With recursion desired udploop is 1, 2 and 3: try number t is for server
\* t % NameServers in loop 1 + t \div NameServers.
Tries == 0 .. 3 * NameServers - 1
LoopOf(t)   == 1 + t \div NameServers
ServerOf(t) == t % NameServers

\* What poll may find on the socket.
Events == {"answer",      \* what is waited for: a connection, a length, a packet
           "truncated",   \* serverwantstcp
           "failed",      \* serverfailed
           "irrelevant",  \* another packet than that; other bytes of the user's
           "refused"}     \* the call fails or finds the end

Questions == {"local", "remote", "user"}

Lookup == [asks : Questions, busy : BOOLEAN,
           state : 0 .. 5,                  \* tcpstate
           try : Tries,                     \* udploop and curserver
           event : Events \cup {"none"},    \* revents
           result : {"none", "found", "failed"},
           noSocket : BOOLEAN,              \* history: socket or bind has failed
           udp : [Servers -> 0 .. 3],       \* history: tries
           tcp : [Servers -> 0 .. 1]]

\* The child before its first question.
Fresh == [asks |-> "local", busy |-> FALSE, state |-> 0, try |-> 0,
          event |-> "none", result |-> "none", noSocket |-> FALSE,
          udp |-> [s \in Servers |-> 0], tcp |-> [s \in Servers |-> 0]]

-----------------------------------------------------------------------------
(* One question to the name servers.                                       *)

Ends(l, result) == [l EXCEPT !.busy = FALSE, !.state = 0, !.try = 0,
                             !.result = result]

NoSocket(l) == [Ends(l, "failed") EXCEPT !.noSocket = TRUE]

\* The tries from..to, the last of which stands.
UdpSent(l, from, to) ==
    [l EXCEPT !.state = 0, !.try = to,
              !.udp = [s \in Servers |->
                         @[s] + Cardinality({t \in from .. to : ServerOf(t) = s})]]

\* thisudp: from try t on, to the first to which the packet can be sent.
ThisUdp(l, t) ==
    LET last == 3 * NameServers - 1
    IN  IF t > last THEN {Ends(l, "failed")}
        ELSE {NoSocket(l), UdpSent(l, t, t)}
             \cup IF MaySkip
                  THEN {UdpSent(l, t, u) : u \in t .. last}
                       \cup {Ends(UdpSent(l, t, last), "failed")}
                  ELSE {}

NextUdp(l) == ThisUdp(l, l.try + 1)

TcpSent(l, from, to, state) ==
    [l EXCEPT !.state = state, !.try = to,
              !.tcp = [s \in Servers |-> @[s] + IF s \in from .. to THEN 1 ELSE 0]]

\* thistcp: connect may succeed at once.
ThisTcp(l, s) ==
    LET last == NameServers - 1
    IN  IF s > last THEN {Ends(l, "failed")}
        ELSE {NoSocket(l)}
             \cup {TcpSent(l, s, s, state) : state \in {1, 2}}
             \cup IF MaySkip
                  THEN {TcpSent(l, s, u, state) : u \in s .. last, state \in {1, 2}}
                       \cup {Ends(TcpSent(l, s, last, 1), "failed")}
                  ELSE {}

\* Mistake: TCP is tried with the servers from curserver on.
FromThisServer(l) == ThisTcp(l, ServerOf(l.try))

FirstTcp(l) == ThisTcp(l, 0)
NextTcp(l)  == ThisTcp(l, l.try + 1)

\* dns_transmit_start
Start(l) == ThisUdp([Fresh EXCEPT !.asks = l.asks, !.busy = TRUE], 0)

\* dns_transmit_get with tcpstate 0: the second loop waits for a better answer
\* until it is too late.
GetUdp(l) ==
    CASE l.event = "answer"    -> {Ends(l, "found")}
      [] l.event = "truncated" -> FirstTcp(l)
      [] l.event \in {"failed", "refused"} /\ LoopOf(l.try) # 2 -> NextUdp(l)
      [] OTHER                 -> {l}

\* ... with tcpstate 1 to 5: connect, write, the length's bytes, the packet.
GetTcp(l) ==
    CASE l.state < 5 /\ l.event # "refused" -> {[l EXCEPT !.state = @ + 1]}
      [] l.state = 5 /\ l.event = "answer"  -> {Ends(l, "found")}
      [] OTHER                              -> NextTcp(l)

-----------------------------------------------------------------------------
(* The question to the client's host: remoteinfo, with 26 seconds for the  *)
(* connection and, counted from the same moment, for the talk.             *)

\* State 1 connects, state 2 has sent the ports and reads.
StartUser(l) == {NoSocket([Fresh EXCEPT !.asks = "user"])}
                \cup {[Fresh EXCEPT !.asks = "user", !.busy = TRUE, !.state = state]
                         : state \in {1, 2}}

\* Letters before the third colon and white space do not count.
GetUser(l) ==
    CASE l.event = "refused"                      -> {Ends(l, "failed")}
      [] l.event # "refused" /\ l.state = 1       -> {[l EXCEPT !.state = 2]}
      [] l.event = "irrelevant" /\ l.state # 1    -> {l}
      [] OTHER                                    -> {Ends(l, "found")}

-----------------------------------------------------------------------------
Begin(l) == IF l.asks = "user" THEN StartUser(l) ELSE Start(l)

Handles(l) == IF l.asks = "user" THEN GetUser(l)
              ELSE IF l.state = 0 THEN GetUdp(l)
              ELSE GetTcp(l)

\* What has come is read, whether or not the deadline has passed.
Get(l) == {[k EXCEPT !.event = "none"] : k \in Handles(l)}

\* Mistake: remoteinfo waits for the user's host without a timeout.
TimeoutOfNames(l) == IF l.asks = "user" THEN {l}
                     ELSE IF l.state = 0 THEN NextUdp(l)
                     ELSE NextTcp(l)

\* The deadline has passed and nothing is there to be read.
Timeout(l) == IF l.asks = "user" THEN {Ends(l, "failed")}
              ELSE IF l.state = 0 THEN NextUdp(l)
              ELSE NextTcp(l)

NextQuestion(l) == [l EXCEPT !.asks = IF @ = "local" THEN "remote" ELSE "user"]

-----------------------------------------------------------------------------
(* A question about a name is given up only after each server has been     *)
(* tried in all three loops, or each by TCP (or without sockets).          *)
AllAsked(l) ==
    l.result = "failed" /\ l.asks # "user" /\ ~l.noSocket =>
        \/ \A s \in Servers : l.udp[s] = 3
        \/ \A s \in Servers : l.tcp[s] = 1
=============================================================================
