-------------------------- MODULE TcpServerProofs ---------------------------
(***************************************************************************)
(* That tcpserver counts its children truly and never has more than Limit  *)
(* of them, for any number of clients and any limit.  The invariant adds   *)
(* to the count that accept is called with a place left, and that the      *)
(* backlog holds each waiting connection once.  And that no name is given  *)
(* up before all servers were asked, for any number of servers: the udp    *)
(* history of a lookup is a function of the try it has come to, the tcp    *)
(* history of the server.                                                  *)
(***************************************************************************)
EXTENDS TcpServer, FiniteSetTheorems, TLAPS

Working == In({"asks", "reads", "zombie"})

Waiting == /\ \A i \in DOMAIN backlog : conn[backlog[i]] = "backlog"
           /\ \A i, j \in DOMAIN backlog : backlog[i] = backlog[j] => i = j

IInv == /\ TypeOK
        /\ Waiting
        /\ CountIsTrue
        /\ parent = "accept" => numchildren < Limit

-----------------------------------------------------------------------------
(* Sets of clients.                                                        *)

LEMMA InIsFinite ==
  ASSUME IsFiniteSet(Clients), NEW stages
  PROVE  IsFiniteSet(In(stages)) /\ Cardinality(In(stages)) \in Nat
<1>1. In(stages) \subseteq Clients
  BY DEF In
<1> QED
  BY <1>1, FS_Subset, FS_CardinalityType

\* What the count means where no fork is under way.
LEMMA CountAtRest ==
  ASSUME IsFiniteSet(Clients), TypeOK, CountIsTrue, parent # "fork"
  PROVE  numchildren = Cardinality(Working)
  BY InIsFinite DEF TypeOK, CountIsTrue, Working

\* A step that leaves the working children alone, and the parent's count.
LEMMA SameWork ==
  ASSUME CountIsTrue, Working' = Working, UNCHANGED numchildren,
         (parent = "fork") = (parent' = "fork")
  PROVE  CountIsTrue'
  BY DEF CountIsTrue, Working

LEMMA WorkBy ==
  ASSUME NEW c \in Clients, TypeOK, NEW stage \in Stages,
         conn' = [conn EXCEPT ![c] = stage],
         (conn[c] \in {"asks", "reads", "zombie"})
            <=> (stage \in {"asks", "reads", "zombie"})
  PROVE  Working' = Working
  BY DEF TypeOK, Working, In

-----------------------------------------------------------------------------
LEMMA InitIInv == ASSUME IsFiniteSet(Clients) PROVE Init => IInv
<1> SUFFICES ASSUME Init PROVE IInv
  OBVIOUS
<1>1. TypeOK
  <2>1. backlog \in Seq(Clients) /\ conn \in [Clients -> Stages]
    BY DEF Init, Stages
  <2>2. numchildren \in 0 .. Limit /\ DOMAIN look = Resolved
    BY TcpServerAssumption DEF Init
  <2> QED
    BY <2>1, <2>2 DEF Init, TypeOK, Places
<1>2. Waiting
  BY DEF Init, Waiting
<1>3. CountIsTrue
  <2>1. Working = {}
    BY DEF Init, In, Working
  <2>2. Cardinality(Working) = 0
    BY <2>1, FS_EmptySet
  <2> QED
    BY <2>2 DEF Init, CountIsTrue, Working
<1> QED
  BY <1>1, <1>2, <1>3 DEF IInv, Init

\* A client that waits is taken from the head of the backlog.
LEMMA HeadOfBacklog ==
  ASSUME TypeOK, Waiting, backlog # <<>>, NEW stage,
         conn' = [conn EXCEPT ![Head(backlog)] = stage],
         backlog' = Tail(backlog)
  PROVE  /\ Head(backlog) \in Clients /\ conn[Head(backlog)] = "backlog"
         /\ backlog' \in Seq(Clients)
         /\ Waiting'
  BY DEF TypeOK, Waiting

\* A step of one connection that is not waiting.
LEMMA WaitingBy ==
  ASSUME TypeOK, Waiting, NEW c \in Clients, conn[c] # "backlog", NEW stage,
         conn' = [conn EXCEPT ![c] = stage], backlog' = backlog
  PROVE  Waiting'
  BY DEF TypeOK, Waiting

LEMMA ParentKeeps ==
  ASSUME IsFiniteSet(Clients), IInv, ParentStep
  PROVE  IInv'
<1> USE TcpServerAssumption
<1>1. CASE Test \/ Pause
  <2>1. TypeOK' /\ Waiting'
    BY <1>1 DEF IInv, Test, Pause, TypeOK, Places, Waiting
  <2>2. Working' = Working
    BY <1>1 DEF Test, Pause, Working, In
  <2>3. CountIsTrue'
    BY <1>1, <2>2, SameWork DEF IInv, Test, Pause
  <2> QED
    BY <1>1, <2>1, <2>3 DEF IInv, Test, Pause, TypeOK
<1>2. CASE Sigchld
  <2> DEFINE dead == In({"zombie"})
  <2>1. /\ parent # "fork" /\ parent' \in {"test", "accept"}
        /\ parent' = "accept" => parent = "accept"
        /\ conn' = [c \in Clients |-> IF c \in dead THEN "closed" ELSE conn[c]]
        /\ UNCHANGED <<backlog, look>> /\ pending' = FALSE
    BY <1>2 DEF Sigchld, Reap
  <2>2. numchildren' = IF Cardinality(dead) > numchildren THEN 0
                       ELSE numchildren - Cardinality(dead)
    BY <1>2 DEF Sigchld, Reap
  <2>3. dead \subseteq Working /\ Working' = Working \ dead
    BY <2>1 DEF Working, In, IInv, TypeOK
  <2>4. IsFiniteSet(Working) /\ IsFiniteSet(dead) /\ Cardinality(dead) \in Nat
    BY InIsFinite DEF Working
  <2> HIDE DEF dead
  <2>5. Working \cap dead = dead
    BY <2>3
  <2>6. Cardinality(Working') = Cardinality(Working) - Cardinality(dead)
    BY <2>3, <2>4, <2>5, FS_Difference
  <2>7. Cardinality(dead) <= Cardinality(Working)
    BY <2>3, <2>4, FS_Subset
  <2>8. numchildren = Cardinality(Working) /\ numchildren \in 0 .. Limit
    BY <2>1, CountAtRest DEF IInv, TypeOK
  <2>9. numchildren' = Cardinality(Working') /\ numchildren' \in 0 .. numchildren
    BY <2>2, <2>4, <2>6, <2>7, <2>8
  <2>10. CountIsTrue'
    BY <2>1, <2>9 DEF CountIsTrue, Working
  <2>11. TypeOK'
    <3>1. numchildren' \in 0 .. Limit
      BY <2>8, <2>9
    <3>2. conn' \in [Clients -> Stages]
      BY <2>1 DEF IInv, TypeOK, Stages
    <3> QED
      BY <2>1, <3>1, <3>2 DEF IInv, TypeOK, Places
  <2>12. Waiting'
    BY <2>1 DEF IInv, Waiting, dead, In, TypeOK
  <2> QED
    BY <2>1, <2>8, <2>9, <2>10, <2>11, <2>12 DEF IInv
<1>3. CASE Accept
  <2>1. /\ parent = "accept" /\ backlog # <<>> /\ parent' = "fork"
        /\ numchildren' = numchildren + 1
        /\ conn' = [conn EXCEPT ![Head(backlog)] = "accepted"]
        /\ backlog' = Tail(backlog) /\ UNCHANGED <<pending, look>>
    BY <1>3 DEF Accept
  <2>2. /\ Head(backlog) \in Clients /\ conn[Head(backlog)] = "backlog"
        /\ backlog' \in Seq(Clients) /\ Waiting'
    BY <2>1, HeadOfBacklog DEF IInv
  <2>3. numchildren + 1 \in 0 .. Limit
    BY <2>1 DEF IInv, TypeOK
  <2>4. TypeOK'
    BY <2>1, <2>2, <2>3 DEF IInv, TypeOK, Places, Stages
  <2>5. Working' = Working
    BY <2>1, <2>2, WorkBy DEF IInv, Stages
  <2>6. numchildren = Cardinality(Working)
    BY <2>1, CountAtRest DEF IInv
  <2>7. CountIsTrue'
    BY <2>1, <2>5, <2>6 DEF CountIsTrue, Working
  <2> QED
    BY <2>1, <2>2, <2>4, <2>7 DEF IInv
<1>4. CASE AcceptFails
  <2>1. /\ parent = "accept" /\ backlog # <<>> /\ parent' = "test"
        /\ conn' = [conn EXCEPT ![Head(backlog)] = "closed"]
        /\ backlog' = Tail(backlog) /\ UNCHANGED <<numchildren, pending, look>>
    BY <1>4 DEF AcceptFails
  <2>2. /\ Head(backlog) \in Clients /\ conn[Head(backlog)] = "backlog"
        /\ backlog' \in Seq(Clients) /\ Waiting'
    BY <2>1, HeadOfBacklog DEF IInv
  <2>3. TypeOK'
    BY <2>1, <2>2 DEF IInv, TypeOK, Places, Stages
  <2>4. Working' = Working
    BY <2>1, <2>2, WorkBy DEF IInv, Stages
  <2>5. CountIsTrue'
    BY <2>1, <2>4, SameWork DEF IInv
  <2> QED
    BY <2>1, <2>2, <2>3, <2>5 DEF IInv
<1>5. ASSUME NEW c \in Clients, Fork(c)
      PROVE  IInv'
  <2>1. /\ parent = "fork" /\ conn[c] = "accepted" /\ parent' = "test"
        /\ conn' = [conn EXCEPT ![c] = "asks"]
        /\ UNCHANGED <<numchildren, pending, backlog, look>>
    BY <1>5 DEF Fork
  <2>2. TypeOK' /\ Waiting'
    BY <2>1, WaitingBy DEF IInv, TypeOK, Places, Stages
  <2>3. c \notin Working /\ Working' = Working \cup {c}
    BY <2>1 DEF IInv, TypeOK, Working, In
  <2>4. Cardinality(Working') = Cardinality(Working) + 1
    BY <2>3, InIsFinite, FS_AddElement DEF Working
  <2>5. numchildren = Cardinality(Working) + 1
    BY <2>1 DEF IInv, CountIsTrue, Working
  <2>6. CountIsTrue'
    BY <2>1, <2>4, <2>5, InIsFinite DEF CountIsTrue, Working, IInv, TypeOK
  <2> QED
    BY <2>1, <2>2, <2>6 DEF IInv
<1>6. ASSUME NEW c \in Clients, ForkFails(c)
      PROVE  IInv'
  <2>1. /\ parent = "fork" /\ conn[c] = "accepted" /\ parent' = "test"
        /\ numchildren' = numchildren - 1
        /\ conn' = [conn EXCEPT ![c] = "closed"]
        /\ UNCHANGED <<pending, backlog, look>>
    BY <1>6 DEF ForkFails
  <2>2. Working' = Working
    BY <2>1, WorkBy DEF IInv, Stages
  <2>3. numchildren = Cardinality(Working) + 1 /\ Cardinality(Working) \in Nat
    BY <2>1, InIsFinite DEF IInv, CountIsTrue, Working
  <2>4. TypeOK' /\ Waiting'
    <3>1. numchildren' \in 0 .. Limit
      BY <2>1, <2>3 DEF IInv, TypeOK
    <3>2. Waiting'
      BY <2>1, WaitingBy DEF IInv
    <3> QED
      BY <2>1, <3>1, <3>2 DEF IInv, TypeOK, Places, Stages
  <2>5. CountIsTrue'
    BY <2>1, <2>2, <2>3 DEF CountIsTrue, Working
  <2> QED
    BY <2>1, <2>4, <2>5 DEF IInv
<1> QED
  BY <1>1, <1>2, <1>3, <1>4, <1>5, <1>6 DEF ParentStep

\* Steps of one child or client; the parent is not touched.
LEMMA ChildKeeps ==
  ASSUME IInv, NEW c \in Clients, NEW stage \in Stages,
         conn[c] # "backlog", conn' = [conn EXCEPT ![c] = stage],
         (conn[c] \in {"asks", "reads", "zombie"})
            <=> (stage \in {"asks", "reads", "zombie"}),
         pending' \in BOOLEAN, DOMAIN look' = Resolved,
         UNCHANGED <<parent, numchildren, backlog>>
  PROVE  IInv'
<1>1. TypeOK' /\ Waiting'
  BY WaitingBy DEF IInv, TypeOK
<1>2. CountIsTrue'
  BY WorkBy, SameWork DEF IInv
<1> QED
  BY <1>1, <1>2 DEF IInv

LEMMA NextKeeps ==
  ASSUME IsFiniteSet(Clients), IInv, [Next]_vars
  PROVE  IInv'
<1> USE TcpServerAssumption
<1>1. CASE ParentStep
  BY <1>1, ParentKeeps
<1>2. CASE Stop
  <2>1. /\ parent' = "down" /\ numchildren' = 0 /\ pending' = FALSE
        /\ backlog' = <<>> /\ DOMAIN look' = Resolved
        /\ conn' \in [Clients -> Stages] /\ Working' = {}
    BY <1>2 DEF Stop, IInv, TypeOK, Stages, Working, In
  <2>2. Cardinality(Working') = 0
    BY <2>1, FS_EmptySet
  <2>3. TypeOK'
    <3>1. numchildren' \in 0 .. Limit
      BY <2>1, TcpServerAssumption
    <3>2. backlog' \in Seq(Clients)
      BY <2>1
    <3> QED
      BY <2>1, <3>1, <3>2 DEF TypeOK, Places
  <2>4. Waiting'
    BY <2>1 DEF Waiting
  <2> QED
    BY <2>1, <2>2, <2>3, <2>4 DEF IInv, CountIsTrue, Working
<1>3. CASE Restart
  <2>1. Working' = Working
    BY <1>3 DEF Restart, Working, In
  <2>2. CountIsTrue'
    BY <1>3, <2>1, SameWork DEF Restart, IInv
  <2> QED
    BY <1>3, <2>2 DEF Restart, IInv, TypeOK, Places, Waiting
<1>4. ASSUME NEW c \in Clients, Connect(c)
      PROVE  IInv'
  <2>1. /\ conn[c] = "out" /\ conn' = [conn EXCEPT ![c] = "backlog"]
        /\ backlog' = Append(backlog, c)
        /\ UNCHANGED <<parent, numchildren, pending, look>>
    BY <1>4 DEF Connect
  <2>2. TypeOK'
    BY <2>1 DEF IInv, TypeOK, Stages
  <2>3. Waiting'
    BY <2>1 DEF IInv, TypeOK, Waiting
  <2>4. CountIsTrue'
    BY <2>1, WorkBy, SameWork DEF IInv, Stages
  <2> QED
    BY <2>1, <2>2, <2>3, <2>4 DEF IInv
<1>5. ASSUME NEW c \in Clients, Exit(c)
      PROVE  IInv'
  <2>1. CASE conn[c] \in {"asks", "reads"} /\ conn' = [conn EXCEPT ![c] = "zombie"]
    BY <1>5, <2>1, ChildKeeps DEF Exit, IInv, TypeOK, Stages
  <2>2. CASE conn[c] = "orphan" /\ conn' = [conn EXCEPT ![c] = "closed"]
    BY <1>5, <2>2, ChildKeeps DEF Exit, IInv, TypeOK, Stages
  <2> QED
    BY <1>5, <2>1, <2>2 DEF Exit
<1>6. ASSUME NEW c \in Clients, ChildStep(c) \/ (c \in Resolved /\ Arrive(c))
      PROVE  IInv'
  <2>1. ASSUME NEW l, conn[c] = "asks", Child(c, l, "asks")
        PROVE  IInv'
    BY <2>1, ChildKeeps DEF Child, IInv, TypeOK, Stages
  <2>2. CASE Exec(c)
    BY <2>2, ChildKeeps DEF Exec, IInv, TypeOK, Stages
  <2> QED
    BY <1>6, <2>1, <2>2 DEF ChildStep, Asks, Ask, NoResolvConf, Proceed, Arrive,
                            Read, GiveUp
<1>7. CASE UNCHANGED vars
  <2>1. Working' = Working
    BY <1>7 DEF vars, Working, In
  <2>2. CountIsTrue'
    BY <1>7, <2>1, SameWork DEF vars, IInv
  <2> QED
    BY <1>7, <2>2 DEF vars, IInv, TypeOK, Waiting
<1> QED
  BY <1>1, <1>2, <1>3, <1>4, <1>5, <1>6, <1>7 DEF Next

\* Every state has its types and the invariant above, for any finite set of
\* clients (tcpserver.c:398-424).
THEOREM Invariance == ASSUME IsFiniteSet(Clients) PROVE Spec => []IInv
<1>1. Init => IInv
  BY InitIInv
<1>2. IInv /\ [Next]_vars => IInv'
  BY NextKeeps
<1> QED
  BY <1>1, <1>2, PTL DEF Spec

\* No more than Limit children are counted, and every variable of the parent
\* has its type (tcpserver.c:398, 405-406).
THEOREM TypeCorrect == ASSUME IsFiniteSet(Clients) PROVE Spec => []TypeOK
<1>1. IInv => TypeOK
  BY DEF IInv
<1> QED
  BY Invariance, <1>1, PTL

\* numchildren is the number of the children that the parent has not waited
\* for, through forks that fail and signals that coalesce (tcpserver.c:272-290).
THEOREM CountsTruly == ASSUME IsFiniteSet(Clients) PROVE Spec => []CountIsTrue
<1>1. IInv => CountIsTrue
  BY DEF IInv
<1> QED
  BY Invariance, <1>1, PTL

-----------------------------------------------------------------------------
(* What a child asks                                                       *)

\* How often server s has been asked by UDP after try number n.
TriesOf(s, n) == Cardinality({t \in 0 .. n : ServerOf(t) = s})

Last == 3 * NameServers - 1

\* A lookup that has been through the tries up to n, and one that has asked
\* the servers up to n by TCP.
ByUdp(l, n) == \A s \in Servers : l.udp[s] = TriesOf(s, n) /\ l.tcp[s] = 0
ByTcp(l, n) == \A s \in Servers : l.tcp[s] = IF s <= n THEN 1 ELSE 0

Asking(l) ==
  /\ l \in Lookup
  /\ AllAsked(l)
  /\ l.busy => l.result = "none"
  /\ l.busy /\ l.asks # "user" =>
        /\ l.state = 0 => ByUdp(l, l.try)
        /\ l.state # 0 => l.try \in Servers /\ ByTcp(l, l.try)

\* A question to the name servers, before the next server is asked.
Question(l) == l \in Lookup /\ l.busy /\ l.result = "none" /\ l.asks # "user"

LEMMA TriesOfServer ==
  ASSUME NEW s \in Servers
  PROVE  /\ {t \in 0 .. Last : ServerOf(t) = s} = {s, s + NameServers, s + 2 * NameServers}
         /\ TriesOf(s, Last) = 3
<1> DEFINE N == NameServers
<1>1. N \in Nat \ {0} /\ s \in 0 .. N - 1
  BY ResolverAssumption DEF Servers
<1>2. /\ s % N = s /\ (s + N) % N = s /\ (s + 2 * N) % N = s
      /\ {s, s + N, s + 2 * N} \subseteq 0 .. Last
  BY <1>1 DEF Last
<1>3. ASSUME NEW t \in 0 .. Last, t % N = s
      PROVE  t \in {s, s + N, s + 2 * N}
  BY <1>1, <1>3 DEF Last
<1>4. {t \in 0 .. Last : ServerOf(t) = s} = {s, s + N, s + 2 * N}
  BY <1>2, <1>3 DEF ServerOf
<1>5. Cardinality({s, s + N, s + 2 * N}) = 3
  <2>1. s \in Nat /\ s + N \in Nat /\ s + 2 * N \in Nat
    BY <1>1
  <2>2. s # s + N /\ s # s + 2 * N /\ s + N # s + 2 * N
    BY <1>1
  <2>3. IsFiniteSet({s}) /\ Cardinality({s}) = 1
    BY FS_Singleton
  <2>4. IsFiniteSet({s} \cup {s + N}) /\ Cardinality({s} \cup {s + N}) = 2
    BY <2>2, <2>3, FS_AddElement
  <2>5. Cardinality(({s} \cup {s + N}) \cup {s + 2 * N}) = 3
    BY <2>2, <2>4, FS_AddElement
  <2>6. {s, s + N, s + 2 * N} = ({s} \cup {s + N}) \cup {s + 2 * N}
    OBVIOUS
  <2> QED
    BY <2>5, <2>6
<1> QED
  BY <1>4, <1>5 DEF TriesOf

\* The tries from..to after those before.
LEMMA TriesAdd ==
  ASSUME NEW s \in Servers, NEW from \in 0 .. Last, NEW to \in from .. Last
  PROVE  /\ Cardinality({t \in from .. to : ServerOf(t) = s}) \in 0 .. 3
         /\ TriesOf(s, from - 1) \in 0 .. 3 /\ TriesOf(s, to) \in 0 .. 3
         /\ TriesOf(s, to) = TriesOf(s, from - 1)
                               + Cardinality({t \in from .. to : ServerOf(t) = s})
<1> DEFINE A == {t \in 0 .. from - 1 : ServerOf(t) = s}
           B == {t \in from .. to : ServerOf(t) = s}
           C == {t \in 0 .. to : ServerOf(t) = s}
           D == {t \in 0 .. Last : ServerOf(t) = s}
<1>1. Last \in Nat /\ from \in Nat /\ to \in Nat /\ from <= to /\ to <= Last
  BY ResolverAssumption DEF Last
<1>2. A \subseteq D /\ B \subseteq D /\ C \subseteq D /\ A \cup B = C /\ A \cap B = {}
  BY <1>1
<1>3. IsFiniteSet(D)
  <2>1. IsFiniteSet(0 .. Last)
    BY <1>1, FS_Interval
  <2> QED
    BY <2>1, FS_Subset
<1>4. Cardinality(D) = 3
  BY TriesOfServer DEF TriesOf
<1> HIDE DEF A, B, C, D
<1>5. ASSUME NEW S \in {A, B, C}
      PROVE  IsFiniteSet(S) /\ Cardinality(S) \in 0 .. 3
  <2>1. IsFiniteSet(S) /\ Cardinality(S) <= Cardinality(D)
    BY <1>2, <1>3, FS_Subset
  <2>2. Cardinality(S) \in Nat
    BY <2>1, FS_CardinalityType
  <2> QED
    BY <1>4, <2>1, <2>2
<1>6. Cardinality(A \cup B) = Cardinality(A) + Cardinality(B)
  <2>1. Cardinality(A \cap B) = 0
    BY <1>2, FS_EmptySet
  <2> QED
    BY <1>5, <2>1, FS_Union
<1> QED
  BY <1>2, <1>5, <1>6 DEF TriesOf, A, B, C

-----------------------------------------------------------------------------
\* The fields of a lookup, and what makes one.
Fields == {"asks", "busy", "state", "try", "event", "result", "noSocket", "udp", "tcp"}
Shape(k) == k = [x \in Fields |-> k[x]]

LEMMA FieldsOf ==
  ASSUME NEW l \in Lookup
  PROVE  /\ Shape(l)
         /\ l.asks \in Questions /\ l.state \in 0 .. 5 /\ l.try \in Tries
         /\ l.event \in Events \cup {"none"}
         /\ l.result \in {"none", "found", "failed"}
         /\ l.udp \in [Servers -> 0 .. 3] /\ l.tcp \in [Servers -> 0 .. 1]
  BY DEF Lookup, Shape, Fields

LEMMA FlagsOf ==
  ASSUME NEW l \in Lookup
  PROVE  l.busy \in BOOLEAN /\ l.noSocket \in BOOLEAN
  BY Zenon DEF Lookup

LEMMA LookupOf ==
  ASSUME NEW k, Shape(k), k.asks \in Questions, k.busy \in BOOLEAN, k.state \in 0 .. 5,
         k.try \in Tries, k.event \in Events \cup {"none"},
         k.result \in {"none", "found", "failed"}, k.noSocket \in BOOLEAN,
         k.udp \in [Servers -> 0 .. 3], k.tcp \in [Servers -> 0 .. 1]
  PROVE  k \in Lookup
  BY Zenon DEF Lookup, Shape, Fields

LEMMA ZeroTypes == 0 \in Tries /\ 0 \in 0 .. 5 /\ 0 \in Servers /\ Last \in Tries /\ Last \in Nat
  BY ResolverAssumption DEF Tries, Servers, Last

\* A lookup that has ended.
LEMMA EndsType ==
  ASSUME NEW l \in Lookup, NEW result \in {"found", "failed"}
  PROVE  /\ Ends(l, result) \in Lookup
         /\ ~Ends(l, result).busy
         /\ Ends(l, result).asks = l.asks
         /\ Ends(l, result).result = result
         /\ Ends(l, result).udp = l.udp /\ Ends(l, result).tcp = l.tcp
<1> DEFINE k == Ends(l, result)
<1>1. Shape(k)
  BY DEF Ends, Lookup, Shape, Fields
<1>2. /\ k.asks = l.asks /\ k.state = 0 /\ k.try = 0 /\ k.event = l.event
      /\ k.result = result /\ k.udp = l.udp /\ k.tcp = l.tcp
  BY DEF Ends, Lookup
<1>3. k.busy = FALSE /\ k.noSocket = l.noSocket
  BY Zenon DEF Ends, Lookup
<1>4. k.busy \in BOOLEAN /\ k.noSocket \in BOOLEAN
  BY <1>3, FlagsOf, Zenon
<1> HIDE DEF k
<1>5. k \in Lookup
  BY <1>1, <1>2, <1>4, FieldsOf, ZeroTypes, LookupOf
<1>6. ~k.busy
  BY <1>3, Zenon
<1> QED
  BY <1>2, <1>5, <1>6 DEF k

LEMMA EndsAsking ==
  ASSUME NEW l \in Lookup, NEW result \in {"found", "failed"},
         \/ result = "found"
         \/ l.asks = "user"
         \/ \A s \in Servers : l.udp[s] = 3
         \/ \A s \in Servers : l.tcp[s] = 1
  PROVE  Asking(Ends(l, result))
  BY EndsType DEF Asking, AllAsked

LEMMA NoSocketAsking ==
  ASSUME NEW l \in Lookup
  PROVE  Asking(NoSocket(l))
<1> DEFINE m == Ends(l, "failed")
           k == [m EXCEPT !.noSocket = TRUE]
<1>1. m \in Lookup /\ ~m.busy
  BY EndsType
<1> HIDE DEF m
<1>2. Shape(k)
  BY <1>1 DEF Lookup, Shape, Fields
<1>3. /\ k.asks = m.asks /\ k.state = m.state /\ k.try = m.try /\ k.event = m.event
      /\ k.result = m.result /\ k.udp = m.udp /\ k.tcp = m.tcp
  BY <1>1 DEF Lookup
<1>4. k.busy = m.busy /\ k.noSocket = TRUE
  BY <1>1, Zenon DEF Lookup
<1>5. k.busy \in BOOLEAN /\ k.noSocket \in BOOLEAN /\ ~k.busy /\ k.noSocket
  BY <1>1, <1>4, FlagsOf, Zenon
<1>6. NoSocket(l) = k
  BY DEF NoSocket, m
<1> HIDE DEF k
<1>7. k \in Lookup
  BY <1>1, <1>2, <1>3, <1>5, FieldsOf, LookupOf
<1>8. Asking(k)
  BY <1>5, <1>7 DEF Asking, AllAsked
<1> QED
  BY <1>6, <1>8

-----------------------------------------------------------------------------
(* The servers in turn                                                     *)

LEMMA UdpSentType ==
  ASSUME NEW l, Question(l), NEW from \in 0 .. Last, NEW to \in from .. Last,
         ByUdp(l, from - 1)
  PROVE  /\ Question(UdpSent(l, from, to)) /\ UdpSent(l, from, to).state = 0
         /\ UdpSent(l, from, to).try = to
         /\ ByUdp(UdpSent(l, from, to), to)
<1> DEFINE u == [s \in Servers |->
                   l.udp[s] + Cardinality({t \in from .. to : ServerOf(t) = s})]
           k == UdpSent(l, from, to)
<1>1. l \in Lookup /\ l.result = "none" /\ l.asks # "user"
  BY DEF Question
<1>2. ASSUME NEW s \in Servers
      PROVE  u[s] = TriesOf(s, to) /\ u[s] \in 0 .. 3
  BY TriesAdd DEF ByUdp
<1>3. u \in [Servers -> 0 .. 3]
  BY <1>2
<1>4. k = [l EXCEPT !.state = 0, !.try = to, !.udp = u]
  BY <1>1 DEF UdpSent, Lookup
<1> HIDE DEF u, k
<1>5. Shape(k)
  BY <1>1, <1>4 DEF Lookup, Shape, Fields
<1>6. /\ k.asks = l.asks /\ k.state = 0 /\ k.try = to /\ k.event = l.event
      /\ k.result = l.result /\ k.udp = u /\ k.tcp = l.tcp
  BY <1>1, <1>4 DEF Lookup
<1>7. k.busy = l.busy /\ k.noSocket = l.noSocket
  BY <1>1, <1>4, Zenon DEF Lookup
<1>8. k.busy \in BOOLEAN /\ k.noSocket \in BOOLEAN /\ k.busy
  BY <1>1, <1>7, FlagsOf, Zenon DEF Question
<1>9. to \in Tries
  BY ZeroTypes DEF Tries, Last
<1>10. k \in Lookup
  BY <1>1, <1>3, <1>5, <1>6, <1>8, <1>9, FieldsOf, ZeroTypes, LookupOf
<1>11. Question(k) /\ ByUdp(k, to)
  BY <1>1, <1>2, <1>6, <1>8, <1>10 DEF Question, ByUdp
<1> QED
  BY <1>6, <1>11 DEF k

LEMMA TcpSentType ==
  ASSUME NEW l, Question(l), NEW from \in Servers, NEW to \in from .. NameServers - 1,
         ByTcp(l, from - 1), NEW state \in {1, 2}
  PROVE  /\ Question(TcpSent(l, from, to, state))
         /\ TcpSent(l, from, to, state).state = state
         /\ TcpSent(l, from, to, state).try = to
         /\ ByTcp(TcpSent(l, from, to, state), to)
<1> DEFINE c == [s \in Servers |-> l.tcp[s] + IF s \in from .. to THEN 1 ELSE 0]
           k == TcpSent(l, from, to, state)
<1>1. l \in Lookup /\ l.result = "none" /\ l.asks # "user"
  BY DEF Question
<1>2. ASSUME NEW s \in Servers
      PROVE  c[s] = (IF s <= to THEN 1 ELSE 0) /\ c[s] \in 0 .. 1
  <2>1. l.tcp[s] = IF s <= from - 1 THEN 1 ELSE 0
    BY DEF ByTcp
  <2>2. s \in Nat /\ from \in Nat /\ to \in Nat /\ from <= to
    BY ResolverAssumption DEF Servers
  <2> QED
    BY <2>1, <2>2
<1>3. c \in [Servers -> 0 .. 1]
  BY <1>2
<1>4. k = [l EXCEPT !.state = state, !.try = to, !.tcp = c]
  BY <1>1 DEF TcpSent, Lookup
<1> HIDE DEF c, k
<1>5. Shape(k)
  BY <1>1, <1>4 DEF Lookup, Shape, Fields
<1>6. /\ k.asks = l.asks /\ k.state = state /\ k.try = to /\ k.event = l.event
      /\ k.result = l.result /\ k.udp = l.udp /\ k.tcp = c
  BY <1>1, <1>4 DEF Lookup
<1>7. k.busy = l.busy /\ k.noSocket = l.noSocket
  BY <1>1, <1>4, Zenon DEF Lookup
<1>8. k.busy \in BOOLEAN /\ k.noSocket \in BOOLEAN /\ k.busy
  BY <1>1, <1>7, FlagsOf, Zenon DEF Question
<1>9. to \in Tries /\ state \in 0 .. 5
  BY ResolverAssumption DEF Tries, Servers
<1>10. k \in Lookup
  BY <1>1, <1>3, <1>5, <1>6, <1>8, <1>9, FieldsOf, LookupOf
<1>11. Question(k) /\ ByTcp(k, to)
  BY <1>1, <1>2, <1>6, <1>8, <1>10 DEF Question, ByTcp
<1> QED
  BY <1>6, <1>11 DEF k

\* A question that has been sent on is as it should be.
LEMMA QuestionAsking ==
  ASSUME NEW k, Question(k),
         \/ k.state = 0 /\ ByUdp(k, k.try)
         \/ k.state # 0 /\ k.try \in Servers /\ ByTcp(k, k.try)
  PROVE  Asking(k)
  BY DEF Question, Asking, AllAsked

LEMMA UdpSentAsking ==
  ASSUME NEW l, Question(l), NEW from \in 0 .. Last, NEW to \in from .. Last,
         ByUdp(l, from - 1)
  PROVE  Asking(UdpSent(l, from, to))
<1> DEFINE k == UdpSent(l, from, to)
<1>1. Question(k) /\ k.state = 0 /\ k.try = to /\ ByUdp(k, to)
  BY UdpSentType
<1> HIDE DEF k
<1>2. Asking(k)
  BY <1>1, QuestionAsking
<1> QED
  BY <1>2 DEF k

LEMMA TcpSentAsking ==
  ASSUME NEW l, Question(l), NEW from \in Servers, NEW to \in from .. NameServers - 1,
         ByTcp(l, from - 1), NEW state \in {1, 2}
  PROVE  Asking(TcpSent(l, from, to, state))
<1> DEFINE k == TcpSent(l, from, to, state)
<1>1. Question(k) /\ k.state = state /\ k.try = to /\ ByTcp(k, to)
  BY TcpSentType
<1>2. to \in Servers /\ state # 0
  BY ResolverAssumption DEF Servers
<1> HIDE DEF k
<1>3. Asking(k)
  BY <1>1, <1>2, QuestionAsking
<1> QED
  BY <1>3 DEF k

\* Nobody is left when the last try has been made, in the one way or the other.
LEMMA UdpGivenUp ==
  ASSUME NEW l, Question(l), ByUdp(l, Last)
  PROVE  Asking(Ends(l, "failed"))
<1>1. \A s \in Servers : l.udp[s] = 3
  BY TriesOfServer DEF ByUdp
<1> QED
  BY <1>1, EndsAsking DEF Question

LEMMA TcpGivenUp ==
  ASSUME NEW l, Question(l), ByTcp(l, NameServers - 1)
  PROVE  Asking(Ends(l, "failed"))
<1>1. \A s \in Servers : s <= NameServers - 1
  BY ResolverAssumption DEF Servers
<1>2. \A s \in Servers : l.tcp[s] = 1
  BY <1>1 DEF ByTcp
<1> QED
  BY <1>2, EndsAsking DEF Question

LEMMA ThisUdpAsks ==
  ASSUME NEW l, Question(l), NEW t \in 0 .. Last + 1, ByUdp(l, t - 1),
         NEW k \in ThisUdp(l, t)
  PROVE  Asking(k)
<1>1. Last \in Nat
  BY ZeroTypes
<1>2. CASE t > Last
  <2>1. t - 1 = Last /\ k = Ends(l, "failed")
    BY <1>1, <1>2 DEF ThisUdp, Last
  <2> QED
    BY <2>1, UdpGivenUp
<1>3. CASE ~(t > Last)
  <2>1. t \in 0 .. Last
    BY <1>1, <1>3
  <2>2. \/ k = NoSocket(l)
        \/ \E u \in t .. Last : k = UdpSent(l, t, u)
        \/ k = Ends(UdpSent(l, t, Last), "failed")
    BY <1>1, <1>3 DEF ThisUdp, Last
  <2>3. CASE k = NoSocket(l)
    BY <2>3, NoSocketAsking DEF Question
  <2>4. CASE \E u \in t .. Last : k = UdpSent(l, t, u)
    BY <2>1, <2>4, UdpSentAsking
  <2>5. CASE k = Ends(UdpSent(l, t, Last), "failed")
    <3>1. Last \in t .. Last
      BY <1>1, <2>1
    <3>2. Question(UdpSent(l, t, Last)) /\ ByUdp(UdpSent(l, t, Last), Last)
      BY <2>1, <3>1, UdpSentType
    <3> QED
      BY <2>5, <3>2, UdpGivenUp
  <2> QED
    BY <2>2, <2>3, <2>4, <2>5
<1> QED
  BY <1>2, <1>3

LEMMA ThisTcpAsks ==
  ASSUME NEW l, Question(l), NEW s \in 0 .. NameServers, ByTcp(l, s - 1),
         NEW k \in ThisTcp(l, s)
  PROVE  Asking(k)
<1> DEFINE last == NameServers - 1
<1>1. last \in Nat
  BY ResolverAssumption
<1>2. CASE s > last
  <2>1. s - 1 = last /\ k = Ends(l, "failed")
    BY <1>1, <1>2, ResolverAssumption DEF ThisTcp
  <2> QED
    BY <2>1, TcpGivenUp
<1>3. CASE ~(s > last)
  <2>1. s \in Servers /\ s \in s .. last /\ last \in s .. last
    BY <1>1, <1>3, ResolverAssumption DEF Servers
  <2>2. \/ k = NoSocket(l)
        \/ \E u \in s .. last, state \in {1, 2} : k = TcpSent(l, s, u, state)
        \/ k = Ends(TcpSent(l, s, last, 1), "failed")
    BY <1>1, <1>3, <2>1 DEF ThisTcp
  <2>3. CASE k = NoSocket(l)
    BY <2>3, NoSocketAsking DEF Question
  <2>4. CASE \E u \in s .. last, state \in {1, 2} : k = TcpSent(l, s, u, state)
    BY <2>1, <2>4, TcpSentAsking
  <2>5. CASE k = Ends(TcpSent(l, s, last, 1), "failed")
    <3>1. Question(TcpSent(l, s, last, 1)) /\ ByTcp(TcpSent(l, s, last, 1), last)
      BY <2>1, TcpSentType
    <3> QED
      BY <2>5, <3>1, TcpGivenUp
  <2> QED
    BY <2>2, <2>3, <2>4, <2>5
<1> QED
  BY <1>2, <1>3

\* From one try to the next, and from UDP to TCP.
LEMMA GoesOn ==
  ASSUME NEW l, Question(l), Asking(l)
  PROVE  /\ l.state = 0 => \A k \in NextUdp(l) \cup FirstTcp(l) : Asking(k)
         /\ l.state # 0 => \A k \in NextTcp(l) : Asking(k)
<1>1. l \in Lookup /\ l.try \in Tries
  BY FieldsOf DEF Question
<1>2. ASSUME l.state = 0, NEW k \in NextUdp(l)
      PROVE  Asking(k)
  <2>1. ByUdp(l, l.try)
    BY <1>2 DEF Asking, Question
  <2>2. l.try + 1 \in 0 .. Last + 1 /\ (l.try + 1) - 1 = l.try
    BY <1>1, ResolverAssumption DEF Tries, Last
  <2> QED
    BY <1>2, <2>1, <2>2, ThisUdpAsks DEF NextUdp
<1>3. ASSUME l.state = 0, NEW k \in FirstTcp(l)
      PROVE  Asking(k)
  <2>1. \A s \in Servers : l.tcp[s] = 0
    BY <1>3 DEF Asking, Question, ByUdp
  <2>2. ByTcp(l, 0 - 1)
    BY <2>1, ResolverAssumption DEF ByTcp, Servers
  <2>3. 0 \in 0 .. NameServers
    BY ResolverAssumption
  <2> QED
    BY <1>3, <2>2, <2>3, ThisTcpAsks DEF FirstTcp
<1>4. ASSUME l.state # 0, NEW k \in NextTcp(l)
      PROVE  Asking(k)
  <2>1. l.try \in Servers /\ ByTcp(l, l.try)
    BY <1>4 DEF Asking, Question
  <2>2. l.try + 1 \in 0 .. NameServers /\ (l.try + 1) - 1 = l.try
    BY <2>1, ResolverAssumption DEF Servers
  <2> QED
    BY <1>4, <2>1, <2>2, ThisTcpAsks DEF NextTcp
<1> QED
  BY <1>2, <1>3, <1>4

-----------------------------------------------------------------------------
(* One question, from its beginning to its end                             *)

\* What comes on the socket says nothing of who has been asked.
LEMMA EventAsking ==
  ASSUME NEW l, Asking(l), NEW e \in Events \cup {"none"}
  PROVE  Asking([l EXCEPT !.event = e])
<1> DEFINE k == [l EXCEPT !.event = e]
<1>1. l \in Lookup
  BY DEF Asking
<1>2. Shape(k)
  BY <1>1 DEF Lookup, Shape, Fields
<1>3. /\ k.asks = l.asks /\ k.state = l.state /\ k.try = l.try /\ k.event = e
      /\ k.result = l.result /\ k.udp = l.udp /\ k.tcp = l.tcp
  BY <1>1 DEF Lookup
<1>4. k.busy = l.busy /\ k.noSocket = l.noSocket
  BY <1>1, Zenon DEF Lookup
<1>5. k.busy \in BOOLEAN /\ k.noSocket \in BOOLEAN
  BY <1>1, <1>4, FlagsOf, Zenon
<1> HIDE DEF k
<1>6. k \in Lookup
  BY <1>1, <1>2, <1>3, <1>5, FieldsOf, LookupOf
<1>7. k.busy <=> l.busy
  BY <1>4, Zenon
<1>8. k.noSocket <=> l.noSocket
  BY <1>4, Zenon
<1>9. Asking(k)
  BY <1>3, <1>6, <1>7, <1>8 DEF Asking, AllAsked, ByUdp, ByTcp
<1> QED
  BY <1>9 DEF k

\* Over TCP, and with the user's host, one state follows another.
LEMMA StateAsking ==
  ASSUME NEW l, Asking(l), NEW state \in 1 .. 5, l.state # 0 \/ l.asks = "user"
  PROVE  Asking([l EXCEPT !.state = state])
<1> DEFINE k == [l EXCEPT !.state = state]
<1>1. l \in Lookup
  BY DEF Asking
<1>2. Shape(k)
  BY <1>1 DEF Lookup, Shape, Fields
<1>3. /\ k.asks = l.asks /\ k.state = state /\ k.try = l.try /\ k.event = l.event
      /\ k.result = l.result /\ k.udp = l.udp /\ k.tcp = l.tcp
  BY <1>1 DEF Lookup
<1>4. k.busy = l.busy /\ k.noSocket = l.noSocket
  BY <1>1, Zenon DEF Lookup
<1>5. k.busy \in BOOLEAN /\ k.noSocket \in BOOLEAN
  BY <1>1, <1>4, FlagsOf, Zenon
<1> HIDE DEF k
<1>6. k \in Lookup
  BY <1>1, <1>2, <1>3, <1>5, FieldsOf, LookupOf
<1>7. k.busy <=> l.busy
  BY <1>4, Zenon
<1>8. k.noSocket <=> l.noSocket
  BY <1>4, Zenon
<1>9. Asking(k)
  BY <1>3, <1>6, <1>7, <1>8 DEF Asking, AllAsked, ByUdp, ByTcp
<1> QED
  BY <1>9 DEF k

\* Nothing is asked and nothing has come out.
LEMMA IdleAsking ==
  ASSUME NEW l \in Lookup, ~l.busy, l.result = "none"
  PROVE  Asking(l)
  BY DEF Asking, AllAsked

\* The next question: what has come out of the last is forgotten.
LEMMA ProceedAsks ==
  ASSUME NEW l, Asking(l), l.result # "none"
  PROVE  Asking([NextQuestion(l) EXCEPT !.result = "none"])
<1> DEFINE k == [NextQuestion(l) EXCEPT !.result = "none"]
           asks == IF l.asks = "local" THEN "remote" ELSE "user"
<1>1. l \in Lookup /\ ~l.busy
  BY DEF Asking
<1>2. k = [l EXCEPT !.asks = asks, !.result = "none"]
  BY <1>1 DEF NextQuestion, Lookup
<1>3. asks \in Questions
  BY DEF Questions
<1> HIDE DEF k, asks
<1>4. Shape(k)
  BY <1>1, <1>2 DEF Lookup, Shape, Fields
<1>5. /\ k.asks = asks /\ k.state = l.state /\ k.try = l.try /\ k.event = l.event
      /\ k.result = "none" /\ k.udp = l.udp /\ k.tcp = l.tcp
  BY <1>1, <1>2 DEF Lookup
<1>6. k.busy = l.busy /\ k.noSocket = l.noSocket
  BY <1>1, <1>2, Zenon DEF Lookup
<1>7. k.busy \in BOOLEAN /\ k.noSocket \in BOOLEAN /\ ~k.busy
  BY <1>1, <1>6, FlagsOf, Zenon
<1>8. k \in Lookup
  BY <1>1, <1>3, <1>4, <1>5, <1>7, FieldsOf, LookupOf
<1>9. Asking(k)
  BY <1>5, <1>7, <1>8, IdleAsking
<1> QED
  BY <1>9 DEF k

\* The fresh lookup, as dns_transmit_start and remoteinfo set it out.
LEMMA FreshType ==
  /\ Fresh \in Lookup /\ ~Fresh.busy /\ Fresh.result = "none" /\ Fresh.state = 0
  /\ Fresh.try = 0 /\ Fresh.event = "none"
  /\ \A s \in Servers : Fresh.udp[s] = 0 /\ Fresh.tcp[s] = 0
<1>1. /\ Shape(Fresh) /\ Fresh.asks = "local" /\ Fresh.state = 0 /\ Fresh.try = 0
      /\ Fresh.event = "none" /\ Fresh.result = "none"
      /\ Fresh.udp = [s \in Servers |-> 0] /\ Fresh.tcp = [s \in Servers |-> 0]
  BY DEF Fresh, Shape, Fields
<1>2. Fresh.busy = FALSE /\ Fresh.noSocket = FALSE
  BY Zenon DEF Fresh
<1>3. Fresh.busy \in BOOLEAN /\ Fresh.noSocket \in BOOLEAN /\ ~Fresh.busy
  BY <1>2, Zenon
<1>4. Fresh.udp \in [Servers -> 0 .. 3] /\ Fresh.tcp \in [Servers -> 0 .. 1]
  BY <1>1
<1>5. Fresh.asks \in Questions
  BY <1>1 DEF Questions
<1>6. Fresh \in Lookup
  BY <1>1, <1>3, <1>4, <1>5, ZeroTypes, LookupOf
<1> QED
  BY <1>1, <1>3, <1>6

Anew(asks, state) == [Fresh EXCEPT !.asks = asks, !.busy = TRUE, !.state = state]

LEMMA AskedAnew ==
  ASSUME NEW asks \in Questions, NEW state \in 0 .. 5
  PROVE  /\ Anew(asks, state) \in Lookup /\ Anew(asks, state).busy
         /\ Anew(asks, state).result = "none" /\ Anew(asks, state).asks = asks
         /\ \A s \in Servers : /\ Anew(asks, state).udp[s] = 0
                                /\ Anew(asks, state).tcp[s] = 0
<1> DEFINE k == Anew(asks, state)
<1> USE DEF Anew
<1>1. Shape(k)
  BY FreshType DEF Lookup, Shape, Fields
<1>2. /\ k.asks = asks /\ k.state = state /\ k.try = Fresh.try /\ k.event = Fresh.event
      /\ k.result = Fresh.result /\ k.udp = Fresh.udp /\ k.tcp = Fresh.tcp
  BY FreshType DEF Lookup
<1>3. k.busy = TRUE /\ k.noSocket = Fresh.noSocket
  BY FreshType, Zenon DEF Lookup
<1>4. k.busy \in BOOLEAN /\ k.noSocket \in BOOLEAN /\ k.busy
  BY <1>3, FreshType, FlagsOf, Zenon
<1> HIDE DEF k
<1>5. k \in Lookup
  BY <1>1, <1>2, <1>4, FreshType, FieldsOf, LookupOf
<1>6. /\ k \in Lookup /\ k.busy /\ k.result = "none" /\ k.asks = asks
      /\ \A s \in Servers : k.udp[s] = 0 /\ k.tcp[s] = 0
  BY <1>2, <1>4, <1>5, FreshType
<1> HIDE DEF Anew
<1> QED
  BY <1>6 DEF k

LEMMA SameState ==
  ASSUME NEW l \in Lookup, l.state = 0, NEW a, NEW b
  PROVE  [l EXCEPT !.asks = a, !.busy = b]
           = [l EXCEPT !.asks = a, !.busy = b, !.state = 0]
  BY DEF Lookup

LEMMA BeginAsks ==
  ASSUME NEW l \in Lookup, NEW k \in Begin(l)
  PROVE  Asking(k)
<1>1. CASE l.asks = "user"
  <2> DEFINE idle == [Fresh EXCEPT !.asks = "user"]
  <2>1. k = NoSocket(idle) \/ k = Anew("user", 1) \/ k = Anew("user", 2)
    BY <1>1 DEF Begin, StartUser, Anew
  <2>2. "user" \in Questions
    BY DEF Questions
  <2>3. idle \in Lookup
    <3>1. Shape(idle)
      BY FreshType DEF Lookup, Shape, Fields
    <3>2. /\ idle.asks = "user" /\ idle.state = Fresh.state /\ idle.try = Fresh.try
          /\ idle.event = Fresh.event /\ idle.result = Fresh.result
          /\ idle.udp = Fresh.udp /\ idle.tcp = Fresh.tcp
      BY FreshType DEF Lookup
    <3>3. idle.busy = Fresh.busy /\ idle.noSocket = Fresh.noSocket
      BY FreshType, Zenon DEF Lookup
    <3>4. idle.busy \in BOOLEAN /\ idle.noSocket \in BOOLEAN
      BY <3>3, FreshType, FlagsOf, Zenon
    <3> HIDE DEF idle
    <3> QED
      BY <2>2, <3>1, <3>2, <3>4, FreshType, FieldsOf, LookupOf
  <2>4. ASSUME NEW state \in {1, 2}
        PROVE  Asking(Anew("user", state))
    <3>1. /\ Anew("user", state) \in Lookup
          /\ Anew("user", state).result = "none" /\ Anew("user", state).asks = "user"
      BY <2>2, AskedAnew
    <3> QED
      BY <3>1 DEF Asking, AllAsked
  <2> HIDE DEF idle
  <2> QED
    BY <2>1, <2>3, <2>4, NoSocketAsking
<1>2. CASE l.asks # "user"
  <2> DEFINE q == Anew(l.asks, 0)
  <2>1. q = [Fresh EXCEPT !.asks = l.asks, !.busy = TRUE]
    BY FreshType, SameState DEF Anew
  <2>2. l.asks \in Questions
    BY FieldsOf
  <2>3. k \in ThisUdp(q, 0)
    BY <1>2, <2>1 DEF Begin, Start
  <2>4. /\ q \in Lookup /\ q.busy /\ q.result = "none" /\ q.asks = l.asks
        /\ \A s \in Servers : q.udp[s] = 0 /\ q.tcp[s] = 0
    BY <2>2, ZeroTypes, AskedAnew
  <2> HIDE DEF q
  <2>5. ByUdp(q, 0 - 1)
    <3>1. ASSUME NEW s \in Servers
          PROVE  TriesOf(s, 0 - 1) = 0
      <4>1. {t \in 0 .. 0 - 1 : ServerOf(t) = s} = {}
        OBVIOUS
      <4> QED
        BY <4>1, FS_EmptySet DEF TriesOf
    <3> QED
      BY <2>4, <3>1 DEF ByUdp
  <2>6. Question(q) /\ 0 \in 0 .. Last + 1
    BY <1>2, <2>4, ZeroTypes DEF Question
  <2> QED
    BY <2>3, <2>5, <2>6, ThisUdpAsks
<1> QED
  BY <1>1, <1>2

LEMMA HandlesAsks ==
  ASSUME NEW l, Asking(l), l.busy, NEW k \in Handles(l)
  PROVE  Asking(k)
<1>1. l \in Lookup /\ l.result = "none" /\ l.state \in 0 .. 5
  BY FieldsOf DEF Asking
<1>2. CASE l.asks = "user"
  <2>1. \/ k = Ends(l, "failed") \/ k = Ends(l, "found") \/ k = l
        \/ k = [l EXCEPT !.state = 2]
    BY <1>2 DEF Handles, GetUser
  <2>2. Asking(Ends(l, "failed")) /\ Asking(Ends(l, "found"))
    BY <1>1, <1>2, EndsAsking
  <2>3. Asking([l EXCEPT !.state = 2])
    <3>1. 2 \in 1 .. 5
      OBVIOUS
    <3> QED
      BY <1>2, <3>1, StateAsking, Zenon
  <2> QED
    BY <2>1, <2>2, <2>3
<1>3. CASE l.asks # "user" /\ l.state = 0
  <2>1. k \in {Ends(l, "found")} \cup FirstTcp(l) \cup NextUdp(l) \cup {l}
    BY <1>3 DEF Handles, GetUdp
  <2>2. Question(l)
    BY <1>1, <1>3 DEF Question
  <2>3. Asking(Ends(l, "found"))
    BY <1>1, EndsAsking
  <2> QED
    BY <1>3, <2>1, <2>2, <2>3, GoesOn
<1>4. CASE l.asks # "user" /\ l.state # 0
  <2>1. Question(l)
    BY <1>1, <1>4 DEF Question
  <2>2. \/ l.state < 5 /\ k = [l EXCEPT !.state = l.state + 1]
        \/ k = Ends(l, "found")
        \/ k \in NextTcp(l)
    BY <1>1, <1>4 DEF Handles, GetTcp, Lookup
  <2>3. CASE l.state < 5 /\ k = [l EXCEPT !.state = l.state + 1]
    <3>1. l.state + 1 \in 1 .. 5
      BY <1>1, <2>3
    <3> QED
      BY <1>4, <2>3, <3>1, StateAsking
  <2>4. Asking(Ends(l, "found"))
    BY <1>1, EndsAsking
  <2> QED
    BY <1>4, <2>1, <2>2, <2>3, <2>4, GoesOn
<1> QED
  BY <1>2, <1>3, <1>4

LEMMA GetAsks ==
  ASSUME NEW l, Asking(l), l.busy, NEW k \in Get(l)
  PROVE  Asking(k)
<1>1. PICK h \in Handles(l) : k = [h EXCEPT !.event = "none"]
  BY DEF Get
<1>2. Asking(h)
  BY HandlesAsks
<1> QED
  BY <1>1, <1>2, EventAsking

LEMMA TimeoutAsks ==
  ASSUME NEW l, Asking(l), l.busy, NEW k \in Timeout(l)
  PROVE  Asking(k)
<1>1. l \in Lookup /\ l.result = "none"
  BY DEF Asking
<1>2. CASE l.asks = "user"
  <2>1. k = Ends(l, "failed")
    BY <1>2 DEF Timeout
  <2> QED
    BY <1>1, <1>2, <2>1, EndsAsking
<1>3. CASE l.asks # "user"
  <2>1. Question(l)
    BY <1>1, <1>3 DEF Question
  <2>2. IF l.state = 0 THEN k \in NextUdp(l) ELSE k \in NextTcp(l)
    BY <1>3 DEF Timeout
  <2> QED
    BY <2>1, <2>2, GoesOn
<1> QED
  BY <1>2, <1>3

-----------------------------------------------------------------------------
(* All children                                                            *)

LookupsAsking == DOMAIN look = Resolved /\ \A c \in Resolved : Asking(look[c])

LEMMA FreshAsking == Asking(Fresh)
  BY FreshType, IdleAsking

\* A child's step changes its own lookup only.
LEMMA ChildAsking ==
  ASSUME LookupsAsking, NEW c \in Resolved, NEW l, Asking(l), NEW s, Child(c, l, s)
  PROVE  LookupsAsking'
<1>1. look' = [look EXCEPT ![c] = l]
  BY DEF Child
<1> QED
  BY <1>1 DEF LookupsAsking

LEMMA LookupsKeep == ASSUME LookupsAsking, [Next]_vars PROVE LookupsAsking'
<1>1. ASSUME look' = look
      PROVE  LookupsAsking'
  BY <1>1 DEF LookupsAsking
<1>2. ASSUME NEW c \in Clients, Ask(c) PROVE LookupsAsking'
  <2>1. PICK l \in Begin(look[c]) : Child(c, l, "asks")
    BY <1>2 DEF Ask
  <2>2. c \in Resolved /\ look[c] \in Lookup
    BY <1>2 DEF Ask, Asks, LookupsAsking, Asking
  <2>3. Asking(l)
    BY <2>2, BeginAsks
  <2> QED
    BY <2>1, <2>2, <2>3, ChildAsking
<1>3. ASSUME NEW c \in Clients, NoResolvConf(c) PROVE LookupsAsking'
  <2>1. c \in Resolved /\ look[c] \in Lookup /\ Child(c, NoSocket(look[c]), "asks")
    BY <1>3 DEF NoResolvConf, Asks, LookupsAsking, Asking
  <2> QED
    BY <2>1, NoSocketAsking, ChildAsking
<1>4. ASSUME NEW c \in Clients, Proceed(c) PROVE LookupsAsking'
  <2>1. /\ c \in Resolved /\ Asking(look[c]) /\ look[c].result # "none"
        /\ Child(c, [NextQuestion(look[c]) EXCEPT !.result = "none"], "asks")
    BY <1>4 DEF Proceed, Asks, LookupsAsking
  <2>2. Asking([NextQuestion(look[c]) EXCEPT !.result = "none"])
    BY <2>1, ProceedAsks
  <2> QED
    BY <2>1, <2>2, ChildAsking
<1>5. ASSUME NEW c \in Clients, Read(c) PROVE LookupsAsking'
  <2>1. PICK l \in Get(look[c]) : Child(c, l, "asks")
    BY <1>5 DEF Read
  <2>2. c \in Resolved /\ Asking(look[c]) /\ look[c].busy
    BY <1>5 DEF Read, Asks, LookupsAsking
  <2>3. Asking(l)
    BY <2>2, GetAsks
  <2> QED
    BY <2>1, <2>2, <2>3, ChildAsking
<1>6. ASSUME NEW c \in Clients, GiveUp(c) PROVE LookupsAsking'
  <2>1. PICK l \in Timeout(look[c]) : Child(c, l, "asks")
    BY <1>6 DEF GiveUp
  <2>2. c \in Resolved /\ Asking(look[c]) /\ look[c].busy
    BY <1>6 DEF GiveUp, Asks, LookupsAsking
  <2>3. Asking(l)
    BY <2>2, TimeoutAsks
  <2> QED
    BY <2>1, <2>2, <2>3, ChildAsking
<1>7. ASSUME NEW c \in Clients, Exec(c) PROVE LookupsAsking'
  BY <1>7, FreshAsking DEF Exec, LookupsAsking
<1>8. ASSUME NEW c \in Clients, Exit(c) PROVE LookupsAsking'
  BY <1>8, FreshAsking DEF Exit, LookupsAsking
<1>9. ASSUME NEW c \in Resolved, Arrive(c) PROVE LookupsAsking'
  <2>1. PICK e \in Events : Child(c, [look[c] EXCEPT !.event = e], "asks")
    BY <1>9 DEF Arrive
  <2>2. Asking(look[c])
    BY DEF LookupsAsking
  <2>3. Asking([look[c] EXCEPT !.event = e])
    BY <2>2, EventAsking
  <2> QED
    BY <2>1, <2>3, ChildAsking
<1>10. ASSUME Stop PROVE LookupsAsking'
  BY <1>10, FreshAsking DEF Stop, LookupsAsking
<1>11. ASSUME ParentStep PROVE look' = look
  BY <1>11 DEF ParentStep, Test, Pause, Sigchld, Accept, AcceptFails, Fork, ForkFails, Reap
<1>12. ASSUME NEW c \in Clients, Connect(c) PROVE look' = look
  BY <1>12 DEF Connect
<1>13. ASSUME Restart \/ UNCHANGED vars PROVE look' = look
  BY <1>13 DEF Restart, vars
<1> QED
  BY <1>1, <1>2, <1>3, <1>4, <1>5, <1>6, <1>7, <1>8, <1>9, <1>10, <1>11, <1>12, <1>13
  DEF Next, ChildStep

\* A name is given up only after every server has been asked three times by
\* UDP, or once by TCP (dns_transmit.c:95-192), whatever packets come, are
\* late, or stay away, and whichever sends and connects fail.
THEOREM AllAreAsked == Spec => []AllServersAsked
<1>1. Init => LookupsAsking
  BY FreshAsking DEF Init, LookupsAsking
<1>2. LookupsAsking /\ [Next]_vars => LookupsAsking'
  BY LookupsKeep
<1>3. LookupsAsking => AllServersAsked
  BY DEF LookupsAsking, Asking, AllServersAsked
<1> QED
  BY <1>1, <1>2, <1>3, PTL DEF Spec
=============================================================================
