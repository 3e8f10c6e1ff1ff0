------------------------- MODULE PerlServersProofs --------------------------
(***************************************************************************)
(* Proofs about the two Perl servers, for any number of clients: their     *)
(* accept loops, the hints of polsys.pl, of any length and with any number *)
(* of hints that are kept, and the challenges of diary.pl.                 *)
(***************************************************************************)
EXTENDS Polsys, Diary, FiniteSetTheorems, TLAPS
-----------------------------------------------------------------------------
(* polsys.pl                                                               *)

(***************************************************************************)
(* The inductive invariant.  The backlog holds each client that waits for  *)
(* accept once, and no other.  Only a process that serves is inside          *)
(* saveentry.  A save that is alone is the only one; what it has read is   *)
(* still in the file until it opens the file, and then it holds, next to   *)
(* its own hint, all that has been kept.                                   *)
(***************************************************************************)
InQueue == \A i \in 1..Len(backlog) :
             /\ conn[backlog[i]] = "backlog"
             /\ \A j \in 1..Len(backlog) : backlog[i] = backlog[j] => i = j

IdleAtStart == \A c \in Clients : conn[c] # "served" => pc[c] = "output"

AloneIsAlone == \A c, d \in Saving : alone[c] => d = c

HoldsFile == \A c \in Clients : Runs(c, "changed") /\ alone[c]
                                  => mem[c] = Push(file, Whole(hint[c]))

HoldsKept == \A c \in Clients :
               Runs(c, "opened") /\ alone[c]
                 => file = <<>> /\ EndsWith(mem[c], Push(kept, Whole(hint[c])))

IInv == /\ TypeOK
        /\ InQueue
        /\ IdleAtStart
        /\ AloneIsAlone
        /\ HoldsFile
        /\ HoldsKept
        /\ LoneSavesStay
-----------------------------------------------------------------------------
LEMMA KeepsHints == MaxHints \in Nat /\ MaxHints >= 1
<1>1. MaxHints \in Nat \ {0}
  BY Zenon, PolsysAssumption
<1> QED BY <1>1

LEMMA PushType ==
  ASSUME NEW S, NEW list \in Seq(S), NEW e \in S
  PROVE  Push(list, e) \in Seq(S)
<1>1. CASE Len(list) >= MaxHints
  <2>1. list # <<>>
    BY <1>1, KeepsHints
  <2>2. Tail(list) \in Seq(S)
    BY <2>1
  <2> QED BY <1>1, <2>2 DEF Push
<1>2. CASE ~(Len(list) >= MaxHints)
  BY <1>2 DEF Push
<1> QED BY <1>1, <1>2

LEMMA AppendKeepsEnd ==
  ASSUME NEW S, NEW list \in Seq(S), NEW end \in Seq(S), NEW e \in S,
         EndsWith(list, end)
  PROVE  EndsWith(Append(list, e), Append(end, e))
<1> DEFINE l == Append(list, e)
           n == Append(end, e)
<1>1. Len(end) <= Len(list) /\ Len(list) \in Nat /\ Len(end) \in Nat
  BY DEF EndsWith
<1>2. Len(l) = Len(list) + 1 /\ Len(n) = Len(end) + 1
  OBVIOUS
<1>3. ASSUME NEW i \in 1..Len(n)
      PROVE  n[i] = l[Len(l) - Len(n) + i]
  <2>1. CASE i = Len(n)
    BY <1>1, <1>2, <2>1
  <2>2. CASE i # Len(n)
    <3>1. i \in 1..Len(end) /\ Len(list) - Len(end) + i \in 1..Len(list)
      BY <1>1, <1>2, <2>2
    <3>2. n[i] = end[i] /\ l[Len(list) - Len(end) + i] = list[Len(list) - Len(end) + i]
      BY <3>1
    <3>3. end[i] = list[Len(list) - Len(end) + i]
      BY <3>1 DEF EndsWith
    <3> QED BY <1>1, <1>2, <3>2, <3>3
  <2> QED BY <2>1, <2>2
<1> HIDE DEF l, n
<1>4. EndsWith(l, n)
  BY <1>1, <1>2, <1>3 DEF EndsWith
<1> QED BY <1>4 DEF l, n

LEMMA TailKeepsEnd ==
  ASSUME NEW S, NEW list \in Seq(S), NEW end \in Seq(S), list # <<>>,
         EndsWith(list, end)
  PROVE  /\ Len(end) < Len(list) => EndsWith(Tail(list), end)
         /\ end # <<>> => EndsWith(Tail(list), Tail(end))
<1>1. /\ Len(end) <= Len(list) /\ Len(list) \in Nat /\ Len(end) \in Nat
      /\ \A i \in 1..Len(end) : end[i] = list[Len(list) - Len(end) + i]
  BY DEF EndsWith
<1>2. Len(Tail(list)) = Len(list) - 1
  OBVIOUS
<1>3. \A i \in 1..Len(list) - 1 : Tail(list)[i] = list[i + 1]
  OBVIOUS
<1>4. ASSUME Len(end) < Len(list)
      PROVE  EndsWith(Tail(list), end)
  <2>1. ASSUME NEW i \in 1..Len(end)
        PROVE  end[i] = Tail(list)[Len(Tail(list)) - Len(end) + i]
    <3>1. Len(list) - 1 - Len(end) + i \in 1..Len(list) - 1
      BY <1>1, <1>4
    <3> QED BY <1>1, <1>2, <1>3, <3>1
  <2> QED BY <1>1, <1>2, <1>4, <2>1 DEF EndsWith
<1>5. ASSUME end # <<>>
      PROVE  EndsWith(Tail(list), Tail(end))
  <2>1. Len(Tail(end)) = Len(end) - 1 /\ Len(end) >= 1
    BY <1>5
  <2>2. \A i \in 1..Len(end) - 1 : Tail(end)[i] = end[i + 1]
    BY <1>5
  <2>3. ASSUME NEW i \in 1..Len(Tail(end))
        PROVE  Tail(end)[i] = Tail(list)[Len(Tail(list)) - Len(Tail(end)) + i]
    <3>1. Len(list) - Len(end) + i \in 1..Len(list) - 1 /\ i + 1 \in 1..Len(end)
      BY <1>1, <2>1
    <3>2. Tail(list)[Len(list) - Len(end) + i] = list[Len(list) - Len(end) + i + 1]
      BY <1>3, <3>1
    <3>3. end[i + 1] = list[Len(list) - Len(end) + (i + 1)]
      BY <1>1, <3>1
    <3>4. Tail(end)[i] = end[i + 1]
      BY <2>1, <2>2
    <3>5. Len(Tail(list)) - Len(Tail(end)) + i = Len(list) - Len(end) + i
      <4> DEFINE a == Len(Tail(list))
                 b == Len(Tail(end))
                 c == Len(list)
                 d == Len(end)
      <4>1. a = c - 1 /\ b = d - 1 /\ c \in Nat /\ d \in Nat /\ i \in 1..b
        BY <1>1, <1>2, <2>1
      <4> HIDE DEF a, b, c, d
      <4>2. a - b + i = c - d + i
        BY <4>1
      <4> QED BY <4>2 DEF a, b, c, d
    <3>6. Len(list) - Len(end) + (i + 1) = Len(list) - Len(end) + i + 1
      BY <1>1, <3>1
    <3> QED BY <3>2, <3>3, <3>4, <3>5, <3>6
  <2>4. Len(Tail(end)) <= Len(Tail(list))
    BY <1>1, <1>2, <2>1
  <2> QED BY <2>3, <2>4 DEF EndsWith
<1> QED BY <1>4, <1>5

(***************************************************************************)
(* Adding a hint to the file and to what must stay in it: both lose their  *)
(* oldest when they are full, the file before the other.                   *)
(***************************************************************************)
LEMMA PushKeepsEnd ==
  ASSUME NEW S, NEW list \in Seq(S), NEW end \in Seq(S), NEW e \in S,
         EndsWith(list, end)
  PROVE  EndsWith(Push(list, e), Push(end, e))
<1> DEFINE Room(q) == IF Len(q) >= MaxHints THEN Tail(q) ELSE q
<1>1. Len(end) <= Len(list) /\ Len(list) \in Nat /\ Len(end) \in Nat
  BY DEF EndsWith
<1>2. EndsWith(Room(list), Room(end))
  <2>1. CASE Len(list) < MaxHints
    BY <1>1, <2>1, KeepsHints
  <2>2. CASE Len(list) >= MaxHints /\ Len(end) < MaxHints
    <3>1. list # <<>> /\ Len(end) < Len(list)
      BY <1>1, <2>2, KeepsHints
    <3> QED BY <1>1, <2>2, <3>1, KeepsHints, TailKeepsEnd
  <2>3. CASE Len(list) >= MaxHints /\ Len(end) >= MaxHints
    <3>1. list # <<>> /\ end # <<>>
      BY <1>1, <2>3, KeepsHints
    <3> QED BY <1>1, <2>3, <3>1, KeepsHints, TailKeepsEnd
  <2> QED BY <1>1, <2>1, <2>2, <2>3, KeepsHints
<1>3. ASSUME NEW q \in Seq(S)
      PROVE  Room(q) \in Seq(S)
  <2>1. CASE Len(q) >= MaxHints
    <3>1. q # <<>>
      BY <2>1, KeepsHints
    <3> QED BY <2>1, <3>1
  <2> QED BY <2>1
<1>4. Room(list) \in Seq(S) /\ Room(end) \in Seq(S)
  BY <1>3
<1>5. Push(list, e) = Append(Room(list), e) /\ Push(end, e) = Append(Room(end), e)
  BY DEF Push
<1> HIDE DEF Room
<1> QED BY <1>2, <1>4, <1>5, AppendKeepsEnd

\* A file nobody has written to ends up as what is written.
LEMMA OverwriteEmpty ==
  ASSUME NEW new
  PROVE  Overwritten(<<>>, new) = new
<1>1. GoesOn(<<>>, Size(new)[Len(new)]) = {}
  BY DEF GoesOn
<1> QED BY <1>1 DEF Overwritten

LEMMA OverwriteType ==
  ASSUME NEW old \in Seq(Entry), NEW new \in Seq(Entry)
  PROVE  Overwritten(old, new) \in Seq(Entry)
<1> DEFINE rest == GoesOn(old, Size(new)[Len(new)])
           r == CHOOSE r \in rest : TRUE
<1>1. CASE rest = {}
  BY <1>1 DEF Overwritten
<1>2. CASE rest # {}
  <2>1. r \in rest
    BY <1>2
  <2>2. PICK k \in DOMAIN old : \E l \in 0..old[k].len : r = [at |-> k, len |-> l]
    BY <2>1 DEF GoesOn
  <2>3. old[k] \in Entry /\ k \in 1..Len(old) /\ Len(old) \in Nat
    BY <2>2
  <2>4. r.at = k /\ r.len \in Nat
    <3>1. PICK l \in 0..old[k].len : r = [at |-> k, len |-> l]
      BY <2>2
    <3>2. old[k].len \in Nat
      BY <2>3 DEF Entry
    <3> HIDE DEF r
    <3> QED BY <3>1, <3>2
  <2>5. /\ [of |-> old[r.at].of, len |-> r.len] \in Entry
        /\ SubSeq(old, r.at + 1, Len(old)) \in Seq(Entry)
    <3> HIDE DEF r
    <3>1. old[k].of \in Lines
      BY <2>3 DEF Entry
    <3>2. SubSeq(old, k + 1, Len(old)) \in Seq(Entry)
      BY <2>3
    <3> QED BY <2>4, <3>1, <3>2 DEF Entry
  <2>6. Overwritten(old, new) = Append(new, [of |-> old[r.at].of, len |-> r.len])
                                  \o SubSeq(old, r.at + 1, Len(old))
    BY <1>2 DEF Overwritten
  <2> HIDE DEF r
  <2> QED BY <2>5, <2>6
<1> QED BY <1>1, <1>2
-----------------------------------------------------------------------------
LEMMA InitIInv == PolsysInit => IInv
<1> SUFFICES ASSUME PolsysInit PROVE IInv
  OBVIOUS
<1> USE DEF PolsysInit, ServerInit
<1>1. TypeOK
  <2>1. MaxLines \in Nat /\ Blank \in Lines
    BY Zenon, PolsysAssumption
  <2>2. ServerTypeOK
    <3>1. backlog \in Seq(Clients) /\ conn \in [Clients -> Stages]
      BY DEF Stages
    <3>2. pending \in BOOLEAN
      BY Zenon
    <3> QED BY <3>1, <3>2 DEF ServerTypeOK
  <2>3. wire \in [Clients -> Lines \cup {Nothing, Several}] /\ sent \in 0..MaxLines
    BY <2>1
  <2>4. mem \in [Clients -> Seq(Entry)] /\ file \in Seq(Entry) /\ kept \in Seq(Entry)
    OBVIOUS
  <2> QED BY <2>1, <2>2, <2>3, <2>4 DEF TypeOK, Menus, Pcs
<1>2. Saving = {} /\ \A c \in Clients : ~Runs(c, "opened") /\ ~Runs(c, "changed")
  BY DEF Saving, Runs
<1>3. LoneSavesStay
  BY DEF LoneSavesStay, EndsWith
<1> QED BY <1>1, <1>2, <1>3
        DEF IInv, InQueue, IdleAtStart, AloneIsAlone, HoldsFile, HoldsKept

\* What the parent does changes none of the variables of this module.
LEMMA ServerType ==
  ASSUME ServerTypeOK, ServerStep
  PROVE  ServerTypeOK'
<1> USE DEF ServerTypeOK, Stages
<1>1. ASSUME NEW c \in Clients, Connect(c)
      PROVE  ServerTypeOK'
  BY <1>1 DEF Connect
<1>2. CASE Accept
  BY <1>2 DEF Accept
<1>3. ASSUME NEW c \in Clients, Fork(c) \/ ForkFails(c) \/ WaitPid(c)
      PROVE  ServerTypeOK'
  BY <1>3 DEF Fork, ForkFails, WaitPid
<1>4. CASE Reaper
  <2>1. conn' \in [Clients -> Stages]
    BY <1>4 DEF Reaper, AfterWaitPid, In
  <2> QED BY <1>4, <2>1 DEF Reaper
<1>5. CASE ReaperReturns \/ Start
  BY <1>5 DEF ReaperReturns, Start
<1> QED BY <1>1, <1>2, <1>3, <1>4, <1>5 DEF ServerStep, ParentStep

LEMMA TypeStep ==
  ASSUME TypeOK, IdleAtStart, [PolsysNext]_vars
  PROVE  TypeOK'
<1> USE DEF TypeOK, Menus, Pcs
<1>0. Blank \in Lines /\ Blank # Nothing /\ MaxLines \in Nat /\ Length \in [Lines -> Nat]
      /\ Lines \cap {Nothing, Several} = {}
  BY Zenon, PolsysAssumption DEF Blank, Nothing
<1>1. CASE Server
  BY <1>1, ServerType DEF Server, childVars, clientVars, fileVars
<1>2. ASSUME NEW c \in Clients, Ends(c)
      PROVE  ServerTypeOK'
  BY <1>2 DEF Ends, ServerTypeOK, Stages
<1>3. ASSUME NEW c \in Clients, Exit(c)
      PROVE  TypeOK'
  BY <1>0, <1>2, <1>3 DEF Exit, fileVars
<1>4. ASSUME NEW c \in Clients, Output(c)
      PROVE  TypeOK'
  <2>1. CASE menu[c] \in HasInput
    BY <1>4, <2>1 DEF Output, clientVars, fileVars, serverVars, ServerTypeOK
  <2>2. CASE menu[c] \notin HasInput
    <3>1. menu[c] \in {"start", "read", "inside"}
      BY <1>4, <2>2 DEF Output, HasInput
    <3>2. After[menu[c]] \in Menus
      BY <3>1 DEF After
    <3> QED BY <1>4, <2>2, <3>2 DEF Output, clientVars, fileVars, serverVars, ServerTypeOK
  <2> QED BY <2>1, <2>2
<1>5. ASSUME NEW c \in Clients, NEW line \in Lines, Dispatch(c, line)
      PROVE  /\ menu' \in [Clients -> Menus]
             /\ pc' \in [Clients -> Pcs]
             /\ hint' \in [Clients -> Lines]
  <2>1. NextMenu(menu[c], line) \in Menus
    BY DEF NextMenu
  <2>2. CASE menu[c] = "input"
    BY <1>5, <2>2 DEF Dispatch
  <2>3. CASE menu[c] # "input"
    BY <1>5, <2>1, <2>3 DEF Dispatch
  <2> QED BY <2>2, <2>3
<1>6. ASSUME NEW c \in Clients, Receive(c)
      PROVE  TypeOK'
  <2>1. CASE wire[c] = Several
    BY <1>6, <2>1 DEF Receive, fileVars, serverVars, ServerTypeOK
  <2>2. CASE wire[c] # Several
    <3>1. wire[c] \in Lines
      BY <1>6, <2>2 DEF Receive
    <3>2. Dispatch(c, wire[c])
      BY <1>6, <2>2 DEF Receive
    <3>3. /\ menu' \in [Clients -> Menus]
          /\ pc' \in [Clients -> Pcs]
          /\ hint' \in [Clients -> Lines]
      BY <1>5, <3>1, <3>2
    <3> QED BY <1>6, <3>3 DEF Receive, fileVars, serverVars, ServerTypeOK
  <2> QED BY <2>1, <2>2
<1>7. ASSUME NEW c \in Clients, ReceiveEnd(c)
      PROVE  TypeOK'
  <2>1. /\ menu' \in [Clients -> Menus]
        /\ pc' \in [Clients -> Pcs]
        /\ hint' \in [Clients -> Lines]
    BY <1>0, <1>5, <1>7 DEF ReceiveEnd
  <2> QED BY <1>7, <2>1 DEF ReceiveEnd, clientVars, fileVars, serverVars, ServerTypeOK
<1>8. ASSUME NEW c \in Clients, ReadFile(c)
      PROVE  TypeOK'
  <2>1. Whole(hint[c]) \in Entry
    BY <1>0 DEF Whole, Entry
  <2>2. mem' \in [Clients -> Seq(Entry)]
    <3>1. Push(file, Whole(hint[c])) \in Seq(Entry)
      BY <2>1, PushType
    <3> QED BY <1>8, <3>1 DEF ReadFile
  <2>3. alone' \in [Clients -> BOOLEAN]
    BY <1>8, Zenon DEF ReadFile
  <2> QED BY <1>8, <2>2, <2>3 DEF ReadFile, clientVars, serverVars, ServerTypeOK
<1>9. ASSUME NEW c \in Clients, OpenFile(c)
      PROVE  TypeOK'
  BY <1>9 DEF OpenFile, clientVars, serverVars, ServerTypeOK
<1>10. ASSUME NEW c \in Clients, CloseFile(c)
       PROVE  TypeOK'
  <2>1. Whole(hint[c]) \in Entry
    BY <1>0 DEF Whole, Entry
  <2>2. file' \in Seq(Entry)
    BY <1>10, OverwriteType DEF CloseFile
  <2>3. kept' \in Seq(Entry)
    <3>1. Push(kept, Whole(hint[c])) \in Seq(Entry)
      BY <2>1, PushType
    <3> QED BY <1>10, <3>1 DEF CloseFile
  <2> QED BY <1>0, <1>10, <2>2, <2>3 DEF CloseFile, clientVars, serverVars, ServerTypeOK
<1>11. ASSUME NEW c \in Clients, Confirm(c)
       PROVE  TypeOK'
  BY <1>11 DEF Confirm, clientVars, fileVars, serverVars, ServerTypeOK
<1>12. ASSUME NEW c \in Clients, ClientSends(c)
       PROVE  TypeOK'
  BY <1>0, <1>12 DEF ClientSends, Joined, childVars, fileVars, serverVars, ServerTypeOK
<1>13. ASSUME NEW c \in Clients, ClientShuts(c)
       PROVE  TypeOK'
  BY <1>13 DEF ClientShuts, childVars, fileVars, serverVars, ServerTypeOK
<1>14. CASE StopAll
  <2>1. ServerTypeOK'
    <3>1. parent' = "down" /\ backlog' \in Seq(Clients) /\ conn' \in [Clients -> Stages]
      BY <1>14 DEF StopAll, Stop, Stages
    <3>2. pending' \in BOOLEAN
      BY <1>14, Zenon DEF StopAll, Stop
    <3> QED BY <3>1, <3>2 DEF ServerTypeOK
  <2>2. kept' \in Seq(Entry)
    BY <1>14 DEF StopAll
  <2> QED BY <1>0, <1>14, <2>1, <2>2 DEF StopAll
<1>15. CASE UNCHANGED vars
  BY <1>15 DEF vars, childVars, clientVars, fileVars, serverVars, ServerTypeOK
<1> QED
  BY <1>1, <1>3, <1>4, <1>6, <1>7, <1>8, <1>9, <1>10, <1>11, <1>12, <1>13,
     <1>14, <1>15
     DEF PolsysNext, Child, Quit, SendFails, ReceiveFails
-----------------------------------------------------------------------------
(***************************************************************************)
(* A step that leaves the file and the saves alone keeps what is said      *)
(* about them.                                                             *)
(***************************************************************************)
SavesInv == AloneIsAlone /\ HoldsFile /\ HoldsKept /\ LoneSavesStay

LEMMA Elsewhere ==
  ASSUME IInv, UNCHANGED <<file, alone, kept, mem>>,
         \A c \in Clients : /\ Runs(c, "changed")' <=> Runs(c, "changed")
                            /\ Runs(c, "opened")' <=> Runs(c, "opened")
                            /\ Runs(c, "changed") \/ Runs(c, "opened")
                                 => hint'[c] = hint[c]
  PROVE  SavesInv'
<1> USE DEF IInv
<1>1. Saving' = Saving
  BY DEF Saving
<1>2. AloneIsAlone'
  BY <1>1 DEF AloneIsAlone
<1>3. \A c \in Clients : Runs(c, "changed") \/ Runs(c, "opened")
                           => Whole(hint[c])' = Whole(hint[c])
  BY DEF Whole
<1>4. HoldsFile'
  <2>1. SUFFICES ASSUME NEW c \in Clients, Runs(c, "changed")', alone'[c]
                 PROVE  mem'[c] = Push(file, Whole(hint[c]))'
    BY DEF HoldsFile
  <2> QED BY <1>3, <2>1 DEF HoldsFile, Push
<1>5. HoldsKept'
  <2>1. SUFFICES ASSUME NEW c \in Clients, Runs(c, "opened")', alone'[c]
                 PROVE  file' = <<>> /\ EndsWith(mem[c], Push(kept, Whole(hint[c])))'
    BY DEF HoldsKept
  <2>2. Runs(c, "opened") /\ alone[c]
    BY <2>1
  <2>3. Push(kept, Whole(hint[c]))' = Push(kept, Whole(hint[c]))
    BY <1>3, <2>2 DEF Push
  <2>4. file = <<>> /\ EndsWith(mem[c], Push(kept, Whole(hint[c])))
    BY <2>2 DEF HoldsKept
  <2> QED BY <2>3, <2>4 DEF EndsWith
<1>6. LoneSavesStay'
  BY DEF LoneSavesStay, EndsWith
<1> QED BY <1>2, <1>4, <1>5, <1>6 DEF SavesInv

\* The parent's steps keep the backlog in order and the processes running.
LEMMA ServerServes ==
  ASSUME ServerTypeOK, InQueue, ServerStep
  PROVE  /\ InQueue'
         /\ \A c \in Clients : conn[c] = "served" => conn'[c] = "served"
         /\ \A c \in Clients : conn'[c] = "served" => conn[c] \in {"served", "accepted"}
<1> USE DEF ServerTypeOK
<1>1. ASSUME NEW c \in Clients, Connect(c)
      PROVE  /\ InQueue'
             /\ \A d \in Clients : conn'[d] = "served" <=> conn[d] = "served"
  <2>1. Len(backlog') = Len(backlog) + 1 /\ backlog'[Len(backlog) + 1] = c
        /\ \A i \in 1..Len(backlog) : backlog'[i] = backlog[i] /\ backlog[i] # c
    BY <1>1 DEF Connect, InQueue
  <2>2. \A d \in Clients : d # c => conn'[d] = conn[d]
    BY <1>1 DEF Connect
  <2>3. conn'[c] = "backlog" /\ conn[c] = "out"
    BY <1>1 DEF Connect
  <2>4. \A i \in 1..Len(backlog) : backlog[i] \in Clients
    OBVIOUS
  <2>5. InQueue'
    BY <2>1, <2>2, <2>3, <2>4 DEF InQueue
  <2> QED BY <2>2, <2>3, <2>5
<1>2. ASSUME Accept
      PROVE  /\ InQueue'
             /\ \A d \in Clients : conn'[d] = "served" <=> conn[d] = "served"
  <2>1. /\ Len(backlog') = Len(backlog) - 1 /\ Len(backlog) >= 1
        /\ \A i \in 1..Len(backlog) - 1 : backlog'[i] = backlog[i + 1]
        /\ Head(backlog) = backlog[1]
    BY <1>2 DEF Accept
  <2>2. \A i \in 1..Len(backlog) : backlog[i] \in Clients
    OBVIOUS
  <2>3. conn[Head(backlog)] = "backlog"
    BY <2>1 DEF InQueue
  <2>4. ASSUME NEW i \in 1..Len(backlog')
        PROVE  /\ conn'[backlog'[i]] = "backlog"
               /\ \A j \in 1..Len(backlog') : backlog'[i] = backlog'[j] => i = j
    <3>1. i + 1 \in 1..Len(backlog) /\ i \in 1..Len(backlog) - 1
      BY <2>1
    <3>2. backlog[i + 1] # backlog[1] /\ conn[backlog[i + 1]] = "backlog"
      BY <2>1, <3>1 DEF InQueue
    <3>3. conn'[backlog[i + 1]] = "backlog"
      BY <1>2, <2>1, <2>2, <3>1, <3>2 DEF Accept
    <3>4. ASSUME NEW j \in 1..Len(backlog'), backlog'[i] = backlog'[j]
          PROVE  i = j
      <4>1. j + 1 \in 1..Len(backlog) /\ j \in 1..Len(backlog) - 1
        BY <2>1
      <4>2. backlog[i + 1] = backlog[j + 1]
        BY <2>1, <3>1, <3>4, <4>1
      <4>3. i + 1 = j + 1
        BY <3>1, <4>1, <4>2 DEF InQueue
      <4> QED BY <4>3
    <3> QED BY <2>1, <3>1, <3>3, <3>4
  <2>5. InQueue'
    BY <2>4 DEF InQueue
  <2> QED BY <1>2, <2>3, <2>5 DEF Accept
<1>3. ASSUME NEW c \in Clients, NEW to \in Stages, conn[c] # "backlog",
             to # "backlog", conn' = [conn EXCEPT ![c] = to], backlog' = backlog
      PROVE  InQueue'
  BY <1>3 DEF InQueue
<1>4. ASSUME NEW c \in Clients, Fork(c)
      PROVE  /\ InQueue'
             /\ \A d \in Clients : conn'[d] = "served" <=> conn[d] = "served" \/ d = c
  BY <1>3, <1>4 DEF Fork, Stages
<1>5. ASSUME NEW c \in Clients, ForkFails(c) \/ WaitPid(c)
      PROVE  /\ InQueue'
             /\ \A d \in Clients : conn'[d] = "served" <=> conn[d] = "served"
  BY <1>3, <1>5 DEF ForkFails, WaitPid, Stages
<1>6. ASSUME Reaper \/ ReaperReturns \/ Start
      PROVE  /\ InQueue'
             /\ \A d \in Clients : conn'[d] = "served" <=> conn[d] = "served"
  BY <1>3, <1>6 DEF Reaper, AfterWaitPid, ReaperReturns, Start, In, InQueue, Stages
<1>7. \A c \in Clients : Fork(c) => conn[c] = "accepted"
  BY DEF Fork
<1> QED BY <1>1, <1>2, <1>4, <1>5, <1>6, <1>7 DEF ServerStep, ParentStep

LEMMA SavesStep ==
  ASSUME IInv, [PolsysNext]_vars
  PROVE  InQueue' /\ IdleAtStart' /\ SavesInv'
<1> USE DEF IInv
<1>0. TypeOK'
  BY TypeStep
<1>1. CASE Server
  <2>1. /\ InQueue'
        /\ \A c \in Clients : conn[c] = "served" => conn'[c] = "served"
        /\ \A c \in Clients : conn'[c] = "served" => conn[c] \in {"served", "accepted"}
    BY <1>1, ServerServes DEF Server, TypeOK
  <2>2. UNCHANGED <<menu, pc, hint, mem, file, alone, kept>>
    BY <1>1 DEF Server, childVars, fileVars
  <2>3. IdleAtStart'
    BY <2>1, <2>2 DEF IdleAtStart
  <2>4. \A c \in Clients : /\ Runs(c, "changed")' <=> Runs(c, "changed")
                           /\ Runs(c, "opened")' <=> Runs(c, "opened")
    BY <2>1, <2>2 DEF IdleAtStart, Runs
  <2> QED BY <2>1, <2>2, <2>3, <2>4, Elsewhere
\* Where the process of c is not saving, neither before nor after the step.
<1>2. ASSUME NEW c \in Clients, UNCHANGED <<backlog, mem, fileVars>>,
             conn[c] = "served", conn'[c] \in {"served", "zombie"},
             conn' = [conn EXCEPT ![c] = conn'[c]],
             pc[c] \notin {"changed", "opened"},
             pc'[c] \notin {"changed", "opened"},
             conn'[c] # "served" => pc'[c] = "output",
             \A d \in Clients \ {c} : pc'[d] = pc[d] /\ hint'[d] = hint[d]
      PROVE  InQueue' /\ IdleAtStart' /\ SavesInv'
  <2>1. \A d \in Clients \ {c} : conn'[d] = conn[d]
    BY <1>2 DEF TypeOK, ServerTypeOK
  <2>2. InQueue'
    BY <1>2, <2>1 DEF InQueue, TypeOK, ServerTypeOK
  <2>3. IdleAtStart'
    BY <1>2, <2>1 DEF IdleAtStart
  <2>4. \A d \in Clients : /\ Runs(d, "changed")' <=> Runs(d, "changed")
                           /\ Runs(d, "opened")' <=> Runs(d, "opened")
                           /\ Runs(d, "changed") \/ Runs(d, "opened")
                                => hint'[d] = hint[d]
    BY <1>2, <2>1 DEF Runs
  <2> QED BY <1>2, <2>2, <2>3, <2>4, Elsewhere DEF fileVars
<1>3. ASSUME NEW c \in Clients, Exit(c), pc[c] \notin {"changed", "opened"}
      PROVE  InQueue' /\ IdleAtStart' /\ SavesInv'
  BY <1>2, <1>3 DEF Exit, Ends, TypeOK, ServerTypeOK
<1>4. ASSUME NEW c \in Clients, Output(c) \/ Confirm(c)
      PROVE  InQueue' /\ IdleAtStart' /\ SavesInv'
  <2>1. CASE Output(c)
    <3>1. PICK at \in {"recv", "output"} : pc' = [pc EXCEPT ![c] = at]
      BY <2>1 DEF Output, Runs, TypeOK
    <3>2. Runs(c, "output") /\ UNCHANGED <<serverVars, mem, hint, fileVars>>
      BY <2>1 DEF Output
    <3> QED BY <1>2, <3>1, <3>2 DEF Runs, TypeOK, ServerTypeOK, serverVars
  <2>2. CASE Confirm(c)
    BY <1>2, <2>2 DEF Confirm, Runs, TypeOK, ServerTypeOK, serverVars
  <2> QED BY <1>4, <2>1, <2>2
<1>5. ASSUME NEW c \in Clients, Receive(c) \/ ReceiveEnd(c)
      PROVE  InQueue' /\ IdleAtStart' /\ SavesInv'
  <2>1. PICK at \in {"asked", "output"} :
           /\ pc' = [pc EXCEPT ![c] = at]
           /\ \A d \in Clients \ {c} : hint'[d] = hint[d]
    BY <1>5 DEF Receive, ReceiveEnd, Dispatch, TypeOK
  <2>2. Runs(c, "recv") /\ UNCHANGED <<serverVars, mem, fileVars>>
    BY <1>5 DEF Receive, ReceiveEnd
  <2> QED
    BY <1>2, <2>1, <2>2 DEF Runs, TypeOK, ServerTypeOK, serverVars
<1>6. ASSUME NEW c \in Clients, ClientSends(c) \/ ClientShuts(c)
      PROVE  InQueue' /\ IdleAtStart' /\ SavesInv'
  <2>1. UNCHANGED <<serverVars, childVars, fileVars>>
    BY <1>6 DEF ClientSends, ClientShuts
  <2> QED BY <2>1, Elsewhere
          DEF serverVars, childVars, fileVars, Runs, InQueue, IdleAtStart
<1>7. ASSUME NEW c \in Clients, UNCHANGED serverVars, Runs(c, "asked") \/ c \in Saving,
             NEW at \in Pcs \ {"output"}, pc' = [pc EXCEPT ![c] = at]
      PROVE  /\ InQueue' /\ IdleAtStart'
             /\ Saving' = IF at \in {"changed", "opened"} THEN Saving \cup {c}
                           ELSE Saving \ {c}
             /\ \A d \in Clients \ {c} : /\ Runs(d, "changed")' <=> Runs(d, "changed")
                                        /\ Runs(d, "opened")' <=> Runs(d, "opened")
             /\ \A x \in Pcs : Runs(c, x)' <=> x = at
  <2>1. conn' = conn /\ backlog' = backlog /\ conn[c] = "served"
    BY <1>7 DEF serverVars, Runs, Saving
  <2>2. \A d \in Clients : pc'[d] = IF d = c THEN at ELSE pc[d]
    BY <1>7 DEF TypeOK
  <2>3. \A d \in Clients \ {c}, x \in Pcs : Runs(d, x)' <=> Runs(d, x)
    BY <2>1, <2>2 DEF Runs
  <2>4. \A x \in Pcs : Runs(c, x)' <=> x = at
    BY <2>1, <2>2 DEF Runs
  <2>5. InQueue'
    BY <2>1 DEF InQueue
  <2>6. IdleAtStart'
    BY <2>1, <2>2 DEF IdleAtStart
  <2>7. {"changed", "opened"} \subseteq Pcs
    BY DEF Pcs
  <2>8. \A d \in Clients : d \in Saving' <=>
           IF d = c THEN at \in {"changed", "opened"} ELSE d \in Saving
    BY <2>3, <2>4, <2>7 DEF Saving
  <2>9. Saving' \subseteq Clients /\ Saving \subseteq Clients
    BY DEF Saving
  <2> QED BY <2>3, <2>4, <2>5, <2>6, <2>7, <2>8, <2>9
<1>8. ASSUME NEW c \in Clients, ReadFile(c)
      PROVE  InQueue' /\ IdleAtStart' /\ SavesInv'
  <2>1. /\ InQueue' /\ IdleAtStart'
        /\ Saving' = Saving \cup {c}
        /\ \A d \in Clients \ {c} : /\ Runs(d, "changed")' <=> Runs(d, "changed")
                                   /\ Runs(d, "opened")' <=> Runs(d, "opened")
        /\ ~Runs(c, "opened")'
    BY <1>7, <1>8 DEF ReadFile, Pcs
  <2>2. /\ mem' = [mem EXCEPT ![c] = Push(file, Whole(hint[c]))]
        /\ alone' = [d \in Clients |-> IF d = c THEN Saving = {}
                                       ELSE alone[d] /\ d \notin Saving]
        /\ UNCHANGED <<file, kept, hint>>
        /\ ~Runs(c, "opened")
    BY <1>8 DEF ReadFile, Runs
  <2>3. AloneIsAlone'
    <3>1. \A d \in Saving' : alone'[d] => d = c /\ Saving = {}
      BY <2>1, <2>2 DEF Saving
    <3> QED BY <2>1, <3>1 DEF AloneIsAlone
  <2>4. \A d \in Clients \ {c} : d \in Saving => ~alone'[d]
    BY <2>2
  <2>5. \A d \in Clients : Runs(d, "changed")' \/ Runs(d, "opened")' => d \in Saving \cup {c}
    BY <2>1 DEF Saving
  <2>6. HoldsFile'
    <3>1. mem'[c] = Push(file, Whole(hint[c])) /\ Push(file, Whole(hint[c]))' = Push(file, Whole(hint[c]))
      BY <2>2 DEF Push, Whole, TypeOK
    <3> QED BY <2>4, <2>5, <3>1 DEF HoldsFile
  <2>7. HoldsKept'
    BY <2>1, <2>4, <2>5 DEF HoldsKept
  <2>8. LoneSavesStay'
    BY <2>1, <2>2 DEF LoneSavesStay, EndsWith
  <2> QED BY <2>1, <2>3, <2>6, <2>7, <2>8 DEF SavesInv
\* Who opens the file alone, empties it of no more than it holds.
<1>9. ASSUME NEW c \in Clients, OpenFile(c)
      PROVE  InQueue' /\ IdleAtStart' /\ SavesInv'
  <2>1. c \in Saving
    BY <1>9 DEF OpenFile, Saving
  <2>2. /\ InQueue' /\ IdleAtStart'
        /\ Saving' = Saving
        /\ \A d \in Clients \ {c} : /\ Runs(d, "changed")' <=> Runs(d, "changed")
                                   /\ Runs(d, "opened")' <=> Runs(d, "opened")
        /\ Runs(c, "opened")' /\ ~Runs(c, "changed")'
    <3>1. pc' = [pc EXCEPT ![c] = "opened"] /\ UNCHANGED serverVars
      BY <1>9 DEF OpenFile
    <3>2. "opened" \in Pcs \ {"output"} /\ "changed" \in Pcs
      BY DEF Pcs
    <3>3. /\ InQueue' /\ IdleAtStart'
          /\ Saving' = Saving \cup {c}
          /\ \A d \in Clients \ {c} : /\ Runs(d, "changed")' <=> Runs(d, "changed")
                                     /\ Runs(d, "opened")' <=> Runs(d, "opened")
          /\ \A x \in Pcs : Runs(c, x)' <=> x = "opened"
      BY <1>7, <2>1, <3>1, <3>2
    <3>4. Runs(c, "opened")' /\ ~Runs(c, "changed")'
      BY <3>2, <3>3
    <3> QED BY <2>1, <3>3, <3>4
  <2>3. UNCHANGED <<mem, hint, alone, kept>> /\ file' = <<>>
    BY <1>9 DEF OpenFile
  <2>4. AloneIsAlone'
    BY <2>2, <2>3 DEF AloneIsAlone
  <2>5. \A d \in Clients : Runs(d, "changed")' \/ Runs(d, "opened")' => d \in Saving
    BY <2>2 DEF Saving
  <2>6. \A d \in Clients : d \in Saving /\ alone[d] => d = c
    BY <2>1 DEF AloneIsAlone
  <2>7. HoldsFile'
    BY <2>2, <2>3, <2>5, <2>6 DEF HoldsFile
  <2>8. ASSUME alone[c]
        PROVE  EndsWith(mem[c], Push(kept, Whole(hint[c])))
    <3>1. \A d \in Clients : ~Runs(d, "opened")
      <4>1. \A d \in Clients : Runs(d, "opened") => d \in Saving
        BY DEF Saving
      <4>2. \A d \in Saving : d = c
        BY <2>1, <2>8 DEF AloneIsAlone
      <4>3. ~Runs(c, "opened")
        BY <1>9 DEF OpenFile, Runs
      <4> QED BY <4>1, <4>2, <4>3
    <3>2. EndsWith(file, kept)
      BY <3>1 DEF LoneSavesStay
    <3>3. Whole(hint[c]) \in Entry
      <4>1. Length \in [Lines -> Nat]
        BY Zenon, PolsysAssumption
      <4> QED BY <4>1 DEF Whole, Entry, TypeOK
    <3>4. EndsWith(Push(file, Whole(hint[c])), Push(kept, Whole(hint[c])))
      BY <3>2, <3>3, PushKeepsEnd DEF TypeOK
    <3>5. mem[c] = Push(file, Whole(hint[c]))
      BY <1>9, <2>8 DEF HoldsFile, OpenFile
    <3> QED BY <3>4, <3>5
  <2>9. HoldsKept'
    <3>1. SUFFICES ASSUME NEW d \in Clients, Runs(d, "opened")', alone'[d]
                   PROVE  file' = <<>> /\ EndsWith(mem[d], Push(kept, Whole(hint[d])))'
      BY DEF HoldsKept
    <3>2. d = c
      BY <2>3, <2>5, <2>6, <3>1
    <3>3. EndsWith(mem[c], Push(kept, Whole(hint[c])))'
      BY <2>3, <2>8, <3>1, <3>2 DEF EndsWith, Push, Whole
    <3> QED BY <2>3, <3>2, <3>3
  <2>10. LoneSavesStay'
    BY <2>2 DEF LoneSavesStay
  <2> QED BY <2>2, <2>4, <2>7, <2>9, <2>10 DEF SavesInv
<1>10. ASSUME NEW c \in Clients, CloseFile(c)
       PROVE  InQueue' /\ IdleAtStart' /\ SavesInv'
  <2>1. c \in Saving
    BY <1>10 DEF CloseFile, Saving
  <2>2. /\ InQueue' /\ IdleAtStart'
        /\ Saving' = Saving \ {c}
        /\ \A d \in Clients \ {c} : /\ Runs(d, "changed")' <=> Runs(d, "changed")
                                   /\ Runs(d, "opened")' <=> Runs(d, "opened")
        /\ ~Runs(c, "opened")' /\ ~Runs(c, "changed")'
    BY <1>7, <1>10, <2>1 DEF CloseFile, Pcs
  <2>3. /\ alone' = [alone EXCEPT ![c] = FALSE]
        /\ mem' = [mem EXCEPT ![c] = <<>>]
        /\ hint' = [hint EXCEPT ![c] = Blank]
        /\ file' = Overwritten(file, mem[c])
        /\ kept' = IF alone[c] THEN Push(kept, Whole(hint[c])) ELSE <<>>
    BY <1>10 DEF CloseFile
  <2>4. \A d \in Clients \ {c} : /\ alone'[d] = alone[d] /\ mem'[d] = mem[d]
                               /\ hint'[d] = hint[d]
    BY <2>3 DEF TypeOK
  <2>5. AloneIsAlone'
    BY <2>2, <2>4 DEF AloneIsAlone, Saving
  \* Nobody else can be alone: this one has been saving all the time.
  <2>6. \A d \in Clients \ {c} : d \in Saving => ~alone'[d]
    BY <2>1, <2>4 DEF AloneIsAlone
  <2>7. \A d \in Clients : Runs(d, "changed")' \/ Runs(d, "opened")'
                           => d # c /\ d \in Saving
    BY <2>2 DEF Saving
  <2>8. HoldsFile' /\ HoldsKept'
    BY <2>6, <2>7 DEF HoldsFile, HoldsKept
  <2>9. LoneSavesStay'
    <3>1. CASE alone[c]
      <4>1. file = <<>> /\ EndsWith(mem[c], Push(kept, Whole(hint[c])))
        BY <1>10, <3>1 DEF CloseFile, HoldsKept
      <4>2. file' = mem[c] /\ kept' = Push(kept, Whole(hint[c]))
        BY <2>3, <3>1, <4>1, OverwriteEmpty
      <4> QED BY <4>1, <4>2 DEF LoneSavesStay, EndsWith
    <3>2. CASE ~alone[c]
      <4>1. kept' = <<>> /\ file' \in Seq(Entry)
        BY <1>0, <2>3, <3>2 DEF TypeOK
      <4> QED BY <4>1 DEF LoneSavesStay, EndsWith
    <3> QED BY <3>1, <3>2
  <2> QED BY <2>2, <2>5, <2>8, <2>9 DEF SavesInv
<1>11. CASE StopAll
  <2>1. /\ pc' = [c \in Clients |-> "output"] /\ backlog' = <<>> /\ file' = file
        /\ kept' = IF \E c \in Clients : Runs(c, "opened") THEN <<>> ELSE kept
    BY <1>11 DEF StopAll, Stop
  <2>2. InQueue' /\ IdleAtStart'
    BY <2>1 DEF InQueue, IdleAtStart
  <2>3. \A c \in Clients : ~Runs(c, "changed")' /\ ~Runs(c, "opened")'
    BY <2>1 DEF Runs
  <2>4. Saving' = {}
    BY <2>3 DEF Saving
  <2>5. LoneSavesStay'
    <3>1. CASE \E c \in Clients : Runs(c, "opened")
      <4>1. kept' = <<>> /\ file' \in Seq(Entry)
        BY <1>0, <2>1, <3>1 DEF TypeOK
      <4> QED BY <4>1 DEF LoneSavesStay, EndsWith
    <3>2. CASE \A c \in Clients : ~Runs(c, "opened")
      BY <2>1, <3>2 DEF LoneSavesStay, EndsWith
    <3> QED BY <3>1, <3>2
  <2> QED BY <2>2, <2>3, <2>4, <2>5 DEF SavesInv, AloneIsAlone, HoldsFile, HoldsKept
<1>12. CASE UNCHANGED vars
  BY <1>12, Elsewhere
     DEF vars, serverVars, childVars, clientVars, fileVars, Runs, InQueue, IdleAtStart
<1> QED
  BY <1>1, <1>3, <1>4, <1>5, <1>6, <1>7, <1>8, <1>9, <1>10,
     <1>11, <1>12
     DEF PolsysNext, Child, Quit, SendFails, ReceiveFails, Runs
-----------------------------------------------------------------------------
(***************************************************************************)
(* The inductive invariant holds.                                          *)
(***************************************************************************)
THEOREM Invariance == PolsysSpec => []IInv
<1>1. PolsysInit => IInv
  BY InitIInv
<1>2. IInv /\ [PolsysNext]_vars => IInv'
  BY TypeStep, SavesStep DEF IInv, SavesInv
<1> QED BY <1>1, <1>2, PTL DEF PolsysSpec

(***************************************************************************)
(* Every variable of polsys.pl keeps its type.                             *)
(***************************************************************************)
THEOREM TypeCorrect == PolsysSpec => []TypeOK
<1>1. IInv => TypeOK
  BY DEF IInv
<1> QED BY <1>1, Invariance, PTL

(***************************************************************************)
(* Hints that are saved one at a time stay the newest of polsys.txt, for   *)
(* any number of clients, whatever races and stops have done before        *)
(* (polsys.pl:55-75).                                                      *)
(***************************************************************************)
THEOREM SavedAloneStays == PolsysSpec => []LoneSavesStay
<1>1. IInv => LoneSavesStay
  BY DEF IInv
<1> QED BY <1>1, Invariance, PTL
-----------------------------------------------------------------------------
(***************************************************************************)
(* The accept loop: no child that has ended is overlooked.                 *)
(***************************************************************************)
LoopInv == conn \in [Clients -> Stages] /\ ZombieIsAnnounced

\* A step after which there are no more zombies than before, that leaves the
\* signal and the handler alone.
LEMMA NoNewZombie ==
  ASSUME ZombieIsAnnounced, In("zombie")' \subseteq In("zombie"),
         pending' = pending, parent' = parent
  PROVE  ZombieIsAnnounced'
BY DEF ZombieIsAnnounced

LEMMA LoopStep ==
  ASSUME LoopInv, [Next]_serverVars
  PROVE  LoopInv'
<1> USE DEF LoopInv, Stages
<1>1. ASSUME NEW c \in Clients, Connect(c) \/ Fork(c) \/ ForkFails(c) \/ WaitPid(c)
      PROVE  LoopInv'
  BY <1>1, NoNewZombie DEF Connect, Fork, ForkFails, WaitPid, In
<1>2. CASE Accept
  BY <1>2, NoNewZombie DEF Accept, In
<1>3. ASSUME NEW c \in Clients, Ends(c)
      PROVE  LoopInv'
  BY <1>3 DEF Ends, ZombieIsAnnounced
<1>4. CASE Reaper
  <2>1. conn' \in [Clients -> Stages]
    BY <1>4 DEF Reaper, AfterWaitPid, In
  <2>2. ReapsUntilNone => parent' = "reap"
    BY <1>4 DEF Reaper
  <2> QED BY <2>1, <2>2 DEF ZombieIsAnnounced
<1>5. CASE ReaperReturns
  BY <1>5 DEF ReaperReturns, NoChild, In, ZombieIsAnnounced
<1>6. CASE Start \/ UNCHANGED serverVars
  BY <1>6 DEF Start, serverVars, In, ZombieIsAnnounced
<1>7. CASE Stop
  BY <1>7 DEF Stop, In, ZombieIsAnnounced
<1> QED BY <1>1, <1>2, <1>3, <1>4, <1>5, <1>6, <1>7
        DEF Next, ServerStep, ParentStep

LEMMA LoopInit == ServerInit => LoopInv
BY DEF ServerInit, LoopInv, Stages, In, ZombieIsAnnounced

LEMMA DiaryStep ==
  ASSUME DiaryNext
  PROVE  [Next]_serverVars
<1>1. ASSUME NEW c \in Talkers, Recv(c)
      PROVE  Ends(c) \/ UNCHANGED serverVars
  BY <1>1, Zenon DEF Recv, HangUp
<1>2. Talkers \subseteq Clients
  BY DiaryAssumption
<1> QED BY <1>1, <1>2 DEF DiaryNext, Next, HangUp, Send

(***************************************************************************)
(* The parent and the children of diary.pl, whatever is said in their      *)
(* conversations (diary.pl:133-163), are an accept loop.                   *)
(***************************************************************************)
THEOREM DiaryIsServer == DiarySpec => Spec
<1>1. DiaryInit => Init
  BY DEF DiaryInit, Init
<1>2. [DiaryNext]_diaryVars => [Next]_serverVars
  BY DiaryStep DEF diaryVars
<1> QED BY <1>1, <1>2, PTL DEF DiarySpec, Spec

(***************************************************************************)
(* With the handler of diary.pl (diary.pl:31-34) no child that has ended   *)
(* is overlooked, whatever signals have become one.                        *)
(***************************************************************************)
THEOREM NoneOverlooked == DiarySpec => []ZombieIsAnnounced
<1>1. Init => LoopInv
  BY LoopInit DEF Init
<1>2. LoopInv /\ [Next]_serverVars => LoopInv'
  BY LoopStep
<1>3. LoopInv => ZombieIsAnnounced
  BY DEF LoopInv
<1> QED BY <1>1, <1>2, <1>3, DiaryIsServer, PTL DEF Spec

-----------------------------------------------------------------------------
(***************************************************************************)
(* The conversations of diary.pl: what client and child think of the       *)
(* challenge agrees, a client knows only answers of challenges that have   *)
(* been drawn, and of the present one only when it has been told it; and   *)
(* the draws that the lines in the socket can still cause stay within      *)
(* MaxDraws.                                                               *)
(***************************************************************************)
Agreed(s) == /\ s.told # None => s.told = s.challenge
             /\ s.challenge \in s.known => s.told = s.challenge
             /\ s.known \subseteq 0 .. s.challenge

Known(s) == \A i \in 1 .. Len(s.inbox) : s.inbox[i].arg \in {None, Other} \cup s.known

Talks(s) == /\ s \in Session
            /\ Agreed(s)
            /\ Known(s)
            /\ s.challenge + Pending(s) <= MaxDraws

TalkInv == ServerTypeOK /\ DOMAIN sess = Talkers /\ \A c \in Talkers : Talks(sess[c])

Draws == {"CHALLENGE", "RESPONSE"}

Asking(q) == {i \in 1 .. Len(q) : q[i].cmd \in Draws}

LEMMA Buffers ==
  ASSUME NEW q
  PROVE  q \in Inboxes <=> q \in Seq(Commands) /\ Len(q) <= MaxBuffered
<1>1. MaxBuffered \in Nat
  BY DiaryAssumption
<1>2. ASSUME q \in Seq(Commands), Len(q) <= MaxBuffered
      PROVE  \E k \in 0 .. MaxBuffered : q \in [1 .. k -> Commands]
  BY <1>1, <1>2
<1>3. ASSUME NEW k \in 0 .. MaxBuffered, q \in [1 .. k -> Commands]
      PROVE  q \in Seq(Commands) /\ Len(q) <= MaxBuffered
  BY <1>1, <1>3
<1> QED BY <1>2, <1>3 DEF Inboxes

LEMMA PendingCounts ==
  ASSUME NEW s, s.inbox \in Seq(Commands)
  PROVE  /\ IsFiniteSet(Asking(s.inbox))
         /\ Pending(s) = Cardinality(Asking(s.inbox))
         /\ Pending(s) \in Nat
<1>1. DOMAIN s.inbox = 1 .. Len(s.inbox) /\ Len(s.inbox) \in Nat
  OBVIOUS
<1>2. IsFiniteSet(1 .. Len(s.inbox))
  BY <1>1, FS_Interval
<1>3. IsFiniteSet(Asking(s.inbox))
  BY <1>2, FS_Subset DEF Asking
<1>4. Pending(s) = Cardinality(Asking(s.inbox))
  BY <1>1 DEF Pending, Asking, Draws
<1> QED BY <1>3, <1>4, FS_CardinalityType

LEMMA PendingSent ==
  ASSUME NEW s, NEW t, NEW line \in Commands,
         s.inbox \in Seq(Commands), t.inbox = Append(s.inbox, line)
  PROVE  Pending(t) <= Pending(s) + IF line.cmd \in Draws THEN 1 ELSE 0
<1> DEFINE n == Len(t.inbox)
<1>1. t.inbox \in Seq(Commands) /\ n = Len(s.inbox) + 1
  OBVIOUS
<1>2. Asking(t.inbox) = IF line.cmd \in Draws THEN Asking(s.inbox) \cup {n}
                        ELSE Asking(s.inbox)
  BY <1>1 DEF Asking
<1>3. n \notin Asking(s.inbox)
  <2>1. Len(s.inbox) \in Nat /\ n \notin 1 .. Len(s.inbox)
    BY <1>1
  <2> QED BY <2>1 DEF Asking
<1>4. /\ IsFiniteSet(Asking(s.inbox)) /\ Pending(s) = Cardinality(Asking(s.inbox))
      /\ Pending(s) \in Nat /\ Pending(t) = Cardinality(Asking(t.inbox))
  BY <1>1, PendingCounts
<1>5. Cardinality(Asking(s.inbox) \cup {n}) = Cardinality(Asking(s.inbox)) + 1
  BY <1>3, <1>4, FS_AddElement
<1> HIDE DEF n
<1> QED BY <1>2, <1>4, <1>5

\* A number of lines from the front of the buffer is taken.
LEMMA PendingTaken ==
  ASSUME NEW s, NEW t, NEW k \in 1 .. Len(s.inbox),
         s.inbox \in Seq(Commands), t.inbox = SubSeq(s.inbox, k + 1, Len(s.inbox))
  PROVE  Pending(t) + (IF s.inbox[1].cmd \in Draws THEN 1 ELSE 0) <= Pending(s)
<1> DEFINE shift == [i \in Asking(t.inbox) |-> i + k]
           rest == Asking(s.inbox) \ {1}
<1>1. /\ t.inbox \in Seq(Commands) /\ Len(t.inbox) = Len(s.inbox) - k
      /\ \A i \in 1 .. Len(t.inbox) : t.inbox[i] = s.inbox[i + k]
      /\ Len(s.inbox) \in Nat
  OBVIOUS
<1>2. shift \in Injection(Asking(t.inbox), rest)
  <2>1. ASSUME NEW i \in Asking(t.inbox)
        PROVE  i \in Nat /\ i >= 1 /\ shift[i] = i + k /\ i + k \in rest
    <3>1. i \in 1 .. Len(t.inbox) /\ t.inbox[i].cmd \in Draws
      BY DEF Asking
    <3>2. i + k \in 1 .. Len(s.inbox) /\ i + k # 1 /\ s.inbox[i + k].cmd \in Draws
      BY <1>1, <3>1
    <3>3. i + k \in rest
      BY <3>2 DEF Asking
    <3> QED BY <3>1, <3>3
  <2>2. \A i, j \in Asking(t.inbox) : shift[i] = shift[j] => i = j
    BY <2>1
  <2>3. shift \in [Asking(t.inbox) -> rest]
    BY <2>1
  <2> HIDE DEF shift, rest
  <2> QED BY <2>2, <2>3 DEF Injection, IsInjective
<1>3. /\ IsFiniteSet(rest)
      /\ Cardinality(rest) + (IF s.inbox[1].cmd \in Draws THEN 1 ELSE 0) = Pending(s)
  <2>0. 1 \in 1 .. Len(s.inbox)
    BY <1>1
  <2>1. 1 \in Asking(s.inbox) <=> s.inbox[1].cmd \in Draws
    BY <2>0 DEF Asking
  <2>2. /\ IsFiniteSet(Asking(s.inbox)) /\ Pending(s) = Cardinality(Asking(s.inbox))
        /\ Pending(s) \in Nat
    BY PendingCounts
  <2>3. /\ IsFiniteSet(rest)
        /\ Cardinality(rest) = IF 1 \in Asking(s.inbox) THEN Cardinality(Asking(s.inbox)) - 1
                               ELSE Cardinality(Asking(s.inbox))
    BY <2>2, FS_RemoveElement
  <2> QED BY <2>1, <2>2, <2>3
<1>4. Cardinality(Asking(t.inbox)) <= Cardinality(rest)
  BY <1>2, <1>3, FS_Injection
<1>5. Cardinality(rest) \in Nat /\ Pending(t) = Cardinality(Asking(t.inbox)) /\ Pending(t) \in Nat
  BY <1>1, <1>3, PendingCounts, FS_CardinalityType
<1> QED BY <1>3, <1>4, <1>5

\* The handlers of CHALLENGE, RESPONSE and of all other commands.
LEMMA HandlerTalks ==
  ASSUME NEW s, NEW line, Talks(s), NEW arg,
         line.arg = arg, arg \in {None, Other} \cup s.known,
         s.challenge + Pending(s) + (IF line.cmd \in Draws THEN 1 ELSE 0) <= MaxDraws
  PROVE  Talks(AfterLine(s, line))
<1> DEFINE t == AfterLine(s, line)
           n == s.challenge + 1
<1>1. s \in Session /\ s.challenge \in Nat /\ MaxDraws \in Nat
  BY DiaryAssumption DEF Talks, Session
<1>2. s.inbox \in Seq(Commands)
  BY <1>1, Buffers DEF Session
<1>3. Pending(s) \in Nat
  BY <1>2, PendingCounts
<1>0. Agreed(s) /\ Known(s)
  BY DEF Talks
<1>4. CASE line.cmd \in Draws
  <2>1. n \in 0 .. MaxDraws /\ s.challenge \in 0 .. MaxDraws
    BY <1>1, <1>3, <1>4
  <2>2. /\ t \in Session /\ Agreed(t) /\ t.inbox = s.inbox
        /\ s.known \subseteq t.known /\ t.challenge \in {s.challenge, n}
    <3>1. CASE line.cmd = "CHALLENGE"
      <4> DEFINE more == s.known \cup {n}
      <4>1. t = [s EXCEPT !.challenge = n, !.told = n, !.known = more]
        BY <1>1, <3>1 DEF AfterLine, Challenge, Draw, Session
      <4>2. more \in SUBSET (0 .. MaxDraws) /\ n \in -1 .. MaxDraws
        BY <1>1, <2>1 DEF Session
      <4>3. s.known \subseteq more /\ more \subseteq 0 .. n
        BY <1>0, <1>1 DEF Agreed
      <4> HIDE DEF t, more, n
      <4>4. t \in Session
        BY <1>1, <2>1, <4>1, <4>2 DEF Session
      <4>5. t.challenge = n /\ t.told = n /\ t.known = more /\ t.inbox = s.inbox
        BY <1>1, <4>1 DEF Session
      <4> QED BY <4>3, <4>4, <4>5 DEF Agreed
    <3>2. CASE line.cmd = "RESPONSE" /\ arg = None
      <4>1. t = s
        BY <3>2 DEF AfterLine, Response
      <4> QED BY <1>0, <1>1, <4>1
    <3>3. CASE line.cmd = "RESPONSE" /\ arg # None
      <4> DEFINE b == s.authed \/ arg = s.challenge
                 more == s.known \cup {s.challenge}
      <4>0. b \in BOOLEAN
        BY Zenon
      <4>1. t = [s EXCEPT !.authed = b, !.told = None, !.known = more, !.challenge = n]
        BY <1>1, <3>3 DEF AfterLine, Response, Draw, Session
      <4>2. more \in SUBSET (0 .. MaxDraws) /\ None \in -1 .. MaxDraws
        BY <1>1, <2>1 DEF Session, None
      <4>3. s.known \subseteq more /\ more \subseteq 0 .. n /\ n \notin more
        BY <1>0, <1>1 DEF Agreed
      <4> HIDE DEF b, t, more, n
      <4>4. t \in Session
        BY <1>1, <2>1, <4>0, <4>1, <4>2 DEF Session
      <4>5. t.challenge = n /\ t.told = None /\ t.known = more /\ t.inbox = s.inbox
        BY <1>1, <4>1 DEF Session
      <4> QED BY <4>3, <4>4, <4>5 DEF Agreed
    <3> QED BY <1>4, <3>1, <3>2, <3>3 DEF Draws
  <2>3. Pending(t) = Pending(s)
    BY <2>2 DEF Pending
  <2> HIDE DEF t
  <2>4. n + Pending(s) <= MaxDraws
    BY <1>1, <1>3, <1>4
  <2>5. t.challenge + Pending(t) <= MaxDraws
    BY <1>1, <1>3, <2>2, <2>3, <2>4
  <2>6. Known(t)
    BY <1>0, <2>2 DEF Known
  <2>7. Talks(t)
    BY <2>2, <2>5, <2>6 DEF Talks
  <2> QED BY <2>7 DEF t
<1>5. CASE line.cmd \notin Draws
  BY <1>5 DEF AfterLine, Draws
<1> QED BY <1>4, <1>5

\* The child takes k lines: what it makes of them is known to the client, and
\* is a RESPONSE or a CHALLENGE only if the first line is one.
LEMMA TakenLine ==
  ASSUME NEW s, Talks(s), NEW k \in DOMAIN s.inbox
  PROVE  /\ s.inbox \in Seq(Commands) /\ k \in 1 .. Len(s.inbox) /\ s.inbox[1] \in Commands
         /\ AsOne(s.inbox, k).arg \in {None, Other} \cup s.known
         /\ AsOne(s.inbox, k).cmd \in Draws => s.inbox[1].cmd \in Draws
         /\ k = 1 => AsOne(s.inbox, k) = s.inbox[1]
<1>1. s.inbox \in Seq(Commands)
  BY Buffers DEF Talks, Session
<1>2. k \in 1 .. Len(s.inbox) /\ Len(s.inbox) \in Nat /\ 1 \in 1 .. Len(s.inbox)
  BY <1>1
<1>3. s.inbox[1] \in Commands /\ Head(s.inbox) = s.inbox[1]
  BY <1>1, <1>2
<1>4. s.inbox[1].arg \in {None, Other} \cup s.known
  BY <1>2 DEF Talks, Known
<1> DEFINE line == Head(s.inbox)
           words == {i \in 1 .. k : s.inbox[i].cmd # "blank"}
           one == AsOne(s.inbox, k)
<1>5. line \in Commands /\ line = s.inbox[1] /\ line = [cmd |-> line.cmd, arg |-> line.arg]
  BY <1>3 DEF Commands
<1>6. CASE words \subseteq {1}
  <2>1. one = line
    BY <1>6 DEF AsOne
  <2> QED BY <1>1, <1>2, <1>3, <1>4, <2>1
<1>7. CASE words # {} /\ 1 \notin words
  <2>1. one = [cmd |-> "one", arg |-> None]
    BY <1>7 DEF AsOne
  <2>2. k # 1
    BY <1>7
  <2> HIDE DEF one
  <2> QED BY <1>1, <1>2, <1>3, <2>1, <2>2 DEF one, Draws
<1>8. CASE 1 \in words /\ ~(words \subseteq {1})
  <2>1. one = [line EXCEPT !.arg = IF @ = None THEN Other ELSE @]
    BY <1>8 DEF AsOne
  <2>2. one.cmd = line.cmd /\ one.arg = IF line.arg = None THEN Other ELSE line.arg
    BY <1>5, <2>1
  <2>3. k # 1
    BY <1>8
  <2> HIDE DEF one, line, words
  <2> QED BY <1>1, <1>2, <1>3, <1>4, <1>5, <2>2, <2>3 DEF one
<1> QED BY <1>6, <1>7, <1>8

LEMMA FreshTalks == Talks(Fresh)
<1> DEFINE s == [authed |-> FALSE, challenge |-> 0, told |-> None, known |-> {},
                 inbox |-> <<>>, owed |-> 0, merged |-> FALSE]
<1>1. Fresh = s
  BY DEF Fresh
<1>2. s.inbox \in Seq(Commands) /\ Asking(s.inbox) = {}
  BY DEF Asking
<1>3. Pending(s) = 0
  BY <1>2, PendingCounts, FS_EmptySet
<1>4. MaxBuffered \in Nat /\ MaxDraws \in Nat /\ <<>> \in Inboxes
  <2>1. MaxBuffered \in Nat /\ MaxDraws \in Nat
    BY DiaryAssumption
  <2>2. <<>> \in Seq(Commands) /\ Len(<<>>) = 0
    OBVIOUS
  <2>3. Len(<<>>) <= MaxBuffered
    BY <2>1, <2>2
  <2>4. <<>> \in Inboxes
    BY <2>2, <2>3, Zenon, Buffers
  <2> QED BY <2>1, <2>4
<1>5. s \in Session
  BY <1>4 DEF Session, None
<1>6. Agreed(s) /\ Known(s)
  BY DEF Agreed, Known, None
<1>7. s.challenge + Pending(s) <= MaxDraws
  BY <1>3, <1>4
<1> HIDE DEF s
<1> QED BY <1>1, <1>5, <1>6, <1>7 DEF Talks

LEMMA HangUpTalks ==
  ASSUME NEW c \in Clients, TalkInv, HangUp(c)
  PROVE  TalkInv'
<1>1. ServerTypeOK'
  BY DEF TalkInv, HangUp, ServerTypeOK, Ends, Stages
<1>2. \A d \in Talkers : Talks(sess'[d])
  BY FreshTalks DEF TalkInv, HangUp
<1> QED BY <1>1, <1>2 DEF TalkInv, HangUp

\* One turn of the loop, but QUIT: what the child has when it calls a handler.
LEMMA RecvReads ==
  ASSUME NEW c \in Talkers, TalkInv, Recv(c), ~HangUp(c)
  PROVE  \E k \in 1 .. Len(sess[c].inbox), read \in Session :
            /\ read.inbox = SubSeq(sess[c].inbox, k + 1, Len(sess[c].inbox))
            /\ read.challenge = sess[c].challenge /\ read.told = sess[c].told
            /\ read.known = sess[c].known /\ read.authed = sess[c].authed
            /\ sess' = [sess EXCEPT ![c] = AfterLine(read, AsOne(sess[c].inbox, k))]
            /\ UNCHANGED serverVars
<1> DEFINE s == sess[c]
<1>1. PICK k \in DOMAIN s.inbox :
        LET line == AsOne(s.inbox, k)
            read == [s EXCEPT !.inbox = SubSeq(@, k + 1, Len(@)),
                              !.merged = @ \/ \E i \in 2 .. k : s.inbox[i].cmd # "blank",
                              !.owed = IF @ > 0 /\ Answers(s, line) > 0 THEN @ - 1 ELSE @]
        IN  /\ sess' = [sess EXCEPT ![c] = AfterLine(read, line)]
            /\ UNCHANGED serverVars
  BY Zenon DEF Recv
<1> DEFINE line == AsOne(s.inbox, k)
           m == s.merged \/ \E i \in 2 .. k : s.inbox[i].cmd # "blank"
           left == SubSeq(s.inbox, k + 1, Len(s.inbox))
           owes == IF s.owed > 0 /\ Answers(s, line) > 0 THEN s.owed - 1 ELSE s.owed
           read == [s EXCEPT !.inbox = left, !.merged = m, !.owed = owes]
<1>2. Talks(s) /\ s \in Session /\ MaxBuffered \in Nat
  BY DiaryAssumption DEF TalkInv, Talks
<1>3. s.inbox \in Seq(Commands) /\ Len(s.inbox) <= MaxBuffered /\ s.owed \in 0 .. MaxBuffered
  BY <1>2, Buffers DEF Session
<1>4. k \in 1 .. Len(s.inbox)
  BY <1>3
<1>5. left \in Inboxes /\ m \in BOOLEAN /\ owes \in 0 .. MaxBuffered
  <2>1. left \in Seq(Commands) /\ Len(left) <= MaxBuffered
    BY <1>2, <1>3, <1>4
  <2>2. left \in Inboxes
    BY <2>1, Buffers
  <2>3. m \in BOOLEAN
    BY Zenon
  <2>4. owes \in 0 .. MaxBuffered
    BY <1>2, <1>3
  <2> QED BY <2>2, <2>3, <2>4
<1>6. sess' = [sess EXCEPT ![c] = AfterLine(read, line)] /\ UNCHANGED serverVars
  BY <1>1, <1>2 DEF Session
<1> HIDE DEF line, left, m, owes
<1>7. /\ read \in Session /\ read.inbox = left /\ read.challenge = s.challenge
      /\ read.told = s.told /\ read.known = s.known /\ read.authed = s.authed
  BY <1>2, <1>5 DEF Session
<1> HIDE DEF read
<1> QED BY <1>4, <1>6, <1>7 DEF line, left

LEMMA RecvTalks ==
  ASSUME NEW c \in Talkers, TalkInv, Recv(c), ~HangUp(c)
  PROVE  TalkInv'
<1> DEFINE s == sess[c]
           q == s.inbox
<1>1. PICK k \in 1 .. Len(q), read \in Session :
            /\ read.inbox = SubSeq(q, k + 1, Len(q))
            /\ read.challenge = s.challenge /\ read.told = s.told
            /\ read.known = s.known /\ read.authed = s.authed
            /\ sess' = [sess EXCEPT ![c] = AfterLine(read, AsOne(q, k))]
            /\ UNCHANGED serverVars
  BY RecvReads
<1> DEFINE line == AsOne(q, k)
<1>2. Talks(s) /\ s \in Session /\ MaxDraws \in Nat
  BY DiaryAssumption DEF TalkInv, Talks
<1>3. q \in Seq(Commands)
  BY <1>2, Buffers DEF Session
<1>4. /\ line.arg \in {None, Other} \cup s.known
      /\ line.cmd \in Draws => q[1].cmd \in Draws
  BY <1>2, <1>3, TakenLine
<1>5. Pending(read) + (IF q[1].cmd \in Draws THEN 1 ELSE 0) <= Pending(s)
  BY <1>1, <1>3, PendingTaken
<1> HIDE DEF q
<1>6. /\ SubSeq(q, k + 1, Len(q)) \in Seq(Commands)
      /\ Len(SubSeq(q, k + 1, Len(q))) = Len(q) - k
      /\ \A i \in 1 .. Len(q) - k : /\ SubSeq(q, k + 1, Len(q))[i] = q[i + k]
                                    /\ i + k \in 1 .. Len(q)
  BY <1>1, <1>3
<1>7. Pending(s) \in Nat /\ Pending(read) \in Nat
  BY <1>1, <1>3, <1>6, PendingCounts DEF q
<1> HIDE DEF line
<1>8. s.challenge \in Nat /\ s.challenge + Pending(s) <= MaxDraws
  BY <1>2 DEF Talks, Session
<1>9. read.challenge + Pending(read) + (IF line.cmd \in Draws THEN 1 ELSE 0) <= MaxDraws
  BY <1>1, <1>2, <1>4, <1>5, <1>7, <1>8
<1>10. Agreed(read)
  BY <1>1, <1>2 DEF Talks, Agreed
<1>11. Known(read)
  <2>1. Known(s)
    BY <1>2 DEF Talks
  <2> QED BY <1>1, <1>6, <2>1 DEF Known, q
<1>12. Talks(read)
  <2>1. read.challenge + Pending(read) <= MaxDraws
    BY <1>1, <1>2, <1>7, <1>8, <1>9
  <2> QED BY <1>10, <1>11, <2>1 DEF Talks
<1>13. Talks(AfterLine(read, line))
  BY <1>1, <1>4, <1>9, <1>12, HandlerTalks
<1>14. sess' = [sess EXCEPT ![c] = AfterLine(read, line)]
  BY <1>1 DEF line
<1>15. ServerTypeOK'
  BY <1>1 DEF TalkInv, ServerTypeOK, serverVars
<1> QED BY <1>13, <1>14, <1>15 DEF TalkInv

LEMMA SendTalks ==
  ASSUME NEW c \in Talkers, NEW line \in Commands, TalkInv, Send(c, line)
  PROVE  TalkInv'
<1> DEFINE s == sess[c]
           t == [s EXCEPT !.inbox = Append(@, line),
                          !.owed = IF line.cmd = "blank" THEN @ ELSE @ + 1]
           more == Append(s.inbox, line)
<1>1. sess' = [sess EXCEPT ![c] = t]
  BY DEF Send
<1>2. Talks(s) /\ s \in Session /\ MaxBuffered \in Nat /\ MaxDraws \in Nat
  BY DiaryAssumption DEF TalkInv, Talks
<1>3. s.inbox \in Seq(Commands) /\ Len(s.inbox) < MaxBuffered /\ s.owed \in 0 .. MaxBuffered
      /\ s.owed < MaxBuffered
  BY <1>2, Buffers DEF Session, Send
<1>4. more \in Seq(Commands) /\ Len(more) <= MaxBuffered
  BY <1>2, <1>3
<1>5. more \in Inboxes
  BY <1>4, Buffers
<1>6. /\ t \in Session /\ t.inbox = more /\ t.challenge = s.challenge
      /\ t.told = s.told /\ t.known = s.known
  <2>1. (IF line.cmd = "blank" THEN s.owed ELSE s.owed + 1) \in 0 .. MaxBuffered
    BY <1>2, <1>3
  <2> HIDE DEF more
  <2>2. t = [s EXCEPT !.inbox = more, !.owed = IF line.cmd = "blank" THEN @ ELSE @ + 1]
    BY <1>2 DEF Session, more
  <2> HIDE DEF t
  <2> QED BY <1>2, <1>5, <2>1, <2>2 DEF Session
<1>7. Pending(t) <= Pending(s) + IF line.cmd \in Draws THEN 1 ELSE 0
  BY <1>3, <1>6, PendingSent
<1>8. Pending(s) \in Nat /\ Pending(t) \in Nat
  BY <1>3, <1>4, <1>6, PendingCounts
<1> HIDE DEF t, more
<1>9. line.cmd \in Draws => s.challenge + Pending(s) < MaxDraws
  BY DEF Send, Draws
<1>12. Agreed(t) /\ Known(t)
  <2>1. Agreed(t)
    BY <1>2, <1>6 DEF Talks, Agreed
  <2>2. line.arg \in {None, Other} \cup s.known
    BY DEF Send
  <2>3. ASSUME NEW i \in 1 .. Len(more)
        PROVE  (i \in 1 .. Len(s.inbox) /\ more[i] = s.inbox[i]) \/ more[i] = line
    <3> DEFINE q == s.inbox
    <3>1. q \in Seq(Commands) /\ Len(more) = Len(q) + 1 /\ more = Append(q, line)
      BY <1>3 DEF more
    <3> HIDE DEF q
    <3> QED BY <3>1 DEF q
  <2>4. Known(s)
    BY <1>2 DEF Talks
  <2> QED BY <1>6, <2>1, <2>2, <2>3, <2>4 DEF Known
<1>10. Talks(t)
  <2>1. s.challenge \in Nat /\ s.challenge + Pending(s) <= MaxDraws
    BY <1>2 DEF Talks, Session
  <2>2. t.challenge + Pending(t) <= MaxDraws
    BY <1>2, <1>6, <1>7, <1>8, <1>9, <2>1
  <2> QED BY <1>6, <1>12, <2>2 DEF Talks
<1>11. ServerTypeOK'
  BY DEF TalkInv, ServerTypeOK, serverVars, Send
<1> QED BY <1>1, <1>10, <1>11 DEF TalkInv

LEMMA TalkStep ==
  ASSUME TalkInv, [DiaryNext]_diaryVars
  PROVE  TalkInv'
<1>1. CASE ServerStep /\ UNCHANGED sess
  BY <1>1, ServerType DEF TalkInv
<1>2. CASE Stop /\ sess' = [c \in Talkers |-> Fresh]
  <2>1. conn' \in [Clients -> Stages]
    BY <1>2 DEF TalkInv, Stop, ServerTypeOK, Stages
  <2>2. ServerTypeOK'
    <3>1. backlog' \in Seq(Clients) /\ parent' \in {"down", "loop", "reap"}
      BY <1>2 DEF Stop
    <3>2. pending' \in BOOLEAN
      BY <1>2, Zenon DEF Stop
    <3> QED BY <2>1, <3>1, <3>2 DEF ServerTypeOK
  <2>3. \A c \in Talkers : Talks(sess'[c])
    BY <1>2, FreshTalks
  <2> QED BY <1>2, <2>2, <2>3 DEF TalkInv
<1>3. ASSUME NEW c \in Clients, HangUp(c)
      PROVE  TalkInv'
  BY <1>3, HangUpTalks
<1>4. CASE UNCHANGED diaryVars
  BY <1>4 DEF TalkInv, diaryVars, serverVars, ServerTypeOK
<1>5. ASSUME NEW c \in Talkers, Recv(c)
      PROVE  TalkInv'
  BY <1>3, <1>5, RecvTalks, DiaryAssumption
<1> QED BY <1>1, <1>2, <1>3, <1>4, <1>5, SendTalks DEF DiaryNext

LEMMA TalkInit ==
  ASSUME DiaryInit
  PROVE  TalkInv
<1>1. pending \in BOOLEAN
  BY Zenon DEF DiaryInit, ServerInit
<1>2. ServerTypeOK
  BY <1>1 DEF DiaryInit, ServerInit, ServerTypeOK, Stages
<1> QED BY <1>2, FreshTalks DEF TalkInv, DiaryInit

\* Only a RESPONSE lets somebody in, and only with the present challenge.
LEMMA HandlerAdmits ==
  ASSUME NEW s \in Session, NEW line,
         line.arg \in {None, Other} \cup s.known, Agreed(s)
  PROVE  /\ AfterLine(s, line).inbox = s.inbox
         /\ ~s.authed /\ AfterLine(s, line).authed => s.told = s.challenge
         /\ s.told # None /\ line = [cmd |-> "RESPONSE", arg |-> s.told]
               => AfterLine(s, line).authed
<1> DEFINE t == AfterLine(s, line)
<1>1. s.challenge \in Nat
  BY DiaryAssumption DEF Session
<1>2. CASE line.cmd = "RESPONSE" /\ line.arg # None
  <2> DEFINE b == s.authed \/ line.arg = s.challenge
  <2>1. t.authed = b /\ t.inbox = s.inbox
    BY <1>2 DEF AfterLine, Response, Draw, Session
  <2> HIDE DEF t
  <2>2. line.arg = s.challenge => line.arg \in s.known
    BY <1>1 DEF None, Other
  <2>3. s.told # None /\ line.arg = s.told => line.arg = s.challenge
    BY DEF Agreed
  <2>4. ~s.authed /\ t.authed => s.told = s.challenge
    BY <2>1, <2>2 DEF Agreed
  <2>5. s.told # None /\ line = [cmd |-> "RESPONSE", arg |-> s.told] => t.authed
    <3>1. line = [cmd |-> "RESPONSE", arg |-> s.told] => line.arg = s.told
      OBVIOUS
    <3> QED BY <2>1, <2>3, <3>1
  <2> QED BY <2>1, <2>4, <2>5 DEF t
<1>3. CASE line.cmd = "RESPONSE" /\ line.arg = None
  <2>1. t = s
    BY <1>3 DEF AfterLine, Response
  <2> QED BY <1>3, <2>1
<1>4. CASE line.cmd = "CHALLENGE"
  <2>1. t.authed = s.authed /\ t.inbox = s.inbox
    BY <1>4 DEF AfterLine, Challenge, Draw, Session
  <2> QED BY <1>4, <2>1
<1>5. CASE line.cmd \notin Draws
  <2>1. t = s
    BY <1>5 DEF AfterLine, Draws
  <2> QED BY <1>5, <2>1 DEF Draws
<1> QED BY <1>2, <1>3, <1>4, <1>5 DEF Draws

\* The client reads and sends in order.
LEMMA AdmissionStep ==
  ASSUME TalkInv, [DiaryNext]_diaryVars
  PROVE  Admission \/ UNCHANGED diaryVars
<1> SUFFICES ASSUME NEW c \in Talkers, ~UNCHANGED diaryVars
             PROVE  /\ ~sess[c].authed /\ sess'[c].authed => sess[c].told = sess[c].challenge
                    /\ /\ sess[c].told # None
                       /\ sess[c].inbox # <<>>
                       /\ Head(sess[c].inbox) = [cmd |-> "RESPONSE", arg |-> sess[c].told]
                       /\ sess'[c].inbox = Tail(sess[c].inbox) /\ conn'[c] = "served"
                       => sess'[c].authed
  BY DEF Admission
<1> DEFINE s == sess[c]
           t == sess'[c]
<1>1. Talks(s) /\ s \in Session /\ s.inbox \in Seq(Commands) /\ Agreed(s)
  BY Buffers DEF TalkInv, Talks, Session
<1>2. s.inbox # <<>> => /\ Len(s.inbox) \in Nat /\ Head(s.inbox) = s.inbox[1]
                        /\ Len(Tail(s.inbox)) = Len(s.inbox) - 1
  <2> DEFINE q == s.inbox
  <2>1. q \in Seq(Commands)
    BY <1>1
  <2> HIDE DEF q
  <2>2. q # <<>> => Len(q) \in Nat /\ Head(q) = q[1] /\ Len(Tail(q)) = Len(q) - 1
    BY <2>1
  <2> QED BY <2>2 DEF q
\* Nothing is taken from the buffer, or the conversation is over.
<1>3. ASSUME t = s
      PROVE  /\ ~s.authed /\ t.authed => s.told = s.challenge
             /\ s.inbox # <<>> => t.inbox # Tail(s.inbox)
  <2>1. ~s.authed /\ t.authed => s.told = s.challenge
    BY <1>3
  <2> DEFINE q == s.inbox
  <2>2. t.inbox = q
    BY <1>3
  <2>3. q # <<>> => Len(q) \in Nat /\ Len(Tail(q)) = Len(q) - 1
    BY <1>2
  <2> HIDE DEF q
  <2>4. q # <<>> => t.inbox # Tail(q)
    BY <2>2, <2>3
  <2> QED BY <2>1, <2>4 DEF q
<1>4. ASSUME t = Fresh, conn'[c] # "served"
      PROVE  ~t.authed /\ conn'[c] # "served"
  BY <1>4 DEF Fresh
<1>5. CASE ServerStep /\ UNCHANGED sess
  BY <1>3, <1>5
<1>6. CASE Stop /\ sess' = [d \in Talkers |-> Fresh]
  <2>1. t = Fresh /\ conn'[c] # "served"
    BY <1>6, DiaryAssumption DEF Stop
  <2> QED BY <1>4, <2>1
<1>7. ASSUME NEW d \in Clients, HangUp(d)
      PROVE  (t = Fresh /\ conn'[c] # "served") \/ t = s
  BY <1>7, DiaryAssumption DEF HangUp, Ends, TalkInv, ServerTypeOK
<1>8. ASSUME NEW d \in Talkers, NEW line \in Commands, Send(d, line)
      PROVE  \/ t = s
             \/ t.authed = s.authed /\ t.inbox = Append(s.inbox, line)
  BY <1>1, <1>8 DEF Send, TalkInv, Session
<1>9. ASSUME NEW line \in Commands, s.inbox # <<>>
      PROVE  Append(s.inbox, line) # Tail(s.inbox)
  <2> DEFINE q == s.inbox
  <2>1. q \in Seq(Commands)
    BY <1>1
  <2> HIDE DEF q
  <2>2. Len(Append(q, line)) = Len(q) + 1 /\ Len(q) \in Nat
    BY <2>1
  <2> QED BY <1>2, <2>2 DEF q
<1>10. ASSUME NEW d \in Talkers, Recv(d), ~HangUp(d)
       PROVE  /\ ~s.authed /\ t.authed => s.told = s.challenge
              /\ s.told # None /\ s.inbox # <<>>
                 /\ Head(s.inbox) = [cmd |-> "RESPONSE", arg |-> s.told]
                 /\ t.inbox = Tail(s.inbox) => t.authed
  <2>1. CASE d # c
    <3>1. t = s
      BY <1>10, <2>1 DEF Recv, TalkInv
    <3> QED BY <1>3, <3>1
  <2>2. CASE d = c
    <3> DEFINE q == s.inbox
    <3>1. PICK k \in 1 .. Len(q), read \in Session :
                /\ read.inbox = SubSeq(q, k + 1, Len(q))
                /\ read.challenge = s.challenge /\ read.told = s.told
                /\ read.known = s.known /\ read.authed = s.authed
                /\ sess' = [sess EXCEPT ![c] = AfterLine(read, AsOne(q, k))]
                /\ UNCHANGED serverVars
      BY <1>10, <2>2, RecvReads
    <3> DEFINE line == AsOne(q, k)
    <3>2. t = AfterLine(read, line)
      BY <3>1 DEF TalkInv
    <3>3. line.arg \in {None, Other} \cup read.known /\ (k = 1 => line = q[1])
      BY <1>1, <3>1, TakenLine
    <3>4. q \in Seq(Commands)
      BY <1>1
    <3> HIDE DEF line, q
    <3>5. Agreed(read)
      BY <1>1, <3>1 DEF Agreed
    <3>6. /\ t.inbox = read.inbox
          /\ ~s.authed /\ t.authed => s.told = s.challenge
          /\ s.told # None /\ line = [cmd |-> "RESPONSE", arg |-> s.told] => t.authed
      BY <3>1, <3>2, <3>3, <3>5, HandlerAdmits
    <3>7. q # <<>> /\ t.inbox = Tail(q) => k = 1
      <4>1. Len(SubSeq(q, k + 1, Len(q))) = Len(q) - k /\ Len(q) \in Nat
        BY <3>1, <3>4
      <4>2. q # <<>> => Len(Tail(q)) = Len(q) - 1
        BY <1>2 DEF q
      <4> QED BY <3>1, <3>6, <4>1, <4>2
    <3>8. q # <<>> => Head(q) = q[1]
      BY <1>2 DEF q
    <3> QED BY <3>3, <3>6, <3>7, <3>8 DEF q
  <2> QED BY <2>1, <2>2
<1> DEFINE Goal == /\ ~s.authed /\ t.authed => s.told = s.challenge
                   /\ /\ s.told # None
                      /\ s.inbox # <<>>
                      /\ Head(s.inbox) = [cmd |-> "RESPONSE", arg |-> s.told]
                      /\ t.inbox = Tail(s.inbox) /\ conn'[c] = "served"
                      => t.authed
<1>11. ASSUME NEW d \in Clients, HangUp(d)
       PROVE  Goal
  BY <1>3, <1>4, <1>7, <1>11
<1>12. ASSUME NEW d \in Talkers, NEW line \in Commands, Send(d, line)
       PROVE  Goal
  <2>1. CASE t = s
    BY <1>3, <2>1
  <2>2. CASE t.authed = s.authed /\ t.inbox = Append(s.inbox, line)
    BY <1>9, <2>2
  <2> QED BY <1>8, <1>12, <2>1, <2>2
<1>13. ASSUME NEW d \in Talkers, Recv(d)
       PROVE  Goal
  <2>1. CASE HangUp(d)
    BY <1>11, <2>1, DiaryAssumption
  <2>2. CASE ~HangUp(d)
    BY <1>10, <1>13, <2>2
  <2> QED BY <2>1, <2>2
<1> HIDE DEF Goal
<1>14. (ServerStep /\ UNCHANGED sess) \/ (Stop /\ sess' = [d \in Talkers |-> Fresh]) => Goal
  BY <1>5, <1>6 DEF Goal
<1>15. Goal
  BY <1>11, <1>12, <1>13, <1>14 DEF DiaryNext
<1> QED BY <1>15 DEF Goal

(***************************************************************************)
(* The conversations of diary.pl keep their types; nobody is let in but by *)
(* the answer to the challenge that its child has told it last and has not *)
(* compared with a response since, and who gives that answer is let in     *)
(* (diary.pl:58-80), whatever else lies in the socket, whatever lines are  *)
(* taken for one, and whoever talks at the same time.                      *)
(***************************************************************************)
THEOREM OnlyTheLastAnswer == DiarySpec => LetIn
<1>1. DiaryInit => TalkInv
  BY TalkInit
<1>2. TalkInv /\ [DiaryNext]_diaryVars => TalkInv'
  BY TalkStep
<1>3. TalkInv => DiaryTypeOK
  BY DEF TalkInv, Talks, DiaryTypeOK
<1>4. TalkInv /\ [DiaryNext]_diaryVars => [Admission]_diaryVars
  BY AdmissionStep
<1> QED BY <1>1, <1>2, <1>3, <1>4, PTL DEF DiarySpec, LetIn
=============================================================================
