------------------------ MODULE RemoteSessionProofs ------------------------
(***************************************************************************)
(* Proofs about the sessions with a remote server, for any groups, any     *)
(* number of articles and any max-fetch.  PostedOnce and NoGroupOverlooked *)
(* need little more than themselves.  InOrder rests on what rmtNext means: *)
(* it is beyond every overview that has the server's present numbering     *)
(* (Expected), and what is still to come in an answer is beyond all that   *)
(* the group has (Answer).  That an answer belongs to the present          *)
(* numbering follows from the server's being asked in one session only     *)
(* (Sessions).  NoneLost needs to know where each article of the selected  *)
(* group is (Covering), NoticesAreTrue that rmtNext is beyond the server's *)
(* numbers only when it has begun anew (Consistent).                       *)
(***************************************************************************)
EXTENDS RemoteSession, SequenceTheorems, TLAPS

\* Whose article is where.
Outgoing == /\ PostedOnce
            /\ taken \cup queue \subseteq written
            /\ hand \notin queue
            /\ hand \in written \cup {NoPost}

\* What has been listed up to now, or is still to be read.
Lists == /\ stamp <= clock
         /\ \A x \in Groups : made[x] <= clock
         /\ asked => \A x \in Groups \ late :
                        made[x] # Never => x \in known \cup list
         /\ NoGroupOverlooked

\* Which variables a step of the plan uses.
Sessions == /\ todo # {} \/ grp # NoGroup => plan = <<"groups">>
            /\ asked => At({"newgroups", "list"})
            /\ grp = NoGroup => ~over
            /\ lines # {} => over
            /\ todo \subseteq known
            /\ grp \in known \cup {NoGroup}

\* An overview has a number of the group's present numbering.
Present(x, e) == e[1] = rmt[x].age

Expected ==
  \A x \in Groups :
     /\ rmt[x].arts \subseteq 1 .. rmt[x].last
     /\ x \notin known => shown[x] = <<>>
     /\ \A i \in DOMAIN All(x) :
           /\ All(x)[i][1] <= rmt[x].age
           /\ Present(x, All(x)[i]) => /\ All(x)[i][2] < rmtNext[x]
                                       /\ rmtNext[x] <= rmt[x].last + 1

Answer ==
  grp # NoGroup /\ connected =>
     /\ \A n \in lines : n <= rmt[grp].last
     /\ \A i \in DOMAIN All(grp) :
           Present(grp, All(grp)[i]) =>
              /\ ~over => All(grp)[i][2] < range[1]
              /\ \A n \in lines : All(grp)[i][2] < n

Order == Sessions /\ Expected /\ Answer /\ InOrder

-----------------------------------------------------------------------------
(* What the operators return *)

LEMMA AnswerRange ==
  ASSUME TypeOK, NEW x \in Groups, NEW a \in Answers(x)
  PROVE  /\ a[1] \in Nat /\ a[2] \in Nat
         /\ a = <<0, 0>> \/ a[2] = rmt[x].last
<1>1. /\ rmt[x].arts \subseteq 1 .. MaxNumb[x]
      /\ rmt[x].last \in Nat
  BY SessionAssumption DEF TypeOK, Remote, Numbers
<1>2. CASE rmt[x].arts # {}
  BY <1>1, <1>2, SessionAssumption DEF Answers, Lowest
<1>3. CASE rmt[x].arts = {}
  BY <1>1, <1>3 DEF Answers
<1> QED
  BY <1>2, <1>3

LEMMA RemoteType ==
  ASSUME NEW x \in Groups, NEW r \in Remote(x)
  PROVE  r.last \in Nat /\ r.age \in Nat
  BY SessionAssumption DEF Remote, Numbers

LEMMA RemoteTypes ==
  ASSUME TypeOK, NEW x \in Groups
  PROVE  rmt[x].last \in Nat /\ rmt[x].age \in Nat
  BY RemoteType DEF TypeOK

LEMMA NothingSelected == NoRange \in Int \X Int /\ NoNotice \in Notices
  BY DEF NoRange, NoNotice, Notices

LEMMA PlanTypes ==
  /\ <<>> \in Seq(Steps)
  /\ <<"post">> \in Seq(Steps) /\ <<"list">> \in Seq(Steps)
  /\ <<"groups">> \in Seq(Steps)
  /\ <<"post", "newgroups", "update">> \in Seq(Steps)
  BY DEF Steps

LEMMA NextStepType ==
  ASSUME plan \in Seq(Steps), NEW S, At(S), NextStep
  PROVE  plan' \in Seq(Steps) /\ connected' \in BOOLEAN
  BY HeadTailProperties DEF At, NextStep

LEMMA TimeTypes ==
  ASSUME TypeOK
  PROVE  clock \in Nat /\ stamp \in Int /\ \A x \in Groups : made[x] \in Int
  BY DEF TypeOK, Times, Never

-----------------------------------------------------------------------------
(* Types *)

LEMMA TypeInit == Init => TypeOK
<1> SUFFICES ASSUME Init PROVE TypeOK
  OBVIOUS
<1> USE SessionAssumption
<1>1. made \in [Groups -> Times \cup {Never}] /\ clock \in Times
  BY DEF Init, Times, Never
<1>2. \A x \in Groups : [arts |-> {}, last |-> 0, age |-> 0] \in Remote(x)
  BY DEF Remote, Numbers
<1>3. \A x \in Groups : <<>> \in Seq(Overviews(x))
  BY EmptySeq
<1> QED
  BY <1>1, <1>2, <1>3, NothingSelected, PlanTypes DEF Init, TypeOK

LEMMA TypeNext ==
  ASSUME TypeOK, [Next]_vars
  PROVE  TypeOK'
<1> USE SessionAssumption
<1>1. CASE Tick
  BY <1>1 DEF Tick, TypeOK, Times, queueVars, grpVars, listVars, overVars,
              sessionVars
<1>2. ASSUME NEW x \in Groups, MakeGroup(x) PROVE TypeOK'
  BY <1>2 DEF MakeGroup, TypeOK, Times, queueVars, grpVars, listVars,
              overVars, sessionVars
<1>3. ASSUME NEW x \in Groups, Arrive(x) \/ Drop(x) \/ Renumber(x)
      PROVE  TypeOK'
  <2>1. PICK new \in Remote(x) : RmtChange(x, new)
    <3>1. /\ rmt[x] \in Remote(x)
          /\ MaxNumb[x] \in Nat
      BY DEF TypeOK
    <3>2. CASE Arrive(x)
      BY <3>1, <3>2 DEF Arrive, Remote, Numbers
    <3>3. CASE Drop(x)
      BY <3>1, <3>3 DEF Drop, Remote
    <3>4. CASE Renumber(x)
      BY <3>1, <3>4 DEF Renumber, Remote, Numbers
    <3> QED
      BY <1>3, <3>2, <3>3, <3>4
  <2> QED
    BY <2>1 DEF RmtChange, TypeOK, queueVars, grpVars, listVars, overVars,
                sessionVars
<1>4. CASE FetchAll \/ Query
  BY <1>4, PlanTypes DEF FetchAll, Query, Open, TypeOK, remoteVars,
              queueVars, grpVars, listVars, overVars
<1>5. ASSUME NEW x \in Groups, ReadGroup(x) PROVE TypeOK'
  BY <1>5, PlanTypes DEF ReadGroup, Open, TypeOK, remoteVars, queueVars,
              grpVars, listVars, overVars
<1>6. ASSUME NEW m \in Posts, Post(m) \/ Cancel(m) PROVE TypeOK'
  BY <1>6, PlanTypes DEF Post, Cancel, PostArts, PostArticle, Open, Out_add, Out_remove,
              TypeOK, remoteVars, grpVars, listVars, overVars, sessionVars
<1>7. ASSUME NEW m \in Posts, Take(m) PROVE TypeOK'
  BY <1>7 DEF Take, Out_remove, TypeOK, remoteVars, grpVars, listVars,
              overVars, sessionVars
<1>8. CASE RmtAccept \/ Answered
  BY <1>8 DEF RmtAccept, Answered, TypeOK, remoteVars, grpVars, listVars,
              overVars, sessionVars
<1>9. CASE PostDone
  BY <1>9, NextStepType DEF PostDone, TypeOK, remoteVars, queueVars, grpVars,
              listVars, overVars
<1>10. CASE AskGroups
  BY <1>10 DEF AskGroups, Listed, TypeOK, remoteVars, queueVars, grpVars,
               overVars, sessionVars
<1>11. ASSUME NEW x \in Groups, TakeGroup(x) PROVE TypeOK'
  <2>1. CASE x \in known
    BY <1>11, <2>1 DEF TakeGroup, TypeOK, remoteVars, queueVars, grpVars,
                       overVars, sessionVars
  <2>2. CASE x \notin known
    <3>1. PICK a \in Answers(x) : /\ known' = known \cup {x}
                                 /\ Grp_setRmtNext(x, a[1])
      BY <1>11, <2>2 DEF TakeGroup
    <3>2. rmtNext' \in [Groups -> Nat]
      BY <3>1, AnswerRange DEF Grp_setRmtNext, TypeOK
    <3> QED
      BY <1>11, <3>1, <3>2 DEF TakeGroup, TypeOK, remoteVars, queueVars,
                               overVars, sessionVars
  <2> QED
    BY <2>1, <2>2
<1>12. CASE GroupsListed
  BY <1>12, NextStepType DEF GroupsListed, Utl_stamp, TypeOK, remoteVars,
               queueVars, grpVars, overVars
<1>13. CASE GroupsUnlisted
  BY <1>13, NextStepType DEF GroupsUnlisted, TypeOK, remoteVars, queueVars,
               grpVars, overVars
<1>14. CASE UpdateGroups
  BY <1>14, PlanTypes DEF UpdateGroups, TypeOK, remoteVars, queueVars,
               grpVars, listVars, overVars
<1>15. ASSUME NEW x \in Groups, SelectGroup(x) PROVE TypeOK'
  <2>1. PICK a \in Answers(x) :
          IF UpToDate(x, a[1], a[2])
            THEN /\ todo' = todo \ {x}
                 /\ UNCHANGED overVars
            ELSE /\ grp' = x
                 /\ range' = CutOldest(Start(x, a[1], a[2]), a[2])
                 /\ notice' = Notice(x, a[1], a[2])
                 /\ UNCHANGED <<shown, over, lines, got, todo>>
    BY <1>15 DEF SelectGroup
  <2>2. a[1] \in Nat /\ a[2] \in Nat
    BY AnswerRange
  <2>3. CASE UpToDate(x, a[1], a[2])
    BY <1>15, <2>1, <2>3 DEF SelectGroup, TypeOK, remoteVars, queueVars,
                             grpVars, listVars, overVars
  <2>4. CASE ~UpToDate(x, a[1], a[2])
    <3>1. Start(x, a[1], a[2]) \in Nat
      BY <2>2 DEF Start, TypeOK
    <3>2. range' \in Int \X Int
      BY <2>1, <2>2, <2>4, <3>1 DEF CutOldest
    <3>3. notice' \in Notices
      BY <2>1, <2>2, <2>4 DEF Notice, Notices, TypeOK
    <3> QED
      BY <1>15, <2>1, <2>4, <3>2, <3>3, EmptySeq
         DEF SelectGroup, TypeOK, remoteVars, queueVars, grpVars, listVars
  <2> QED
    BY <2>3, <2>4
<1>16. CASE AskOver
  BY <1>16 DEF AskOver, TypeOK, Remote, remoteVars, queueVars, grpVars,
               listVars, sessionVars
<1>17. CASE GetLine
  <2>1. PICK n \in lines : /\ NextLine(n)
                           /\ got' = Append(got, <<rmt[grp].age, n>>)
                           /\ Grp_setRmtNext(grp, n + 1)
    BY <1>17 DEF GetLine
  <2>2. grp \in Groups /\ n \in 1 .. MaxNumb[grp]
    BY DEF TypeOK
  <2>3. got' \in Seq(Overviews(grp))
    <3>1. <<rmt[grp].age, n>> \in Overviews(grp)
      BY <2>2 DEF TypeOK, Remote, Overviews, Numbers
    <3> QED
      BY <2>1, <2>2, <3>1, AppendProperties DEF TypeOK
  <2>4. rmtNext' \in [Groups -> Nat]
    BY <2>1, <2>2 DEF Grp_setRmtNext, TypeOK
  <2>5. lines' \subseteq lines
    BY <2>1 DEF NextLine
  <2> QED
    BY <1>17, <2>2, <2>3, <2>4, <2>5 DEF GetLine, TypeOK, remoteVars,
       queueVars, listVars, sessionVars
<1>18. CASE WriteGroup
  <2>1. \A x \in Groups : shown'[x] \in Seq(Overviews(x))
    BY <1>18, ConcatProperties DEF WriteGroup, TypeOK
  <2> QED
    BY <1>18, <2>1, NothingSelected
       DEF WriteGroup, Deselect, TypeOK, remoteVars, queueVars, grpVars, listVars
<1>19. CASE GroupsDone
  BY <1>19, NextStepType DEF GroupsDone, TypeOK, remoteVars, queueVars,
               grpVars, listVars, overVars
<1>20. CASE Break
  BY <1>20 DEF Break, TypeOK, remoteVars, queueVars, grpVars, listVars, overVars
<1>21. CASE Die
  BY <1>21, NothingSelected, PlanTypes DEF Die, Deselect, TypeOK, remoteVars,
     grpVars
<1>22. CASE UNCHANGED vars
  BY <1>22 DEF vars, TypeOK, remoteVars, queueVars, grpVars, listVars,
               overVars, sessionVars
<1> QED
  BY <1>1, <1>2, <1>3, <1>4, <1>5, <1>6, <1>7, <1>8, <1>9, <1>10, <1>11,
     <1>12, <1>13, <1>14, <1>15, <1>16, <1>17, <1>18, <1>19, <1>20, <1>21,
     <1>22 DEF Next, Step, Remotely

\* Every variable of a session keeps its type.
THEOREM TypeCorrect == Spec => []TypeOK
<1>1. Init => TypeOK
  BY TypeInit
<1>2. TypeOK /\ [Next]_vars => TypeOK'
  BY TypeNext
<1> QED
  BY <1>1, <1>2, PTL DEF Spec

-----------------------------------------------------------------------------
(* Articles that are posted *)

LEMMA OutgoingNext ==
  ASSUME TypeOK, Outgoing, [Next]_vars
  PROVE  Outgoing'
<1> USE DEF Outgoing, PostedOnce
<1>1. ASSUME NEW m \in Posts, Post(m) PROVE Outgoing'
  BY <1>1, SessionAssumption DEF Post, PostArticle, Out_add, TypeOK
<1>2. ASSUME NEW m \in Posts, Cancel(m) PROVE Outgoing'
  BY <1>2 DEF Cancel, Out_remove
<1>3. ASSUME NEW m \in Posts, Take(m) PROVE Outgoing'
  BY <1>3 DEF Take, Out_remove
<1>4. CASE RmtAccept
  BY <1>4 DEF RmtAccept
<1>5. CASE Answered
  BY <1>5, SessionAssumption DEF Answered, TypeOK
<1>6. CASE Die
  BY <1>6, SessionAssumption DEF Die, TypeOK
<1>7. CASE UNCHANGED queueVars
  BY <1>7 DEF queueVars
<1>8. CASE UNCHANGED vars
  BY <1>7, <1>8 DEF vars
<1>9. ASSUME NEW x \in Groups,
             Remotely(x) \/ ReadGroup(x) \/ TakeGroup(x) \/ SelectGroup(x)
      PROVE  UNCHANGED queueVars
  BY <1>9 DEF Remotely, MakeGroup, Arrive, Drop, Renumber, RmtChange,
              ReadGroup, TakeGroup, SelectGroup
<1>10. CASE \/ Tick \/ FetchAll \/ Query \/ PostDone \/ AskGroups
            \/ GroupsListed \/ GroupsUnlisted \/ UpdateGroups \/ AskOver
            \/ GetLine \/ WriteGroup \/ GroupsDone \/ Break
  <2>1. UNCHANGED queueVars
    BY <1>10 DEF Tick, FetchAll, Query, PostDone, AskGroups, GroupsListed,
       GroupsUnlisted, UpdateGroups, AskOver, GetLine, WriteGroup,
       GroupsDone, Break
  <2> QED
    BY <1>7, <2>1
<1> QED
  BY <1>1, <1>2, <1>3, <1>4, <1>5, <1>6, <1>7, <1>8, <1>9, <1>10
     DEF Next, Step

\* An article that the remote server has accepted is never offered to it
\* again, although its answer may be lost and the process killed:
\* Fetch_postArts takes it out of the outgoing directory before.
THEOREM OnceOnly == Spec => []PostedOnce
<1>1. Init => Outgoing
  BY DEF Init, Outgoing, PostedOnce
<1>2. TypeOK /\ Outgoing /\ [Next]_vars => Outgoing'
  BY OutgoingNext
<1>3. Outgoing => PostedOnce
  BY DEF Outgoing
<1> QED
  BY <1>1, <1>2, <1>3, TypeCorrect, PTL DEF Spec

-----------------------------------------------------------------------------
(* Groups that are listed *)

LEMMA ListsInit == Init => Lists
  BY DEF Init, Lists, NoGroupOverlooked, Never

LEMMA ListsNext ==
  ASSUME TypeOK, Lists, [Next]_vars
  PROVE  Lists'
<1> USE DEF Lists, NoGroupOverlooked
<1>1. CASE Tick
  BY <1>1, TimeTypes DEF Tick, listVars, grpVars
<1>2. ASSUME NEW x \in Groups, MakeGroup(x) PROVE Lists'
  BY <1>2 DEF MakeGroup, listVars, grpVars, TypeOK, Times, Never
<1>3. CASE AskGroups
  BY <1>3 DEF AskGroups, Listed, remoteVars, grpVars, TypeOK, Times, Never
<1>4. ASSUME NEW x \in Groups, TakeGroup(x) PROVE Lists'
  BY <1>4 DEF TakeGroup, remoteVars, grpVars
<1>5. CASE GroupsListed
  BY <1>5 DEF GroupsListed, Utl_stamp, remoteVars, grpVars, TypeOK, Times
<1>6. CASE GroupsUnlisted
  BY <1>6 DEF GroupsUnlisted, remoteVars, grpVars
<1>7. CASE GetLine
  BY <1>7 DEF GetLine, remoteVars, listVars
<1>8. CASE Die
  BY <1>8 DEF Die, remoteVars, grpVars
<1>9. CASE UNCHANGED <<clock, made, late, grpVars, listVars>>
  BY <1>9 DEF grpVars, listVars
<1>10. ASSUME NEW x \in Groups,
              \/ Arrive(x) \/ Drop(x) \/ Renumber(x)
              \/ ReadGroup(x) \/ SelectGroup(x)
       PROVE  UNCHANGED <<clock, made, late, grpVars, listVars>>
  BY <1>10 DEF Arrive, Drop, Renumber, RmtChange, ReadGroup, SelectGroup,
               remoteVars
<1>11. ASSUME NEW m \in Posts, Post(m) \/ Cancel(m) \/ Take(m)
       PROVE  UNCHANGED <<clock, made, late, grpVars, listVars>>
  BY <1>11 DEF Post, Cancel, Take, remoteVars
<1>12. CASE \/ FetchAll \/ Query \/ RmtAccept \/ Answered \/ PostDone
            \/ UpdateGroups \/ AskOver \/ WriteGroup \/ GroupsDone \/ Break
            \/ UNCHANGED vars
  BY <1>9, <1>12 DEF FetchAll, Query, RmtAccept, Answered, PostDone,
     UpdateGroups, AskOver, WriteGroup, GroupsDone, Break, remoteVars, vars
<1> QED
  BY <1>1, <1>2, <1>3, <1>4, <1>5, <1>6, <1>7, <1>8, <1>9, <1>10, <1>11,
     <1>12 DEF Next, Step, Remotely

\* NEWGROUPS is sent with a time at which every group that the server had
\* before was known already, but for those that it got while it answered:
\* processGrps writes lastupdate.SERVER only after the whole list.
THEOREM NoGroupMissed == Spec => []NoGroupOverlooked
<1>1. Init => Lists
  BY ListsInit
<1>2. TypeOK /\ Lists /\ [Next]_vars => Lists'
  BY ListsNext
<1>3. Lists => NoGroupOverlooked
  BY DEF Lists
<1> QED
  BY <1>1, <1>2, <1>3, TypeCorrect, PTL DEF Spec

-----------------------------------------------------------------------------
(* Overviews in order *)

Prefix(s, t) == Len(s) <= Len(t) /\ \A i \in 1 .. Len(s) : s[i] = t[i]

LEMMA PrefixOfConcat ==
  ASSUME NEW S, NEW s \in Seq(S), NEW t \in Seq(S)
  PROVE  Prefix(s, s \o t)
<1>1. Len(s) \in Nat /\ Len(t) \in Nat
  BY LenProperties
<1>2. /\ Len(s \o t) = Len(s) + Len(t)
      /\ \A i \in 1 .. Len(s) + Len(t) :
            (s \o t)[i] = IF i <= Len(s) THEN s[i] ELSE t[i - Len(s)]
  BY ConcatProperties
<1> QED
  BY <1>1, <1>2 DEF Prefix

LEMMA ConcatAppend ==
  ASSUME NEW S, NEW s \in Seq(S), NEW t \in Seq(S), NEW e \in S
  PROVE  s \o Append(t, e) = Append(s \o t, e)
<1>1. <<e>> \in Seq(S)
  OBVIOUS
<1>2. (s \o t) \o <<e>> = s \o (t \o <<e>>)
  BY <1>1, ConcatAssociative
<1>3. s \o t \in Seq(S)
  BY ConcatProperties
<1> QED
  BY <1>2, <1>3, AppendIsConcat

LEMMA AllType ==
  ASSUME TypeOK, NEW x \in Groups
  PROVE  /\ All(x) \in Seq(Overviews(x))
         /\ DOMAIN All(x) = 1 .. Len(All(x))
         /\ Len(All(x)) \in Nat
         /\ \A i \in 1 .. Len(All(x)) :
               All(x)[i][1] \in Int /\ All(x)[i][2] \in Int
<1>1. shown[x] \in Seq(Overviews(x)) /\ <<>> \in Seq(Overviews(x))
  BY DEF TypeOK
<1>2. x = grp => got \in Seq(Overviews(x))
  BY SessionAssumption DEF TypeOK
<1>3. All(x) \in Seq(Overviews(x))
  BY <1>1, <1>2, ConcatProperties DEF All
<1>4. /\ Len(All(x)) \in Nat
      /\ DOMAIN All(x) = 1 .. Len(All(x))
      /\ \A i \in 1 .. Len(All(x)) : All(x)[i] \in Overviews(x)
  BY <1>3, LenProperties, ElementOfSeq
<1>5. \A e \in Overviews(x) : e[1] \in Int /\ e[2] \in Int
  BY SessionAssumption DEF Overviews, Numbers
<1> QED
  BY <1>3, <1>4, <1>5

LEMMA SessionsNext ==
  ASSUME TypeOK, Sessions, [Next]_vars
  PROVE  Sessions'
<1> USE SessionAssumption DEF Sessions, At
<1>1. ASSUME NEW x \in Groups, Remotely(x) PROVE Sessions'
  BY <1>1 DEF Remotely, MakeGroup, Arrive, Drop, Renumber, RmtChange,
     grpVars, listVars, overVars, sessionVars
<1>2. ASSUME NEW x \in Groups, ReadGroup(x) PROVE Sessions'
  BY <1>2 DEF ReadGroup, Open, grpVars, listVars, overVars
<1>3. CASE FetchAll \/ Query
  BY <1>3 DEF FetchAll, Query, Open, grpVars, listVars, overVars
<1>4. ASSUME NEW m \in Posts, Post(m) \/ Cancel(m) PROVE Sessions'
  BY <1>4 DEF Post, Cancel, PostArts, Open, grpVars, listVars, overVars,
     sessionVars
<1>5. ASSUME NEW m \in Posts, Take(m) PROVE Sessions'
  BY <1>5 DEF Take, grpVars, listVars, overVars, sessionVars
<1>6. CASE Tick \/ RmtAccept \/ Answered \/ Break \/ UNCHANGED vars
  BY <1>6 DEF Tick, RmtAccept, Answered, Break, grpVars, listVars, overVars,
     sessionVars, vars
<1>7. CASE PostDone
  <2>1. plan # <<"groups">> /\ ~asked
    BY <1>7 DEF PostDone
  <2> QED
    BY <1>7, <2>1 DEF PostDone, grpVars, listVars, overVars
<1>8. CASE AskGroups
  BY <1>8 DEF AskGroups, grpVars, overVars, sessionVars
<1>9. ASSUME NEW x \in Groups, TakeGroup(x) PROVE Sessions'
  BY <1>9 DEF TakeGroup, grpVars, overVars, sessionVars
<1>10. CASE GroupsListed \/ GroupsUnlisted
  <2>1. plan # <<"groups">>
    BY <1>10 DEF GroupsListed, GroupsUnlisted
  <2> QED
    BY <1>10, <2>1 DEF GroupsListed, GroupsUnlisted, grpVars, overVars
<1>11. CASE UpdateGroups
  <2>1. plan # <<"groups">> /\ ~asked
    BY <1>11 DEF UpdateGroups
  <2> QED
    BY <1>11, <2>1 DEF UpdateGroups, grpVars, listVars, overVars
<1>12. ASSUME NEW x \in Groups, SelectGroup(x) PROVE Sessions'
  BY <1>12 DEF SelectGroup, grpVars, listVars, overVars
<1>13. CASE AskOver
  BY <1>13 DEF AskOver, grpVars, listVars, sessionVars
<1>14. CASE GetLine
  BY <1>14 DEF GetLine, listVars, sessionVars
<1>15. CASE WriteGroup
  BY <1>15 DEF WriteGroup, Deselect, grpVars, listVars
<1>16. CASE GroupsDone
  <2>1. ~asked
    BY <1>16 DEF GroupsDone
  <2> QED
    BY <1>16, <2>1 DEF GroupsDone, grpVars, listVars, overVars
<1>17. CASE Die
  BY <1>17 DEF Die, Deselect, grpVars
<1> QED
  BY <1>1, <1>2, <1>3, <1>4, <1>5, <1>6, <1>7, <1>8, <1>9, <1>10, <1>11,
     <1>12, <1>13, <1>14, <1>15, <1>16, <1>17 DEF Next, Step

\* Only GetLine adds an overview; a process that is killed drops some.
LEMMA AllKept ==
  ASSUME TypeOK, TypeOK', [Next]_vars, ~GetLine, NEW x \in Groups
  PROVE  Prefix(All(x)', All(x))
<1>1. /\ shown[x] \in Seq(Overviews(x))
      /\ x = grp => got \in Seq(Overviews(x))
  BY SessionAssumption DEF TypeOK
<1>2. CASE All(x)' = All(x)
  BY <1>2, AllType DEF Prefix
<1>3. CASE UNCHANGED <<shown, grp, got>>
  BY <1>2, <1>3 DEF All
<1>4. ASSUME NEW y \in Groups, SelectGroup(y) PROVE All(x)' = All(x)
  BY <1>4, SessionAssumption DEF SelectGroup, TypeOK, All, overVars
<1>5. CASE WriteGroup
  <2>1. CASE x = grp
    <3>1. All(x)' = (shown[x] \o got) \o <<>>
      BY <1>5, <2>1, SessionAssumption DEF WriteGroup, Deselect, TypeOK, All
    <3>2. All(x) = shown[x] \o got
      BY <2>1 DEF All
    <3>3. All(x) \o <<>> = All(x)
      BY AllType, ConcatEmptySeq
    <3> QED
      BY <1>2, <3>1, <3>2, <3>3
  <2>2. CASE x # grp
    BY <1>2, <1>5, <2>2, SessionAssumption
       DEF WriteGroup, Deselect, TypeOK, All
  <2> QED
    BY <2>1, <2>2
<1>6. CASE Die
  <2>1. All(x)' = shown[x] \o <<>>
    BY <1>6, SessionAssumption DEF Die, Deselect, All
  <2>2. All(x)' = shown[x]
    BY <1>1, <2>1, ConcatEmptySeq
  <2> QED
    BY <1>1, <2>2, PrefixOfConcat, EmptySeq DEF All
<1>7. ASSUME NEW y \in Groups, Remotely(y) \/ ReadGroup(y) \/ TakeGroup(y)
      PROVE  UNCHANGED <<shown, grp, got>>
  BY <1>7 DEF Remotely, MakeGroup, Arrive, Drop, Renumber, RmtChange,
              ReadGroup, TakeGroup, overVars
<1>8. ASSUME NEW m \in Posts, Post(m) \/ Cancel(m) \/ Take(m)
      PROVE  UNCHANGED <<shown, grp, got>>
  BY <1>8 DEF Post, Cancel, Take, overVars
<1>9. CASE \/ Tick \/ FetchAll \/ Query \/ RmtAccept \/ Answered \/ PostDone
           \/ AskGroups \/ GroupsListed \/ GroupsUnlisted \/ UpdateGroups
           \/ AskOver \/ GroupsDone \/ Break \/ UNCHANGED vars
  <2>1. UNCHANGED <<shown, grp, got>>
    BY <1>9 DEF Tick, FetchAll, Query, RmtAccept, Answered, PostDone,
       AskGroups, GroupsListed, GroupsUnlisted, UpdateGroups, AskOver,
       GroupsDone, Break, overVars, vars
  <2> QED
    BY <1>3, <2>1
<1> QED
  BY <1>2, <1>3, <1>4, <1>5, <1>6, <1>7, <1>8, <1>9 DEF Next, Step

LEMMA AllGrows ==
  ASSUME TypeOK, GetLine
  PROVE  /\ grp \in Groups /\ connected /\ connected'
         /\ UNCHANGED <<grp, rmt, known, shown, over, range>>
         /\ \E n \in lines :
               /\ n \in Nat
               /\ \A m \in lines' : m \in lines /\ n < m
               /\ rmtNext' = [rmtNext EXCEPT ![grp] = n + 1]
               /\ All(grp)' = Append(All(grp), <<rmt[grp].age, n>>)
               /\ <<rmt[grp].age, n>> \in Overviews(grp)
         /\ \A x \in Groups \ {grp} : All(x)' = All(x)
<1>1. PICK n \in lines : /\ NextLine(n)
                        /\ got' = Append(got, <<rmt[grp].age, n>>)
                        /\ Grp_setRmtNext(grp, n + 1)
  BY DEF GetLine
<1>2. grp \in Groups /\ lines \subseteq 1 .. MaxNumb[grp] /\ MaxNumb[grp] \in Nat
  BY SessionAssumption DEF TypeOK
<1>3. \A m \in lines' : m \in lines /\ n < m
  BY <1>1, <1>2 DEF NextLine, Lowest
<1>4. <<rmt[grp].age, n>> \in Overviews(grp)
  BY <1>2 DEF TypeOK, Remote, Overviews, Numbers
<1>5. UNCHANGED <<grp, rmt, known, shown, over, range, connected>> /\ connected
  BY DEF GetLine, remoteVars, sessionVars
<1>6. All(grp)' = Append(All(grp), <<rmt[grp].age, n>>)
  <2> DEFINE e == <<rmt[grp].age, n>>
  <2>1. shown[grp] \in Seq(Overviews(grp)) /\ got \in Seq(Overviews(grp))
    BY <1>2, SessionAssumption DEF TypeOK
  <2>2. /\ All(grp)' = shown[grp] \o Append(got, e)
        /\ All(grp) = shown[grp] \o got
    BY <1>1, <1>5 DEF All
  <2>3. \A s, t \in Seq(Overviews(grp)), d \in Overviews(grp) :
           s \o Append(t, d) = Append(s \o t, d)
    BY ConcatAppend
  <2>4. shown[grp] \o Append(got, e) = Append(shown[grp] \o got, e)
    BY <1>4, <2>1, <2>3
  <2> QED
    BY <2>2, <2>4
<1>7. \A x \in Groups \ {grp} : All(x)' = All(x)
  BY <1>5 DEF All
<1>8. rmtNext' = [rmtNext EXCEPT ![grp] = n + 1] /\ n \in Nat
  BY <1>1, <1>2 DEF Grp_setRmtNext
<1> QED
  BY <1>2, <1>3, <1>4, <1>5, <1>6, <1>7, <1>8

LEMMA InOrderNext ==
  ASSUME TypeOK, TypeOK', Order, [Next]_vars
  PROVE  InOrder'
<1>1. SUFFICES ASSUME NEW x \in Groups,
                      NEW i \in DOMAIN All(x)', NEW j \in DOMAIN All(x)', i < j
               PROVE  \/ All(x)'[i][1] < All(x)'[j][1]
                      \/ /\ All(x)'[i][1] = All(x)'[j][1]
                         /\ All(x)'[i][2] < All(x)'[j][2]
  BY DEF InOrder
<1>2. /\ DOMAIN All(x) = 1 .. Len(All(x)) /\ Len(All(x)) \in Nat
      /\ DOMAIN All(x)' = 1 .. Len(All(x)') /\ Len(All(x)') \in Nat
  BY AllType
<1>3. CASE Prefix(All(x)', All(x))
  BY <1>1, <1>2, <1>3 DEF Prefix, Order, InOrder
<1>4. CASE ~GetLine
  BY <1>3, <1>4, AllKept
<1>5. CASE GetLine /\ x # grp
  <2>1. All(x)' = All(x)
    BY <1>5, AllGrows
  <2> QED
    BY <1>2, <1>3, <2>1 DEF Prefix
<1>6. CASE GetLine /\ x = grp
  <2>1. PICK n \in lines :
          /\ All(x)' = Append(All(x), <<rmt[x].age, n>>)
          /\ <<rmt[x].age, n>> \in Overviews(x)
    BY <1>6, AllGrows
  <2>2. /\ Len(All(x)') = Len(All(x)) + 1
        /\ \A k \in 1 .. Len(All(x)) : All(x)'[k] = All(x)[k]
        /\ All(x)'[Len(All(x)) + 1] = <<rmt[x].age, n>>
    BY <2>1, AllType, AppendProperties
  <2>3. CASE j \in DOMAIN All(x)
    BY <1>1, <1>2, <2>2, <2>3 DEF Order, InOrder
  <2>4. CASE j = Len(All(x)) + 1
    <3>1. grp # NoGroup /\ connected
      BY <1>6, AllGrows, SessionAssumption
    <3>2. /\ i \in DOMAIN All(x)
          /\ All(x)[i][1] \in Int /\ All(x)[i][2] \in Int
          /\ rmt[x].age \in Int
      BY <1>1, <1>2, <2>4, AllType, RemoteTypes
    <3>3. /\ All(x)[i][1] <= rmt[x].age
          /\ All(x)[i][1] = rmt[x].age => All(x)[i][2] < n
      BY <1>6, <2>1, <3>1, <3>2 DEF Order, Expected, Answer, Present
    <3> QED
      BY <1>2, <2>2, <2>4, <3>2, <3>3
  <2> QED
    BY <1>2, <2>2, <2>3, <2>4
<1> QED
  BY <1>4, <1>5, <1>6

LEMMA ExpectedNext ==
  ASSUME TypeOK, TypeOK', Order, [Next]_vars
  PROVE  Expected'
<1>1. SUFFICES ASSUME NEW x \in Groups
               PROVE  /\ rmt'[x].arts \subseteq 1 .. rmt'[x].last
                      /\ x \notin known' => shown'[x] = <<>>
                      /\ \A i \in DOMAIN All(x)' :
                            /\ All(x)'[i][1] <= rmt'[x].age
                            /\ All(x)'[i][1] = rmt'[x].age =>
                                  /\ All(x)'[i][2] < rmtNext'[x]
                                  /\ rmtNext'[x] <= rmt'[x].last + 1
  BY DEF Expected, Present
<1>2. /\ DOMAIN All(x) = 1 .. Len(All(x)) /\ Len(All(x)) \in Nat
      /\ DOMAIN All(x)' = 1 .. Len(All(x)') /\ Len(All(x)') \in Nat
      /\ \A i \in DOMAIN All(x) :
            All(x)[i][1] \in Int /\ All(x)[i][2] \in Int
  BY AllType
<1>3. /\ rmt[x].arts \subseteq 1 .. rmt[x].last
      /\ x \notin known => shown[x] = <<>>
      /\ \A i \in DOMAIN All(x) :
            /\ All(x)[i][1] <= rmt[x].age
            /\ All(x)[i][1] = rmt[x].age => /\ All(x)[i][2] < rmtNext[x]
                                            /\ rmtNext[x] <= rmt[x].last + 1
  BY DEF Order, Expected, Present
<1>4. /\ rmt[x] \in Remote(x) /\ rmtNext[x] \in Nat
      /\ rmt[x].last \in Nat /\ rmt[x].age \in Nat
  BY SessionAssumption DEF TypeOK, Remote, Numbers
<1>5. CASE /\ UNCHANGED <<rmt, rmtNext>>
           /\ known \subseteq known'
           /\ UNCHANGED shown \/ WriteGroup
           /\ ~GetLine
  <2>1. Prefix(All(x)', All(x))
    BY <1>5, AllKept
  <2>2. x \notin known' => shown'[x] = <<>>
    BY <1>3, <1>5, SessionAssumption
       DEF WriteGroup, Order, Sessions, TypeOK
  <2> QED
    BY <1>2, <1>3, <1>5, <2>1, <2>2 DEF Prefix
<1>6. ASSUME NEW y \in Groups, Arrive(y) \/ Drop(y) \/ Renumber(y)
      PROVE  /\ UNCHANGED <<rmtNext, known, shown, grp, got>>
             /\ rmt'[x].arts \subseteq 1 .. rmt'[x].last
             /\ \/ rmt'[x].age > rmt[x].age
                \/ rmt'[x].age = rmt[x].age /\ rmt'[x].last >= rmt[x].last
  <2>1. UNCHANGED <<rmtNext, known, shown, grp, got>>
    BY <1>6 DEF Arrive, Drop, Renumber, RmtChange, grpVars, overVars
  <2>2. CASE x # y
    BY <1>3, <1>4, <1>6, <2>1, <2>2
       DEF Arrive, Drop, Renumber, RmtChange, TypeOK
  <2>3. CASE Arrive(x)
    BY <1>3, <1>4, <2>1, <2>3, SMTT(30) DEF Arrive, RmtChange, TypeOK
  <2>4. CASE Drop(x)
    BY <1>3, <1>4, <2>1, <2>4 DEF Drop, RmtChange, TypeOK, Remote
  <2>5. CASE Renumber(x)
    BY <1>3, <1>4, <2>1, <2>5 DEF Renumber, RmtChange, TypeOK
  <2> QED
    BY <1>6, <2>2, <2>3, <2>4, <2>5
<1>7. ASSUME NEW y \in Groups, Arrive(y) \/ Drop(y) \/ Renumber(y)
      PROVE  /\ rmt'[x].arts \subseteq 1 .. rmt'[x].last
             /\ x \notin known' => shown'[x] = <<>>
             /\ \A i \in DOMAIN All(x)' :
                   /\ All(x)'[i][1] <= rmt'[x].age
                   /\ All(x)'[i][1] = rmt'[x].age =>
                         /\ All(x)'[i][2] < rmtNext'[x]
                         /\ rmtNext'[x] <= rmt'[x].last + 1
  <2>1. /\ UNCHANGED <<rmtNext, known, shown, grp, got>>
        /\ rmt'[x].arts \subseteq 1 .. rmt'[x].last
        /\ \/ rmt'[x].age > rmt[x].age
           \/ rmt'[x].age = rmt[x].age /\ rmt'[x].last >= rmt[x].last
    BY <1>6, <1>7
  <2>2. All(x)' = All(x)
    BY <2>1 DEF All
  <2>3. rmt'[x].last \in Nat /\ rmt'[x].age \in Nat
    <3>1. rmt'[x] \in Remote(x)
      BY DEF TypeOK
    <3> QED
      BY <3>1, RemoteType
  <2> QED
    BY <1>2, <1>3, <1>4, <2>1, <2>2, <2>3, SMTT(30)
<1>8. ASSUME NEW y \in Groups, TakeGroup(y)
      PROVE  /\ UNCHANGED <<rmt, shown, grp, got>>
             /\ known \subseteq known'
             /\ y # x \/ x \in known => rmtNext'[x] = rmtNext[x]
  BY <1>8 DEF TakeGroup, Grp_setRmtNext, remoteVars, overVars, grpVars, TypeOK
<1>9. ASSUME NEW y \in Groups, TakeGroup(y)
      PROVE  /\ rmt'[x].arts \subseteq 1 .. rmt'[x].last
             /\ x \notin known' => shown'[x] = <<>>
             /\ \A i \in DOMAIN All(x)' :
                   /\ All(x)'[i][1] <= rmt'[x].age
                   /\ All(x)'[i][1] = rmt'[x].age =>
                         /\ All(x)'[i][2] < rmtNext'[x]
                         /\ rmtNext'[x] <= rmt'[x].last + 1
  <2>1. All(x)' = All(x)
    BY <1>8, <1>9 DEF All
  <2>2. CASE y = x /\ x \notin known
    <3>1. shown[x] = <<>> /\ x # grp
      BY <1>3, <2>2, SessionAssumption DEF Order, Sessions
    <3>2. All(x) = <<>>
      BY <3>1 DEF All
    <3>3. DOMAIN All(x)' = {}
      BY <1>2, <2>1, <3>2
    <3> QED
      BY <1>3, <1>8, <1>9, <3>1, <3>3
  <2>3. CASE y # x \/ x \in known
    BY <1>3, <1>8, <1>9, <2>1, <2>3
  <2> QED
    BY <2>2, <2>3
<1>10. CASE GetLine /\ x # grp
  <2>1. /\ All(x)' = All(x) /\ UNCHANGED <<rmt, known, shown>>
        /\ rmtNext'[x] = rmtNext[x]
    BY <1>10, AllGrows DEF TypeOK
  <2> QED
    BY <1>3, <2>1
<1>11. CASE GetLine /\ x = grp
  <2>1. PICK n \in lines :
          /\ n \in Nat
          /\ rmtNext'[x] = n + 1
          /\ All(x)' = Append(All(x), <<rmt[x].age, n>>)
          /\ <<rmt[x].age, n>> \in Overviews(x)
    BY <1>11, AllGrows DEF TypeOK
  <2>2. /\ Len(All(x)') = Len(All(x)) + 1
        /\ \A k \in 1 .. Len(All(x)) : All(x)'[k] = All(x)[k]
        /\ All(x)'[Len(All(x)) + 1] = <<rmt[x].age, n>>
    BY <2>1, AllType, AppendProperties
  <2>3. grp # NoGroup /\ connected /\ UNCHANGED <<rmt, known, shown>>
    BY <1>11, AllGrows, SessionAssumption
  <2>4. /\ n <= rmt[x].last
        /\ \A i \in DOMAIN All(x) :
              All(x)[i][1] = rmt[x].age => All(x)[i][2] < n
    BY <1>11, <2>1, <2>3 DEF Order, Answer, Present
  <2>5. ASSUME NEW i \in DOMAIN All(x)'
        PROVE  /\ All(x)'[i][1] <= rmt'[x].age
               /\ All(x)'[i][1] = rmt'[x].age =>
                     /\ All(x)'[i][2] < rmtNext'[x]
                     /\ rmtNext'[x] <= rmt'[x].last + 1
    <3>1. CASE i \in DOMAIN All(x)
      <4>1. All(x)'[i] = All(x)[i]
        BY <1>2, <2>2, <3>1
      <4> QED
        BY <1>2, <1>3, <1>4, <2>1, <2>3, <2>4, <3>1, <4>1
    <3>2. CASE i = Len(All(x)) + 1
      BY <1>4, <2>1, <2>2, <2>3, <2>4, <3>2
    <3> QED
      BY <1>2, <2>2, <3>1, <3>2
  <2> QED
    BY <1>3, <2>3, <2>5
<1>12. ASSUME NEW y \in Groups, MakeGroup(y) \/ ReadGroup(y) \/ SelectGroup(y)
       PROVE  UNCHANGED <<rmt, rmtNext, known, shown>>
  BY <1>12 DEF MakeGroup, ReadGroup, SelectGroup, remoteVars, grpVars, overVars
<1>13. ASSUME NEW m \in Posts, Post(m) \/ Cancel(m) \/ Take(m)
       PROVE  UNCHANGED <<rmt, rmtNext, known, shown>>
  BY <1>13 DEF Post, Cancel, Take, remoteVars, grpVars, overVars
<1>14. ASSUME
         \/ Tick \/ FetchAll \/ Query \/ RmtAccept \/ Answered \/ PostDone
         \/ AskGroups \/ GroupsListed \/ GroupsUnlisted \/ UpdateGroups
         \/ AskOver \/ GroupsDone \/ Break \/ Die \/ UNCHANGED vars
       PROVE  UNCHANGED <<rmt, rmtNext, known, shown>>
  BY <1>14 DEF Tick, FetchAll, Query, RmtAccept, Answered, PostDone,
     AskGroups, GroupsListed, GroupsUnlisted, UpdateGroups, AskOver,
     GroupsDone, Break, Die, remoteVars, grpVars, overVars, vars
<1>15. WriteGroup => UNCHANGED <<rmt, rmtNext, known>>
  BY DEF WriteGroup, remoteVars, grpVars
<1> QED
  BY <1>5, <1>7, <1>9, <1>10, <1>11, <1>12, <1>13, <1>14, <1>15
     DEF Next, Step, Remotely

LEMMA AnswerNext ==
  ASSUME TypeOK, TypeOK', Order, [Next]_vars
  PROVE  Answer'
<1>1. SUFFICES ASSUME grp' # NoGroup, connected' PROVE Answer'
  BY DEF Answer
<1> USE SessionAssumption
<1>2. ASSUME NEW x \in Groups
      PROVE  /\ DOMAIN All(x) = 1 .. Len(All(x)) /\ Len(All(x)) \in Nat
             /\ \A i \in DOMAIN All(x) :
                   All(x)[i][1] \in Int /\ All(x)[i][2] \in Int
             /\ rmt[x].last \in Nat /\ rmt[x].age \in Nat
  BY AllType, RemoteTypes
<1>3. grp = NoGroup \/ ~connected \/
         /\ \A n \in lines : n <= rmt[grp].last
         /\ \A i \in DOMAIN All(grp) :
               All(grp)[i][1] = rmt[grp].age =>
                  /\ ~over => All(grp)[i][2] < range[1]
                  /\ \A n \in lines : All(grp)[i][2] < n
  BY DEF Order, Answer, Present
<1>4. ASSUME UNCHANGED <<shown, grp, range, over, lines, got>>,
             connected, grp \in Groups,
             rmt'[grp].age = rmt[grp].age, rmt'[grp].last >= rmt[grp].last
      PROVE  Answer'
  <2>1. All(grp)' = All(grp)
    BY <1>4 DEF All
  <2>2. rmt'[grp].last \in Nat
    <3>1. rmt'[grp] \in Remote(grp)
      BY <1>4 DEF TypeOK
    <3> QED
      BY <1>4, <3>1, RemoteType
  <2>3. \A n \in lines : n \in Int
    BY DEF TypeOK
  <2> QED
    BY <1>2, <1>3, <1>4, <2>1, <2>2, <2>3 DEF Answer, Present
<1>5. ASSUME NEW x \in Groups, SelectGroup(x), grp' # grp PROVE Answer'
  <2>1. PICK a \in Answers(x) :
          /\ ~UpToDate(x, a[1], a[2])
          /\ grp' = x
          /\ range' = CutOldest(Start(x, a[1], a[2]), a[2])
          /\ UNCHANGED <<rmt, shown, over, lines, got>>
    BY <1>5 DEF SelectGroup, overVars, remoteVars
  <2>2. /\ grp = NoGroup /\ got = <<>> /\ lines = {}
        /\ x # NoGroup
    BY <1>5 DEF SelectGroup, TypeOK
  <2>3. All(x)' = All(x)
    BY <2>1, <2>2 DEF All
  <2>4. /\ a[1] \in Nat /\ a[2] \in Nat
        /\ a = <<0, 0>> \/ a[2] = rmt[x].last
        /\ rmtNext[x] \in Nat /\ MaxFetch \in Nat
    BY AnswerRange DEF TypeOK
  <2>5. a[2] = rmt[x].last /\ rmtNext[x] # a[2] + 1
    BY <2>1, <2>4 DEF UpToDate
  <2>6. ASSUME NEW i \in DOMAIN All(x), All(x)[i][1] = rmt[x].age
        PROVE  All(x)[i][2] < range'[1]
    <3>1. /\ All(x)[i][2] < rmtNext[x]
          /\ rmtNext[x] <= rmt[x].last + 1
      BY <2>6 DEF Order, Expected, Present
    <3>2. All(x)[i][2] \in Int
      BY <1>2
    <3>3. /\ Start(x, a[1], a[2]) \in Nat
          /\ rmtNext[x] <= Start(x, a[1], a[2])
      BY <1>2, <2>4, <2>5, <3>1 DEF Start
    <3> QED
      BY <2>1, <2>4, <3>1, <3>2, <3>3 DEF CutOldest
  <2> QED
    BY <2>1, <2>2, <2>3, <2>6 DEF Answer, Present
<1>6. ASSUME AskOver PROVE Answer'
  <2>1. /\ grp \in Groups /\ connected /\ ~over /\ over'
        /\ UNCHANGED <<rmt, shown, grp, range, got>>
        /\ lines' = rmt[grp].arts \cap (range[1] .. range[2])
    BY <1>6 DEF AskOver, remoteVars, TypeOK
  <2>2. All(grp)' = All(grp)
    BY <2>1 DEF All
  <2>3. rmt[grp].arts \subseteq 1 .. rmt[grp].last
    BY <2>1 DEF Order, Expected
  <2>4. range[1] \in Int /\ range[2] \in Int
    BY DEF TypeOK
  <2> QED
    BY <1>2, <1>3, <2>1, <2>2, <2>3, <2>4 DEF Answer, Present
<1>7. ASSUME GetLine PROVE Answer'
  <2>1. PICK n \in lines :
          /\ n \in Nat
          /\ \A m \in lines' : m \in lines /\ n < m
          /\ All(grp)' = Append(All(grp), <<rmt[grp].age, n>>)
          /\ <<rmt[grp].age, n>> \in Overviews(grp)
    BY <1>7, AllGrows
  <2>2. /\ grp \in Groups /\ connected
        /\ UNCHANGED <<grp, rmt, over, range>>
    BY <1>7, AllGrows
  <2>3. over
    BY <2>1, <2>2 DEF Order, Sessions
  <2>4. /\ Len(All(grp)') = Len(All(grp)) + 1
        /\ \A k \in 1 .. Len(All(grp)) : All(grp)'[k] = All(grp)[k]
        /\ All(grp)'[Len(All(grp)) + 1] = <<rmt[grp].age, n>>
        /\ DOMAIN All(grp)' = 1 .. Len(All(grp)')
    BY <2>1, <2>2, AllType, AppendProperties, LenProperties
  <2>5. ASSUME NEW i \in DOMAIN All(grp)', NEW m \in lines',
               All(grp)'[i][1] = rmt[grp].age
        PROVE  All(grp)'[i][2] < m
    <3>1. CASE i \in DOMAIN All(grp)
      BY <1>2, <1>3, <2>1, <2>2, <2>4, <2>5, <3>1
    <3>2. CASE i = Len(All(grp)) + 1
      BY <2>1, <2>4, <3>2
    <3> QED
      BY <1>2, <2>2, <2>4, <3>1, <3>2
  <2> QED
    BY <1>3, <2>1, <2>2, <2>3, <2>5 DEF Answer, Present
<1>8. ASSUME NEW x \in Groups, Arrive(x) \/ Drop(x) \/ Renumber(x)
      PROVE  Answer'
  <2>1. /\ UNCHANGED <<shown, grp, range, over, lines, got>>
        /\ connected /\ grp \in Groups
    BY <1>1, <1>8 DEF Arrive, Drop, Renumber, RmtChange, overVars,
       sessionVars, TypeOK
  <2>2. rmt'[grp].age = rmt[grp].age /\ rmt'[grp].last >= rmt[grp].last
    <3>1. rmt[grp].last \in Nat /\ DOMAIN rmt = Groups
      BY <1>2, <2>1 DEF TypeOK
    <3>2. CASE Arrive(x)
      BY <2>1, <3>1, <3>2 DEF Arrive, RmtChange
    <3>3. CASE Drop(x)
      <4>1. PICK n : rmt' = [rmt EXCEPT ![x] = [rmt[x] EXCEPT !.arts = @ \ {n}]]
        BY <3>3 DEF Drop, RmtChange
      <4>2. rmt[x] \in Remote(x)
        BY DEF TypeOK
      <4> QED
        BY <2>1, <3>1, <4>1, <4>2 DEF Remote
    <3>4. ~Renumber(x)
      BY <2>1 DEF Renumber
    <3> QED
      BY <1>8, <3>2, <3>3, <3>4
  <2> QED
    BY <1>4, <2>1, <2>2
<1>9. ASSUME UNCHANGED <<rmt, shown, grp, range, over, lines, got>>, connected
      PROVE  Answer'
  <2>1. grp \in Groups
    BY <1>1, <1>9 DEF TypeOK
  <2>2. rmt'[grp].age = rmt[grp].age /\ rmt'[grp].last >= rmt[grp].last
    BY <1>2, <1>9, <2>1
  <2> QED
    BY <1>4, <1>9, <2>1, <2>2
<1>10. ASSUME FetchAll \/ Query PROVE Answer'
  BY <1>1, <1>10 DEF FetchAll, Query, overVars, Order, Sessions
<1>11. ASSUME NEW x \in Groups, ReadGroup(x) PROVE Answer'
  BY <1>1, <1>11 DEF ReadGroup, overVars, Order, Sessions
<1>12. ASSUME NEW m \in Posts, Post(m) \/ Cancel(m) PROVE Answer'
  <2>1. /\ UNCHANGED <<rmt, shown, grp, range, over, lines, got>>
        /\ plan = <<>>
    BY <1>12 DEF Post, Cancel, remoteVars, overVars
  <2> QED
    BY <1>1, <2>1 DEF Order, Sessions
<1>13. ASSUME \/ Tick \/ RmtAccept \/ Answered \/ PostDone
              \/ AskGroups \/ GroupsListed \/ GroupsUnlisted
              \/ UpdateGroups \/ GroupsDone \/ UNCHANGED vars
       PROVE  /\ UNCHANGED <<rmt, shown, grp, range, over, lines, got>>
              /\ connected
  BY <1>1, <1>13 DEF Tick, RmtAccept, Answered, PostDone, AskGroups,
     GroupsListed, GroupsUnlisted, UpdateGroups, GroupsDone, NextStep,
     remoteVars, overVars, sessionVars, vars
<1>14. ASSUME NEW x \in Groups, SelectGroup(x), grp' = grp
       PROVE  /\ UNCHANGED <<rmt, shown, grp, range, over, lines, got>>
              /\ connected
  BY <1>1, <1>14 DEF SelectGroup, remoteVars, overVars
<1>15. ASSUME NEW m \in Posts, Take(m)
       PROVE  /\ UNCHANGED <<rmt, shown, grp, range, over, lines, got>>
              /\ connected
  BY <1>1, <1>15 DEF Take, remoteVars, overVars, sessionVars
<1>16. ~WriteGroup /\ ~Break /\ ~Die
  BY <1>1 DEF WriteGroup, Break, Die, Deselect
<1>17. ASSUME NEW x \in Groups, SelectGroup(x) PROVE Answer'
  BY <1>5, <1>9, <1>14, <1>17
<1>18. CASE \/ Tick \/ RmtAccept \/ Answered \/ PostDone
            \/ AskGroups \/ GroupsListed \/ GroupsUnlisted
            \/ UpdateGroups \/ GroupsDone \/ UNCHANGED vars
  BY <1>9, <1>13, <1>18
<1>19. ASSUME NEW x \in Groups, MakeGroup(x) \/ TakeGroup(x) PROVE Answer'
  <2>1. /\ UNCHANGED <<rmt, shown, grp, range, over, lines, got>>
        /\ connected
    BY <1>1, <1>19 DEF MakeGroup, TakeGroup, remoteVars, overVars, sessionVars
  <2> QED
    BY <1>9, <2>1
<1>20. ASSUME NEW m \in Posts, Take(m) PROVE Answer'
  BY <1>9, <1>15, <1>20
<1> QED
  BY <1>6, <1>7, <1>8, <1>10, <1>11, <1>12, <1>16, <1>17, <1>18, <1>19, <1>20
     DEF Next, Step, Remotely

\* However often the connection breaks, the process is killed or the server
\* begins to count anew, the overviews of a group are in the order of their
\* numbers and none is there twice: rmtNext follows each line that comes.
THEOREM InSequence == Spec => []InOrder
<1>1. Init => Order
  <2> SUFFICES ASSUME Init PROVE Order
    OBVIOUS
  <2>1. \A x \in Groups : All(x) = <<>>
    BY SessionAssumption DEF Init, All
  <2> QED
    BY <2>1 DEF Init, Order, Sessions, Expected, Answer, InOrder, Present
<1>2. TypeOK /\ TypeOK' /\ Order /\ [Next]_vars => Order'
  BY SessionsNext, ExpectedNext, AnswerNext, InOrderNext DEF Order
<1>3. Order => InOrder
  BY DEF Order
<1> QED
  BY <1>1, <1>2, <1>3, TypeCorrect, PTL DEF Spec

-----------------------------------------------------------------------------
(* What is still to come of a group, and what its notice says               *)

\* As long as the server has not begun to count anew, rmtNext is not beyond its
\* articles.
Consistent == \A x \in Groups : rmt[x].age = 0 => rmtNext[x] <= rmt[x].last + 1

\* Where an article is that the group has and the overview file has not: before
\* the range only when max-fetch cuts it off, in the range among the lines that
\* are to come or in memory.
Covering ==
  grp # NoGroup /\ connected =>
     /\ range[2] <= rmt[grp].last
     /\ range[1] <= range[2] + 1
     /\ \A n \in rmt[grp].arts :
           n >= rmtNext[grp] /\ n < range[1] => n <= range[2] - MaxFetch
     /\ over => /\ lines \subseteq range[1] .. range[2]
                /\ \A n \in rmt[grp].arts :
                      n \in range[1] .. range[2] =>
                         n \in lines \/ <<rmt[grp].age, n>> \in InSeq(got)

Held == Consistent /\ Covering

LEMMA FirstAnswered ==
  ASSUME TypeOK, Expected, NEW x \in Groups, NEW a \in Answers(x)
  PROVE  /\ a[1] <= rmt[x].last + 1
         /\ \A n \in rmt[x].arts : a[1] <= n
         /\ rmt[x].arts # {} => a[2] = rmt[x].last
<1>1. rmt[x].arts \subseteq 1 .. rmt[x].last /\ rmt[x].last \in Nat
  BY RemoteTypes DEF Expected
<1>2. CASE rmt[x].arts # {}
  <2>1. /\ a[1] \in rmt[x].arts /\ \A n \in rmt[x].arts : a[1] <= n
        /\ a[2] = rmt[x].last
    BY <1>2 DEF Answers, Lowest
  <2> QED
    BY <1>1, <2>1
<1>3. CASE rmt[x].arts = {}
  BY <1>1, <1>3 DEF Answers
<1> QED
  BY <1>2, <1>3

\* What Client_changeToGrp and the choice of the range make of a group.
LEMMA Selected ==
  ASSUME TypeOK, Order, NEW x \in Groups, SelectGroup(x), grp' # grp
  PROVE  /\ grp = NoGroup /\ grp' = x /\ ~over /\ ~over' /\ connected
         /\ UNCHANGED <<rmt, rmtNext, shown, got, plan, known>>
         /\ \E a \in Answers(x) :
               /\ a[1] \in Nat /\ a[2] = rmt[x].last
               /\ a[1] <= rmt[x].last + 1
               /\ \A n \in rmt[x].arts : a[1] <= n
               /\ notice' = Notice(x, a[1], a[2])
               /\ range' = CutOldest(Start(x, a[1], a[2]), a[2])
<1>1. PICK a \in Answers(x) :
          /\ ~UpToDate(x, a[1], a[2])
          /\ grp' = x
          /\ range' = CutOldest(Start(x, a[1], a[2]), a[2])
          /\ notice' = Notice(x, a[1], a[2])
          /\ UNCHANGED <<shown, over, lines, got, todo>>
  BY DEF SelectGroup, overVars
<1>2. /\ grp = NoGroup /\ connected /\ ~over
      /\ UNCHANGED <<rmt, rmtNext, plan, known>>
  BY DEF SelectGroup, remoteVars, grpVars, Order, Sessions
<1>3. /\ a[1] \in Nat /\ a[2] \in Nat
      /\ a = <<0, 0>> \/ a[2] = rmt[x].last
  BY AnswerRange
<1>4. a[2] = rmt[x].last
  BY <1>1, <1>3 DEF UpToDate
<1>5. a[1] <= rmt[x].last + 1 /\ \A n \in rmt[x].arts : a[1] <= n
  BY FirstAnswered DEF Order
<1> QED
  BY <1>1, <1>2, <1>3, <1>4, <1>5

LEMMA ConsistentNext ==
  ASSUME TypeOK, TypeOK', Order, Held, [Next]_vars
  PROVE  Consistent'
<1>1. SUFFICES ASSUME NEW x \in Groups, rmt'[x].age = 0
               PROVE  rmtNext'[x] <= rmt'[x].last + 1
  BY DEF Consistent
<1>2. /\ rmt[x].last \in Nat /\ rmt[x].age \in Nat /\ rmtNext[x] \in Nat
      /\ rmt[x].age = 0 => rmtNext[x] <= rmt[x].last + 1
  BY RemoteTypes DEF Held, Consistent, TypeOK
<1>3. CASE UNCHANGED <<rmt, rmtNext>>
  BY <1>1, <1>2, <1>3
<1>4. ASSUME NEW y \in Groups, Arrive(y) \/ Drop(y) \/ Renumber(y)
      PROVE  rmtNext'[x] <= rmt'[x].last + 1
  <2>1. rmtNext' = rmtNext /\ DOMAIN rmt = Groups
    BY <1>4 DEF Arrive, Drop, Renumber, RmtChange, grpVars, TypeOK
  <2>2. CASE x # y
    BY <1>1, <1>2, <1>4, <2>1, <2>2 DEF Arrive, Drop, Renumber, RmtChange
  <2>3. CASE Arrive(x)
    BY <1>1, <1>2, <2>1, <2>3 DEF Arrive, RmtChange
  <2>4. CASE Drop(x)
    <3>1. PICK n : rmt' = [rmt EXCEPT ![x] = [rmt[x] EXCEPT !.arts = @ \ {n}]]
      BY <2>4 DEF Drop, RmtChange
    <3>2. rmt[x] \in Remote(x)
      BY DEF TypeOK
    <3>3. rmt'[x].last = rmt[x].last /\ rmt'[x].age = rmt[x].age
      BY <2>1, <3>1, <3>2 DEF Remote
    <3> QED
      BY <1>1, <1>2, <2>1, <3>3
  <2>5. CASE Renumber(x)
    BY <1>1, <1>2, <2>1, <2>5 DEF Renumber, RmtChange
  <2> QED
    BY <1>4, <2>2, <2>3, <2>4, <2>5
<1>5. ASSUME NEW y \in Groups, TakeGroup(y)
      PROVE  rmtNext'[x] <= rmt'[x].last + 1
  <2>1. rmt' = rmt
    BY <1>5 DEF TakeGroup, remoteVars
  <2>2. CASE rmtNext' = rmtNext
    BY <1>3, <2>1, <2>2
  <2>3. CASE rmtNext' # rmtNext
    <3>1. PICK a \in Answers(y) : rmtNext' = [rmtNext EXCEPT ![y] = a[1]]
      BY <1>5, <2>3 DEF TakeGroup, Grp_setRmtNext, grpVars
    <3>2. a[1] <= rmt[y].last + 1
      BY FirstAnswered DEF Order
    <3> QED
      BY <1>1, <1>2, <2>1, <3>1, <3>2 DEF TypeOK
  <2> QED
    BY <2>2, <2>3
<1>6. CASE GetLine
  <2>1. PICK n \in lines :
          /\ n \in Nat
          /\ rmtNext' = [rmtNext EXCEPT ![grp] = n + 1]
    BY <1>6, AllGrows
  <2>2. grp \in Groups /\ connected /\ grp # NoGroup /\ rmt' = rmt
    BY <1>6, AllGrows, SessionAssumption
  <2>3. n <= rmt[grp].last
    BY <2>2 DEF Order, Answer
  <2>4. CASE x = grp
    BY <1>2, <2>1, <2>2, <2>3, <2>4 DEF TypeOK
  <2>5. CASE x # grp
    BY <1>1, <1>2, <2>1, <2>2, <2>5 DEF TypeOK
  <2> QED
    BY <2>4, <2>5
<1>7. ASSUME NEW y \in Groups, MakeGroup(y) \/ ReadGroup(y) \/ SelectGroup(y)
      PROVE  UNCHANGED <<rmt, rmtNext>>
  BY <1>7 DEF MakeGroup, ReadGroup, SelectGroup, remoteVars, grpVars
<1>8. ASSUME NEW m \in Posts, Post(m) \/ Cancel(m) \/ Take(m)
      PROVE  UNCHANGED <<rmt, rmtNext>>
  BY <1>8 DEF Post, Cancel, Take, remoteVars, grpVars
<1>9. ASSUME
        \/ Tick \/ FetchAll \/ Query \/ RmtAccept \/ Answered \/ PostDone
        \/ AskGroups \/ GroupsListed \/ GroupsUnlisted \/ UpdateGroups
        \/ AskOver \/ WriteGroup \/ GroupsDone \/ Break \/ Die
        \/ UNCHANGED vars
      PROVE  UNCHANGED <<rmt, rmtNext>>
  BY <1>9 DEF Tick, FetchAll, Query, RmtAccept, Answered, PostDone,
     AskGroups, GroupsListed, GroupsUnlisted, UpdateGroups, AskOver,
     WriteGroup, GroupsDone, Break, Die, remoteVars, grpVars, vars
<1> QED
  BY <1>3, <1>4, <1>5, <1>6, <1>7, <1>8, <1>9 DEF Next, Step, Remotely

\* What is in memory after one more line.
LEMMA GotGrows ==
  ASSUME TypeOK, grp \in Groups, NEW e, got' = Append(got, e)
  PROVE  InSeq(got') = InSeq(got) \cup {e}
<1>1. got \in Seq(Overviews(grp))
  BY SessionAssumption DEF TypeOK
<1>2. /\ Len(got) \in Nat /\ DOMAIN got = 1 .. Len(got)
      /\ DOMAIN got' = 1 .. Len(got) + 1
      /\ \A i \in 1 .. Len(got) : got'[i] = got[i]
      /\ got'[Len(got) + 1] = e
  BY <1>1
<1> QED
  BY <1>2 DEF InSeq

LEMMA CoveringNext ==
  ASSUME TypeOK, TypeOK', Order, Held, [Next]_vars
  PROVE  Covering'
<1>1. SUFFICES ASSUME grp' # NoGroup, connected' PROVE Covering'
  BY DEF Covering
<1> USE SessionAssumption
<1>2. /\ range[1] \in Int /\ range[2] \in Int
      /\ lines \subseteq Nat
      /\ \A x \in Groups : /\ rmt[x].last \in Nat /\ rmt[x].age \in Nat
                           /\ rmtNext[x] \in Nat
                           /\ rmt[x].arts \subseteq 1 .. rmt[x].last
  <2>1. range[1] \in Int /\ range[2] \in Int /\ lines \subseteq Nat
    BY DEF TypeOK
  <2>2. \A x \in Groups : rmt[x].last \in Nat /\ rmt[x].age \in Nat
    BY RemoteTypes
  <2>3. \A x \in Groups : rmtNext[x] \in Nat /\ rmt[x].arts \subseteq 1 .. rmt[x].last
    BY DEF TypeOK, Order, Expected
  <2> QED
    BY <2>1, <2>2, <2>3
<1>3. grp \in Groups /\ connected =>
         /\ range[2] <= rmt[grp].last
         /\ range[1] <= range[2] + 1
         /\ \A n \in rmt[grp].arts :
               n >= rmtNext[grp] /\ n < range[1] => n <= range[2] - MaxFetch
         /\ over => /\ lines \subseteq range[1] .. range[2]
                    /\ \A n \in rmt[grp].arts :
                          n \in range[1] .. range[2] =>
                             n \in lines \/ <<rmt[grp].age, n>> \in InSeq(got)
  BY DEF Held, Covering
<1>4. ASSUME UNCHANGED <<grp, range, over, lines, got>>, connected,
             grp \in Groups => /\ rmtNext'[grp] = rmtNext[grp]
                               /\ rmt'[grp] = rmt[grp]
      PROVE  Covering'
  <2>1. grp \in Groups
    BY <1>1, <1>4 DEF TypeOK
  <2> QED
    BY <1>3, <1>4, <2>1 DEF Covering
<1>5. ASSUME NEW x \in Groups, Arrive(x) \/ Drop(x) \/ Renumber(x)
      PROVE  Covering'
  <2>1. /\ UNCHANGED <<grp, range, over, lines, got, rmtNext>>
        /\ connected /\ grp \in Groups /\ DOMAIN rmt = Groups
    BY <1>1, <1>5 DEF Arrive, Drop, Renumber, RmtChange, overVars, grpVars,
       sessionVars, TypeOK
  <2>2. CASE x # grp
    BY <1>4, <1>5, <2>1, <2>2 DEF Arrive, Drop, Renumber, RmtChange
  <2>3. CASE Arrive(grp)
    <3>1. /\ rmt'[grp].arts = rmt[grp].arts \cup {rmt[grp].last + 1}
          /\ rmt'[grp].last = rmt[grp].last + 1
          /\ rmt'[grp].age = rmt[grp].age
      BY <2>1, <2>3 DEF Arrive, RmtChange
    <3>2. ~(rmt[grp].last + 1 < range[1]) /\ rmt[grp].last + 1 \notin range[1] .. range[2]
      BY <1>2, <1>3, <2>1
    <3>3. range[2] <= rmt'[grp].last
      BY <1>2, <1>3, <2>1, <3>1
    <3> QED
      BY <1>3, <2>1, <3>1, <3>2, <3>3 DEF Covering
  <2>4. CASE Drop(grp)
    <3>1. PICK n : rmt' = [rmt EXCEPT ![grp] = [rmt[grp] EXCEPT !.arts = @ \ {n}]]
      BY <2>4 DEF Drop, RmtChange
    <3>2. rmt[grp] \in Remote(grp)
      BY <2>1 DEF TypeOK
    <3>3. /\ rmt'[grp].last = rmt[grp].last /\ rmt'[grp].age = rmt[grp].age
          /\ rmt'[grp].arts \subseteq rmt[grp].arts
      BY <2>1, <3>1, <3>2 DEF Remote
    <3> QED
      BY <1>3, <2>1, <3>3 DEF Covering
  <2>5. ~Renumber(x)
    BY <2>1 DEF Renumber
  <2> QED
    BY <1>5, <2>2, <2>3, <2>4, <2>5
<1>6. ASSUME NEW x \in Groups, SelectGroup(x), grp' # grp PROVE Covering'
  <2>1. PICK a \in Answers(x) :
               /\ a[1] \in Nat /\ a[2] = rmt[x].last
               /\ a[1] <= rmt[x].last + 1
               /\ \A n \in rmt[x].arts : a[1] <= n
               /\ range' = CutOldest(Start(x, a[1], a[2]), a[2])
    BY <1>6, Selected
  <2>2. grp' = x /\ ~over' /\ UNCHANGED <<rmt, rmtNext>>
    BY <1>6, Selected
  <2> DEFINE start == Start(x, a[1], a[2])
  <2>3. /\ start \in Nat /\ start <= rmt[x].last + 1
        /\ \A n \in rmt[x].arts : n >= rmtNext[x] => n >= start
    BY <1>2, <2>1 DEF Start
  <2> HIDE DEF start
  <2>4. range' = <<IF rmt[x].last - start > MaxFetch
                     THEN rmt[x].last - MaxFetch + 1 ELSE start, rmt[x].last>>
    BY <2>1 DEF CutOldest, start
  <2>5. /\ range'[2] <= rmt[x].last
        /\ range'[1] <= range'[2] + 1
        /\ \A n \in rmt[x].arts :
              n >= rmtNext[x] /\ n < range'[1] => n <= range'[2] - MaxFetch
    BY <1>2, <2>3, <2>4
  <2> QED
    BY <2>2, <2>5 DEF Covering
<1>7. ASSUME AskOver PROVE Covering'
  <2>1. /\ grp \in Groups /\ connected
        /\ UNCHANGED <<rmt, rmtNext, grp, range, got>>
        /\ lines' = rmt[grp].arts \cap (range[1] .. range[2])
    BY <1>7 DEF AskOver, remoteVars, grpVars, TypeOK
  <2> QED
    BY <1>3, <2>1 DEF Covering
<1>8. ASSUME GetLine PROVE Covering'
  <2>1. PICK n \in lines : /\ NextLine(n)
                           /\ got' = Append(got, <<rmt[grp].age, n>>)
                           /\ rmtNext' = [rmtNext EXCEPT ![grp] = n + 1]
    BY <1>8 DEF GetLine, Grp_setRmtNext
  <2>2. /\ grp \in Groups /\ connected /\ over
        /\ UNCHANGED <<grp, rmt, over, range>>
    BY <1>8, <2>1, AllGrows DEF Order, Sessions
  <2>3. lines' = lines \ {n}
    BY <2>1 DEF NextLine
  <2>4. InSeq(got') = InSeq(got) \cup {<<rmt[grp].age, n>>}
    BY <2>1, <2>2, GotGrows
  <2>5. n \in Nat /\ n >= range[1] /\ rmtNext'[grp] = n + 1
    BY <1>2, <1>3, <2>1, <2>2 DEF TypeOK
  <2>6. \A m \in rmt[grp].arts : ~(m >= n + 1 /\ m < range[1])
    BY <1>2, <2>2, <2>5
  <2> QED
    BY <1>3, <2>2, <2>3, <2>4, <2>5, <2>6 DEF Covering
<1>9. ASSUME NEW x \in Groups, TakeGroup(x) PROVE Covering'
  <2>1. /\ UNCHANGED <<rmt, grp, range, over, lines, got>> /\ connected
        /\ x \in known => rmtNext' = rmtNext
    BY <1>1, <1>9 DEF TakeGroup, remoteVars, overVars, sessionVars, grpVars
  <2>2. CASE x \in known
    BY <1>4, <2>1, <2>2
  <2>3. CASE x \notin known
    <3>1. grp # x
      BY <2>3 DEF Order, Sessions
    <3>2. grp \in Groups => rmtNext'[grp] = rmtNext[grp]
      BY <1>9, <2>3, <3>1 DEF TakeGroup, Grp_setRmtNext, TypeOK
    <3> QED
      BY <1>4, <2>1, <3>2
  <2> QED
    BY <2>2, <2>3
<1>10. ASSUME \/ FetchAll \/ Query
              \/ \E x \in Groups : ReadGroup(x)
              \/ \E m \in Posts : Post(m) \/ Cancel(m)
       PROVE  FALSE
  <2>1. grp' = grp /\ plan = <<>>
    BY <1>10 DEF FetchAll, Query, ReadGroup, Post, Cancel, overVars
  <2> QED
    BY <1>1, <2>1 DEF Order, Sessions
<1>11. ASSUME \/ Tick \/ RmtAccept \/ Answered \/ PostDone
              \/ AskGroups \/ GroupsListed \/ GroupsUnlisted
              \/ UpdateGroups \/ GroupsDone \/ UNCHANGED vars
              \/ \E x \in Groups : MakeGroup(x)
              \/ \E m \in Posts : Take(m)
       PROVE  Covering'
  <2>1. /\ UNCHANGED <<rmt, rmtNext, grp, range, over, lines, got>>
        /\ connected
    BY <1>1, <1>11 DEF Tick, RmtAccept, Answered, PostDone, AskGroups,
       GroupsListed, GroupsUnlisted, UpdateGroups, GroupsDone, NextStep,
       MakeGroup, Take, remoteVars, overVars, grpVars, sessionVars, vars
  <2> QED
    BY <1>4, <2>1
<1>12. ASSUME NEW x \in Groups, SelectGroup(x), grp' = grp PROVE Covering'
  <2>1. /\ UNCHANGED <<rmt, rmtNext, grp, range, over, lines, got>>
        /\ connected
    BY <1>1, <1>12 DEF SelectGroup, remoteVars, overVars, grpVars
  <2> QED
    BY <1>4, <2>1
<1>13. ~WriteGroup /\ ~Break /\ ~Die
  BY <1>1 DEF WriteGroup, Break, Die, Deselect
<1> QED
  BY <1>5, <1>6, <1>7, <1>8, <1>9, <1>10, <1>11, <1>12, <1>13
     DEF Next, Step, Remotely

LEMMA HeldAlways == Spec => [](TypeOK /\ Order /\ Held)
<1>1. Init => Order /\ Held
  <2> SUFFICES ASSUME Init PROVE Order /\ Held
    OBVIOUS
  <2>1. \A x \in Groups : All(x) = <<>>
    BY SessionAssumption DEF Init, All
  <2> QED
    BY <2>1 DEF Init, Order, Sessions, Expected, Answer, InOrder, Present,
                Held, Consistent, Covering
<1>2. TypeOK /\ TypeOK' /\ Order /\ Held /\ [Next]_vars => Order' /\ Held'
  BY SessionsNext, ExpectedNext, AnswerNext, InOrderNext, ConsistentNext,
     CoveringNext DEF Order, Held
<1> QED
  BY <1>1, <1>2, TypeCorrect, PTL DEF Spec

\* What a step may pass over, and what it has to keep.
Passed == \A g \in known : \A n \in rmtNext[g] .. (rmtNext'[g] - 1) :
             n \in rmt[g].arts =>
                 \/ <<rmt[g].age, n>> \in InSeq(shown[g]) \cup InSeq(got')
                 \/ n <= range[2] - MaxFetch

Kept == plan' # <<>> =>
           \A i \in DOMAIN got : got[i] \in InSeq(got') \cup InSeq(shown'[grp])

\* The action of NoneLost.
Careful == /\ \A g \in known : \A n \in rmtNext[g] .. (rmtNext'[g] - 1) :
                 n \in rmt[g].arts =>
                     \/ <<rmt[g].age, n>> \in InSeq(shown[g]) \cup InSeq(got')
                     \/ n <= range[2] - MaxFetch
           /\ plan' # <<>> =>
                 \A i \in DOMAIN got :
                     got[i] \in InSeq(got') \cup InSeq(shown'[grp])

LEMMA NothingPassed ==
  ASSUME TypeOK, Order, Held, [Next]_vars
  PROVE  Passed
<1> USE SessionAssumption
<1>1. SUFFICES ASSUME NEW x \in known, NEW n \in rmtNext[x] .. (rmtNext'[x] - 1),
                      n \in rmt[x].arts
               PROVE  \/ <<rmt[x].age, n>> \in InSeq(shown[x]) \cup InSeq(got')
                      \/ n <= range[2] - MaxFetch
  BY DEF Passed
<1>2. x \in Groups /\ rmtNext[x] \in Nat /\ rmtNext'[x] # rmtNext[x]
  <2>1. x \in Groups /\ rmtNext[x] \in Nat
    BY DEF TypeOK
  <2> QED
    BY <1>1, <2>1
<1>3. CASE GetLine
  <2>1. PICK m \in lines : /\ NextLine(m)
                           /\ got' = Append(got, <<rmt[grp].age, m>>)
                           /\ rmtNext' = [rmtNext EXCEPT ![grp] = m + 1]
    BY <1>3 DEF GetLine, Grp_setRmtNext
  <2>2. /\ grp \in Groups /\ grp # NoGroup /\ connected /\ over
        /\ m \in Nat
    <3>1. grp \in Groups /\ connected
      BY <1>3, AllGrows
    <3>2. m \in 1 .. MaxNumb[grp] /\ over
      BY <2>1, <3>1 DEF Order, Sessions, TypeOK
    <3> QED
      BY <3>1, <3>2
  <2>3. x = grp /\ rmtNext'[x] = m + 1
    BY <1>2, <2>1, <2>2 DEF TypeOK
  <2>4. n \in Int /\ n >= rmtNext[x] /\ n <= m
    BY <1>1, <1>2, <2>2, <2>3
  <2>5. /\ range[1] \in Int /\ range[2] \in Int
        /\ n < range[1] => n <= range[2] - MaxFetch
        /\ m \in range[1] .. range[2]
        /\ n \in range[1] .. range[2] =>
              n \in lines \/ <<rmt[x].age, n>> \in InSeq(got)
    BY <1>1, <2>1, <2>2, <2>3, <2>4 DEF Held, Covering, TypeOK
  <2>6. n \in lines => n = m
    BY <2>1, <2>2, <2>4 DEF NextLine, Lowest
  <2>7. InSeq(got') = InSeq(got) \cup {<<rmt[grp].age, m>>}
    BY <2>1, <2>2, GotGrows
  <2>8. CASE n < range[1]
    BY <2>5, <2>8
  <2>9. CASE ~(n < range[1])
    <3>1. n \in range[1] .. range[2]
      BY <2>2, <2>4, <2>5, <2>9
    <3> QED
      BY <2>3, <2>5, <2>6, <2>7, <3>1
  <2> QED
    BY <2>8, <2>9
<1>4. ASSUME NEW y \in Groups, TakeGroup(y)
      PROVE  rmtNext'[x] = rmtNext[x]
  BY <1>2, <1>4 DEF TakeGroup, Grp_setRmtNext, grpVars, TypeOK
<1>5. ASSUME NEW y \in Groups,
             \/ MakeGroup(y) \/ Arrive(y) \/ Drop(y) \/ Renumber(y)
             \/ ReadGroup(y) \/ SelectGroup(y)
      PROVE  rmtNext' = rmtNext
  BY <1>5 DEF MakeGroup, Arrive, Drop, Renumber, RmtChange, ReadGroup,
              SelectGroup, grpVars
<1>6. ASSUME NEW m \in Posts, Post(m) \/ Cancel(m) \/ Take(m)
      PROVE  rmtNext' = rmtNext
  BY <1>6 DEF Post, Cancel, Take, grpVars
<1>7. ASSUME
        \/ Tick \/ FetchAll \/ Query \/ RmtAccept \/ Answered \/ PostDone
        \/ AskGroups \/ GroupsListed \/ GroupsUnlisted \/ UpdateGroups
        \/ AskOver \/ WriteGroup \/ GroupsDone \/ Break \/ Die
        \/ UNCHANGED vars
      PROVE  rmtNext' = rmtNext
  BY <1>7 DEF Tick, FetchAll, Query, RmtAccept, Answered, PostDone,
     AskGroups, GroupsListed, GroupsUnlisted, UpdateGroups, AskOver,
     WriteGroup, GroupsDone, Break, Die, grpVars, vars
<1> QED
  BY <1>2, <1>3, <1>4, <1>5, <1>6, <1>7 DEF Next, Step, Remotely

LEMMA NothingDropped ==
  ASSUME TypeOK, Order, [Next]_vars
  PROVE  Kept
<1> USE SessionAssumption
<1>1. CASE got' = got
  BY <1>1 DEF Kept, InSeq
<1>2. CASE GetLine
  <2>1. PICK e : got' = Append(got, e)
    BY <1>2 DEF GetLine
  <2>2. grp \in Groups
    BY <1>2, AllGrows
  <2>3. InSeq(got') = InSeq(got) \cup {e}
    BY <2>1, <2>2, GotGrows
  <2> QED
    BY <2>3 DEF Kept, InSeq
<1>3. CASE WriteGroup
  <2>1. grp \in Groups /\ shown'[grp] = shown[grp] \o got
    BY <1>3 DEF WriteGroup, TypeOK
  <2>2. shown[grp] \in Seq(Overviews(grp)) /\ got \in Seq(Overviews(grp))
    BY <2>1 DEF TypeOK
  <2>3. \A i \in DOMAIN got : /\ Len(shown[grp]) + i \in DOMAIN shown'[grp]
                              /\ shown'[grp][Len(shown[grp]) + i] = got[i]
    BY <2>1, <2>2
  <2> QED
    BY <2>3 DEF Kept, InSeq
<1>4. Die => plan' = <<>>
  BY DEF Die
<1>5. ASSUME NEW y \in Groups,
             \/ MakeGroup(y) \/ Arrive(y) \/ Drop(y) \/ Renumber(y)
             \/ ReadGroup(y) \/ SelectGroup(y) \/ TakeGroup(y)
      PROVE  got' = got
  BY <1>5 DEF MakeGroup, Arrive, Drop, Renumber, RmtChange, ReadGroup,
              SelectGroup, TakeGroup, overVars
<1>6. ASSUME NEW m \in Posts, Post(m) \/ Cancel(m) \/ Take(m)
      PROVE  got' = got
  BY <1>6 DEF Post, Cancel, Take, overVars
<1>7. ASSUME
        \/ Tick \/ FetchAll \/ Query \/ RmtAccept \/ Answered \/ PostDone
        \/ AskGroups \/ GroupsListed \/ GroupsUnlisted \/ UpdateGroups
        \/ AskOver \/ GroupsDone \/ Break \/ UNCHANGED vars
      PROVE  got' = got
  BY <1>7 DEF Tick, FetchAll, Query, RmtAccept, Answered, PostDone,
     AskGroups, GroupsListed, GroupsUnlisted, UpdateGroups, AskOver,
     GroupsDone, Break, overVars, vars
<1> QED
  BY <1>1, <1>2, <1>3, <1>4, <1>5, <1>6, <1>7 DEF Next, Step, Remotely, Kept

\* However the connection breaks, the server drops articles and max-fetch cuts
\* a range: rmtNext passes no article that the server has but those that are
\* in the group or have max-fetch newer ones, and a line that has come gets
\* into the overview file unless the process is killed (Client_getOver,
\* Fetch_getNewArts, Cont_write).
THEOREM NothingIsLost == Spec => NoneLost
<1>1. TypeOK /\ Order /\ Held /\ [Next]_vars => [Careful]_vars
  BY NothingPassed, NothingDropped DEF Careful, Passed, Kept
<1>2. [][Careful]_vars => NoneLost
  BY PTL DEF Careful, NoneLost
<1> QED
  BY HeldAlways, <1>1, <1>2, PTL DEF Spec

-----------------------------------------------------------------------------
Justified ==
  grp' # grp /\ grp' # NoGroup =>
     LET r == rmt[grp']
     IN  CASE notice'.kind = "none" -> TRUE
           [] notice'.kind = "inconsistent" -> r.age > 0
           [] notice'.kind = "missing" ->
                 \/ notice'.next = 0
                 \/ \A n \in notice'.next .. (notice'.first - 1) :
                       /\ n <= r.last /\ n \notin r.arts
                       /\ <<r.age, n>> \notin InSeq(shown[grp'])

LEMMA NoticeJustified ==
  ASSUME TypeOK, Order, Held, NEW x \in Groups, SelectGroup(x), grp' # grp
  PROVE  Justified
<1> USE SessionAssumption
<1>1. grp = NoGroup /\ grp' = x
  BY Selected
<1>2. PICK a \in Answers(x) :
               /\ a[1] \in Nat /\ a[2] = rmt[x].last
               /\ a[1] <= rmt[x].last + 1
               /\ \A n \in rmt[x].arts : a[1] <= n
               /\ notice' = Notice(x, a[1], a[2])
  BY Selected
<1>3. /\ rmt[x].last \in Nat /\ rmt[x].age \in Nat /\ rmtNext[x] \in Nat
      /\ rmt[x].age = 0 => rmtNext[x] <= rmt[x].last + 1
      /\ rmt[x].arts \subseteq Nat
  <2>1. rmt[x].last \in Nat /\ rmt[x].age \in Nat
    BY RemoteTypes
  <2>2. rmt[x].arts \subseteq 1 .. MaxNumb[x]
    BY DEF TypeOK, Remote, Numbers
  <2>3. rmtNext[x] \in Nat
    BY DEF TypeOK
  <2>4. rmt[x].age = 0 => rmtNext[x] <= rmt[x].last + 1
    BY DEF Held, Consistent
  <2> QED
    BY <2>1, <2>2, <2>3, <2>4
<1>4. /\ notice'.first = a[1] /\ notice'.next = rmtNext[x]
      /\ notice'.kind = IF rmtNext[x] > rmt[x].last + 1 THEN "inconsistent"
                        ELSE IF rmtNext[x] < a[1] THEN "missing"
                        ELSE "none"
  BY <1>2 DEF Notice
<1>5. ASSUME NEW n \in rmtNext[x] .. (a[1] - 1)
      PROVE  /\ n <= rmt[x].last /\ n \notin rmt[x].arts
             /\ <<rmt[x].age, n>> \notin InSeq(shown[x])
  <2>1. n \in Int /\ n >= rmtNext[x] /\ n < a[1]
    BY <1>2, <1>3
  <2>2. n <= rmt[x].last /\ n \notin rmt[x].arts
    BY <1>2, <1>3, <2>1
  <2>3. ASSUME NEW i \in DOMAIN shown[x], shown[x][i] = <<rmt[x].age, n>>
        PROVE  FALSE
    <3>1. shown[x] \in Seq(Overviews(x)) /\ All(x) = shown[x]
      <4>1. shown[x] \in Seq(Overviews(x)) /\ x # grp
        BY <1>1 DEF TypeOK
      <4> QED
        BY <4>1, ConcatEmptySeq DEF All
    <3>2. All(x)[i][2] < rmtNext[x]
      BY <2>3, <3>1 DEF Order, Expected, Present
    <3>3. All(x)[i][2] = n
      BY <2>3, <3>1
    <3> QED
      BY <1>3, <2>1, <3>2, <3>3
  <2> QED
    BY <2>2, <2>3 DEF InSeq
<1>6. CASE rmtNext[x] > rmt[x].last + 1
  <2>1. notice'.kind = "inconsistent"
    BY <1>2, <1>3, <1>4, <1>6
  <2>2. rmt[x].age > 0
    BY <1>3, <1>6
  <2> QED
    BY <1>1, <2>1, <2>2 DEF Justified
<1>7. CASE ~(rmtNext[x] > rmt[x].last + 1) /\ rmtNext[x] < a[1]
  <2>1. notice'.kind = "missing"
    BY <1>4, <1>7
  <2> QED
    BY <1>1, <1>4, <1>5, <2>1 DEF Justified
<1>8. CASE ~(rmtNext[x] > rmt[x].last + 1) /\ ~(rmtNext[x] < a[1])
  <2>1. notice'.kind = "none"
    BY <1>4, <1>8
  <2> QED
    BY <2>1 DEF Justified
<1> QED
  BY <1>6, <1>7, <1>8

\* Only SelectGroup comes to a group.
LEMMA OnlySelected ==
  ASSUME [Next]_vars, ~ \E x \in Groups : SelectGroup(x)
  PROVE  grp' = grp \/ grp' = NoGroup
<1>1. ASSUME NEW y \in Groups,
             \/ MakeGroup(y) \/ Arrive(y) \/ Drop(y) \/ Renumber(y)
             \/ ReadGroup(y) \/ TakeGroup(y)
      PROVE  grp' = grp
  BY <1>1 DEF MakeGroup, Arrive, Drop, Renumber, RmtChange, ReadGroup,
              TakeGroup, overVars
<1>2. ASSUME NEW m \in Posts, Post(m) \/ Cancel(m) \/ Take(m)
      PROVE  grp' = grp
  BY <1>2 DEF Post, Cancel, Take, overVars
<1>3. ASSUME
        \/ Tick \/ FetchAll \/ Query \/ RmtAccept \/ Answered \/ PostDone
        \/ AskGroups \/ GroupsListed \/ GroupsUnlisted \/ UpdateGroups
        \/ AskOver \/ GetLine \/ GroupsDone \/ Break \/ UNCHANGED vars
      PROVE  grp' = grp
  BY <1>3 DEF Tick, FetchAll, Query, RmtAccept, Answered, PostDone,
     AskGroups, GroupsListed, GroupsUnlisted, UpdateGroups, AskOver, GetLine,
     GroupsDone, Break, overVars, vars
<1>4. CASE WriteGroup \/ Die
  BY <1>4 DEF WriteGroup, Die, Deselect
<1> QED
  BY <1>1, <1>2, <1>3, <1>4 DEF Next, Step, Remotely

\* A group is said to count inconsistently only after the server has begun
\* anew, and to miss articles only when the server has dropped them before they
\* could be shown (Pseudo_cntInconsistent and Pseudo_missArts in fetch.c).
THEOREM NoticesAreJustified == Spec => NoticesAreTrue
<1>1. TypeOK /\ Order /\ Held /\ [Next]_vars => [Justified]_vars
  <2> SUFFICES ASSUME TypeOK, Order, Held, [Next]_vars PROVE Justified
    OBVIOUS
  <2>1. CASE \E x \in Groups : SelectGroup(x)
    <3>1. CASE grp' = grp
      BY <3>1 DEF Justified
    <3> QED
      BY <2>1, <3>1, NoticeJustified
  <2> QED
    BY <2>1, OnlySelected DEF Justified
<1>2. [][Justified]_vars => NoticesAreTrue
  BY PTL DEF Justified, NoticesAreTrue
<1> QED
  BY HeldAlways, <1>1, <1>2, PTL DEF Spec
=============================================================================
