--------------------------- MODULE RemoteSession ---------------------------
(***************************************************************************)
(* What noffle exchanges with a remote news server: it posts the articles *)
(* of the outgoing directory (outgoing.c), asks for groups, and takes the *)
(* overviews of new articles (fetch.c and client.c).  Which of these one   *)
(* connection is used for depends on who has opened it: noffle --fetch,    *)
(* noffle --query groups, or a server that is online when its reader posts *)
(* or selects a group.  Whoever it is holds the global lock for as long,   *)
(* so there is one session at a time and the spool is its own.             *)
(*                                                                         *)
(* The remote server is not part of this repository; it is modelled from   *)
(* what client.c sends and understands.  It numbers the articles of a      *)
(* group as they come, drops old or cancelled ones, gets new groups, and   *)
(* may be set up again and then counts from one.  The articles that are    *)
(* marked and retrieved at the end of noffle --fetch: see module Requests. *)
(***************************************************************************)
EXTENDS FiniteSets, Integers, Sequences

CONSTANTS Groups,      \* names of groups, none of them forbidden
          OldGroups,   \* those the remote server has had from the beginning
          NoGroup,     \* none of them
          Posts,       \* articles that the readers here write
          NoPost,      \* none of them
          MaxFetch,    \* max-fetch in noffle.conf
          MaxNumb,     \* bound: the highest number, for each group, one
                       \* less each time it is set up again
          MaxAge,      \* bound: how often a group is set up again
          MaxTime      \* bound: the minutes that pass

ASSUME SessionAssumption == /\ OldGroups \subseteq Groups
                            /\ NoGroup \notin Groups
                            /\ NoPost \notin Posts
                            /\ MaxFetch \in Nat
                            /\ MaxNumb \in [Groups -> Nat]
                            /\ MaxAge \in Nat
                            /\ MaxTime \in Nat

VARIABLES clock,      \* minutes
          made,       \* made[g]: when the remote server got the group
          rmt,        \* rmt[g]: the group at the remote server
          taken,      \* the articles of ours that it has accepted
          queue,      \* the outgoing directory
          known,      \* the groups in groupinfo
          rmtNext,    \* rmtNext[g]: the number groupinfo expects next
          shown,      \* shown[g]: overviews the overview file has got
          stamp,      \* lastupdate.SERVER
          plan,       \* what is left of the session
          connected,  \* client.connected
          hand,       \* the article that is being posted
          asked,      \* has LIST or NEWGROUPS been answered?
          list,       \* the lines of the answer that have not been read
          todo,       \* groups that are still to be updated
          grp,        \* the group that is
          range,      \* the first and last number to ask XOVER for
          over,       \* has XOVER been sent?
          lines,      \* the numbers in XOVER's answer that are still to come
          got,        \* overviews in memory that are not in the file
          written,    \* history: what readers have posted here
          notice,     \* history: what has been put into the group about it
          late        \* history: groups made while a list was being read

remoteVars  == <<clock, made, rmt, late>>
queueVars   == <<taken, queue, hand, written>>
grpVars     == <<known, rmtNext>>
listVars    == <<stamp, asked, list>>
overVars    == <<shown, grp, range, over, lines, got, notice>>
sessionVars == <<plan, connected, todo>>
vars == <<remoteVars, queueVars, grpVars, listVars, overVars, sessionVars>>

Never   == -1
NoRange == <<1, 0>>
Steps   == {"post", "newgroups", "list", "update", "groups"}
NoNotice == [kind |-> "none", first |-> 0, next |-> 0]

Numbers(g)   == 0 .. MaxNumb[g]
Overviews(g) == (0 .. MaxAge) \X Numbers(g)
Remote(g)    == [arts : SUBSET (1 .. MaxNumb[g]), last : Numbers(g),
                 age : 0 .. MaxAge]
Times        == 0 .. MaxTime
Notices      == [kind : {"none", "missing", "inconsistent"}, first : Nat, next : Nat]

InSeq(s) == {s[i] : i \in DOMAIN s}

TypeOK == /\ clock \in Times
          /\ made \in [Groups -> Times \cup {Never}]
          /\ DOMAIN rmt = Groups /\ \A g \in Groups : rmt[g] \in Remote(g)
          /\ queue \subseteq Posts /\ taken \subseteq Posts
          /\ hand \in Posts \cup {NoPost} /\ written \subseteq Posts
          /\ known \subseteq Groups /\ late \subseteq Groups
          /\ rmtNext \in [Groups -> Nat]
          /\ DOMAIN shown = Groups
          /\ \A g \in Groups : shown[g] \in Seq(Overviews(g))
          /\ stamp \in Times \cup {Never}
          /\ plan \in Seq(Steps)
          /\ connected \in BOOLEAN /\ asked \in BOOLEAN
          /\ list \subseteq Groups /\ todo \subseteq Groups
          /\ grp \in Groups \cup {NoGroup}
          /\ range \in Int \X Int
          /\ lines \subseteq IF grp = NoGroup THEN {} ELSE 1 .. MaxNumb[grp]
          /\ over \in BOOLEAN
          /\ got \in IF grp = NoGroup THEN {<<>>} ELSE Seq(Overviews(grp))
          /\ notice \in Notices

Init == /\ clock = 0
        /\ made = [g \in Groups |-> IF g \in OldGroups THEN 0 ELSE Never]
        /\ rmt = [g \in Groups |-> [arts |-> {}, last |-> 0, age |-> 0]]
        /\ taken = {} /\ queue = {} /\ hand = NoPost /\ written = {}
        /\ known = {} /\ late = {}
        /\ rmtNext = [g \in Groups |-> 0]
        /\ shown = [g \in Groups |-> <<>>]
        /\ stamp = Never
        /\ plan = <<>> /\ connected = FALSE /\ todo = {}
        /\ asked = FALSE /\ list = {}
        /\ grp = NoGroup /\ range = NoRange /\ over = FALSE /\ lines = {}
        /\ got = <<>> /\ notice = NoNotice

-----------------------------------------------------------------------------
(* The remote server *)

Tick == /\ clock < MaxTime
        /\ clock' = clock + 1
        /\ UNCHANGED <<made, rmt, late, queueVars, grpVars, listVars, overVars,
                       sessionVars>>

MakeGroup(g) ==
    /\ made[g] = Never
    /\ made' = [made EXCEPT ![g] = clock]
    /\ late' = IF asked THEN late \cup {g} ELSE late
    /\ UNCHANGED <<clock, rmt, queueVars, grpVars, listVars, overVars, sessionVars>>

RmtChange(g, new) ==
    /\ made[g] # Never
    /\ rmt' = [rmt EXCEPT ![g] = new]
    /\ UNCHANGED <<clock, made, late, queueVars, grpVars, listVars, overVars,
                   sessionVars>>

\* An article comes, from here or from elsewhere.
Arrive(g) == LET n == rmt[g].last + 1
             IN  /\ n <= MaxNumb[g] - rmt[g].age
                 /\ RmtChange(g, [arts |-> rmt[g].arts \cup {n}, last |-> n,
                                  age |-> rmt[g].age])

Drop(g) == \E n \in rmt[g].arts : RmtChange(g, [rmt[g] EXCEPT !.arts = @ \ {n}])

\* The server is down while it is being set up again.
Renumber(g) == /\ ~connected
               /\ rmt[g].age < MaxAge
               /\ rmt[g].last > 0
               /\ RmtChange(g, [arts |-> {}, last |-> 0, age |-> rmt[g].age + 1])

Lowest(ns) == {n \in ns : \A m \in ns : n <= m}

\* The first and last number that a group is said to have.
Answers(g) ==
  IF rmt[g].arts # {} THEN Lowest(rmt[g].arts) \X {rmt[g].last}
                      ELSE {<<0, 0>>, <<rmt[g].last + 1, rmt[g].last>>}

-----------------------------------------------------------------------------
(* Sessions: Fetch_init, the steps of the plan, Fetch_close.  When          *)
(* Client_connect fails nothing at all happens.                             *)

Open(steps) == plan' = steps /\ connected' = TRUE

\* The step that the plan begins with has been done.
NextStep == /\ plan' = Tail(plan)
            /\ connected' = (connected /\ Len(plan) > 1)

At(steps) == plan # <<>> /\ Head(plan) \in steps

\* noffle --fetch.
FetchAll == /\ plan = <<>>
            /\ Open(<<"post", "newgroups", "update">>)
            /\ UNCHANGED <<remoteVars, queueVars, grpVars, listVars, overVars, todo>>

\* noffle --query groups.
Query == /\ plan = <<>>
         /\ Open(<<"list">>)
         /\ UNCHANGED <<remoteVars, queueVars, grpVars, listVars, overVars, todo>>

\* A reader of a server that is online selects a group (checkNewArts).
ReadGroup(g) ==
    /\ plan = <<>>
    /\ g \in known
    /\ Open(<<"groups">>)
    /\ todo' = {g}
    /\ UNCHANGED <<remoteVars, queueVars, grpVars, listVars, overVars>>

-----------------------------------------------------------------------------
(* Outgoing articles *)

Out_add(m)    == queue' = queue \cup {m}
Out_remove(m) == queue' = queue \ {m}
Out_find(m)   == m \in queue

\* A server that is online posts all that is queued after each POST.
PostArts == \/ UNCHANGED sessionVars
            \/ Open(<<"post">>) /\ UNCHANGED todo

PostArticle(m) == Out_add(m) /\ written' = written \cup {m}

\* A reader posts to a remote group, which has to be known here.
Post(m) ==
    /\ plan = <<>>
    /\ m \notin written
    /\ known # {}
    /\ PostArticle(m)
    /\ PostArts
    /\ UNCHANGED <<remoteVars, taken, hand, grpVars, listVars, overVars>>

\* Ctrl_cancel finds the article in the outgoing directory: noffle --cancel,
\* or a control message that is posted.
Cancel(m) ==
    /\ plan = <<>>
    /\ Out_find(m)
    /\ Out_remove(m)
    /\ PostArts
    /\ UNCHANGED <<remoteVars, taken, hand, written, grpVars, listVars, overVars>>

\* Mistake: the article is removed when it has been posted.
TakeAndKeep(m) ==
    /\ At({"post"})
    /\ hand = NoPost
    /\ m \in queue
    /\ hand' = m
    /\ UNCHANGED <<remoteVars, taken, queue, written, grpVars, listVars, overVars,
                   sessionVars>>

\* Fetch_postArts: the next article of the directory is removed, then it is
\* given to Client_postArt, whether there is still a connection or not.
Take(m) ==
    /\ At({"post"})
    /\ hand = NoPost
    /\ m \in queue
    /\ Out_remove(m)
    /\ hand' = m
    /\ UNCHANGED <<remoteVars, taken, written, grpVars, listVars, overVars,
                   sessionVars>>

RmtAccept ==
    /\ connected
    /\ hand \notin taken \cup {NoPost}
    /\ taken' = taken \cup {hand}
    /\ UNCHANGED <<remoteVars, queue, hand, written, grpVars, listVars, overVars,
                   sessionVars>>

\* The answer to the article, a refusal of POST or of the article, or no
\* answer.  returnArticleToSender does nothing about the latter.
Answered == /\ hand # NoPost
            /\ hand' = NoPost
            /\ UNCHANGED <<remoteVars, taken, queue, written, grpVars, listVars,
                           overVars, sessionVars>>

PostDone == /\ At({"post"})
            /\ hand = NoPost /\ queue = {}
            /\ NextStep
            /\ UNCHANGED <<remoteVars, queueVars, grpVars, listVars, overVars, todo>>

-----------------------------------------------------------------------------
(* New groups *)

\* saveGrp: the record is in the database at once.
Grp_setRmtNext(g, n) == rmtNext' = [rmtNext EXCEPT ![g] = n]

Utl_stamp == stamp' = clock

\* What LIST and NEWGROUPS are answered with.  NEWGROUPS is sent with the
\* time of lastupdate.SERVER, its seconds set to zero.
Listed == {g \in Groups : /\ made[g] # Never
                          /\ At({"list"}) \/ made[g] >= stamp}

AskGroups ==
    /\ At({"newgroups", "list"})
    /\ connected /\ ~asked
    /\ At({"newgroups"}) => stamp # Never
    /\ asked' = TRUE
    /\ list' = Listed
    /\ UNCHANGED <<remoteVars, queueVars, grpVars, stamp, overVars, sessionVars>>

\* processGrps, one line: a group that is not known yet is counted from its
\* first article on.
TakeGroup(g) ==
    /\ connected /\ g \in list
    /\ list' = list \ {g}
    /\ IF g \in known
         THEN UNCHANGED grpVars
         ELSE \E a \in Answers(g) :
                 /\ known' = known \cup {g}
                 /\ Grp_setRmtNext(g, a[1])
    /\ UNCHANGED <<remoteVars, queueVars, stamp, asked, overVars, sessionVars>>

\* Mistake: lastupdate.SERVER is written when the connection has broken, too.
StampAnyway ==
    /\ At({"newgroups", "list"})
    /\ asked /\ ~connected
    /\ asked' = FALSE
    /\ list' = {}
    /\ Utl_stamp
    /\ NextStep
    /\ UNCHANGED <<remoteVars, queueVars, grpVars, overVars, todo>>

\* The end of the answer: the time is that of now, not that of the question.
GroupsListed ==
    /\ At({"newgroups", "list"})
    /\ asked /\ connected /\ list = {}
    /\ asked' = FALSE
    /\ Utl_stamp
    /\ NextStep
    /\ UNCHANGED <<remoteVars, queueVars, grpVars, list, overVars, todo>>

\* The connection is lost, LIST or NEWGROUPS is refused, or NEWGROUPS cannot be
\* sent, since lastupdate.SERVER is not there: the session goes on without.
GroupsUnlisted ==
    /\ At({"newgroups", "list"})
    /\ connected => ~asked
    /\ asked' = FALSE
    /\ list' = {}
    /\ NextStep
    /\ UNCHANGED <<remoteVars, queueVars, grpVars, stamp, overVars, todo>>

-----------------------------------------------------------------------------
(* New overviews *)

\* Fetch_updateGrps; every group that is known is on the fetch list.
UpdateGroups ==
    /\ At({"update"})
    /\ todo' = known
    /\ plan' = <<"groups">>
    /\ UNCHANGED <<remoteVars, queueVars, grpVars, listVars, overVars, connected>>

\* Mistake: a group without articles is not told from one that counts anew.
UpToDateByNumber(g, first, last) == rmtNext[g] = last + 1

UpToDate(g, first, last) == \/ rmtNext[g] = last + 1
                            \/ first = 0 /\ last = 0

\* Where Fetch_getNewArts begins, before max-fetch.
Start(g, first, last) ==
  IF rmtNext[g] \in first .. last THEN rmtNext[g] ELSE first

\* One more than max-fetch does not count as too many.
CutOldest(start, last) == <<IF last - start > MaxFetch
                              THEN last - MaxFetch + 1 ELSE start, last>>

\* Pseudo_cntInconsistent, Pseudo_missArts, and what they say.
Notice(g, first, last) ==
  [kind  |-> IF rmtNext[g] > last + 1 THEN "inconsistent"
             ELSE IF rmtNext[g] < first THEN "missing"
             ELSE "none",
   first |-> first, next |-> rmtNext[g]]

\* Client_changeToGrp, Cont_read and the choice of the range.  A group that
\* is up to date is left as it is.
SelectGroup(g) ==
    /\ connected /\ grp = NoGroup
    /\ g \in todo
    /\ \E a \in Answers(g) :
          IF UpToDate(g, a[1], a[2])
            THEN /\ todo' = todo \ {g}
                 /\ UNCHANGED overVars
            ELSE LET start == Start(g, a[1], a[2])
                 IN  /\ grp' = g
                     /\ range' = CutOldest(start, a[2])
                     /\ notice' = Notice(g, a[1], a[2])
                     /\ UNCHANGED <<shown, over, lines, got, todo>>
    /\ UNCHANGED <<remoteVars, queueVars, grpVars, listVars, plan, connected>>

\* XOVER.  When there is nothing in the range the answer is an error, which
\* comes to the same.
AskOver ==
    /\ connected /\ grp # NoGroup /\ ~over
    /\ over' = TRUE
    /\ lines' = rmt[grp].arts \cap (range[1] .. range[2])
    /\ UNCHANGED <<remoteVars, queueVars, grpVars, listVars, sessionVars,
                   shown, grp, range, got, notice>>

\* parseOvLn: a line comes with its number; the lines are sorted by it.
NextLine(n) == n \in Lowest(lines) /\ lines' = lines \ {n}

\* Mistake: an article that is got is expected next.
GetLineAgain ==
    \E n \in lines :
        /\ connected
        /\ NextLine(n)
        /\ got' = Append(got, <<rmt[grp].age, n>>)
        /\ Grp_setRmtNext(grp, n)
        /\ UNCHANGED <<remoteVars, queueVars, listVars, sessionVars,
                       known, shown, grp, range, over, notice>>

\* Mistake: the first line moves on to the end of the range.
GetLineOfAll ==
    \E n \in lines :
        /\ connected
        /\ NextLine(n)
        /\ got' = Append(got, <<rmt[grp].age, n>>)
        /\ Grp_setRmtNext(grp, range[2] + 1)
        /\ UNCHANGED <<remoteVars, queueVars, listVars, sessionVars,
                       known, shown, grp, range, over, notice>>

\* One line of the answer: Cont_app in memory, Grp_setRmtNext on disk.
GetLine ==
    \E n \in lines :
        /\ connected
        /\ NextLine(n)
        /\ got' = Append(got, <<rmt[grp].age, n>>)
        /\ Grp_setRmtNext(grp, n + 1)
        /\ UNCHANGED <<remoteVars, queueVars, listVars, sessionVars,
                       known, shown, grp, range, over, notice>>

Deselect == /\ grp' = NoGroup /\ range' = NoRange /\ over' = FALSE
            /\ lines' = {} /\ got' = <<>> /\ notice' = NoNotice

\* The answer has ended, or the connection: Cont_write.
WriteGroup ==
    /\ grp # NoGroup
    /\ connected => over /\ lines = {}
    /\ shown' = [shown EXCEPT ![grp] = @ \o got]
    /\ todo' = todo \ {grp}
    /\ Deselect
    /\ UNCHANGED <<remoteVars, queueVars, grpVars, listVars, plan, connected>>

\* Without a connection Client_changeToGrp fails for each group.
GroupsDone ==
    /\ At({"groups"})
    /\ grp = NoGroup
    /\ todo = {} \/ ~connected
    /\ todo' = {}
    /\ NextStep
    /\ UNCHANGED <<remoteVars, queueVars, grpVars, listVars, overVars>>

-----------------------------------------------------------------------------
\* The remote server closes the connection or is silent for too long: getLn,
\* getTxtLn or putCmdLn calls breakDown, and all of them fail from then on.
Break == /\ connected
         /\ connected' = FALSE
         /\ UNCHANGED <<remoteVars, queueVars, grpVars, listVars, overVars, plan, todo>>

\* A signal, SIGPIPE from a connection that has been reset among them.  What
\* is in memory is lost.
Die == /\ plan # <<>>
       /\ plan' = <<>> /\ connected' = FALSE /\ todo' = {}
       /\ hand' = NoPost
       /\ asked' = FALSE /\ list' = {}
       /\ Deselect
       /\ UNCHANGED <<remoteVars, taken, queue, written, grpVars, stamp, shown>>

Remotely(g) == MakeGroup(g) \/ Arrive(g) \/ Drop(g) \/ Renumber(g)

Step == \/ RmtAccept \/ Answered \/ PostDone
        \/ AskGroups \/ GroupsListed \/ GroupsUnlisted \/ UpdateGroups
        \/ AskOver \/ GetLine \/ WriteGroup \/ GroupsDone
        \/ \E m \in Posts : Take(m)
        \/ \E g \in Groups : TakeGroup(g) \/ SelectGroup(g)

Next == \/ Tick \/ FetchAll \/ Query \/ Step \/ Break \/ Die
        \/ \E g \in Groups : Remotely(g) \/ ReadGroup(g)
        \/ \E m \in Posts : Post(m) \/ Cancel(m)

Spec == Init /\ [][Next]_vars

-----------------------------------------------------------------------------
(* Properties *)

\* What the remote server has accepted is not offered to it again, whatever
\* becomes of its answer and of the process that waits for it (Out_remove
\* before Client_postArt).
PostedOnce == taken \cap queue = {}

\* The overviews of a group, in the file and in memory.
All(g) == shown[g] \o (IF g = grp THEN got ELSE <<>>)

\* Overviews get into a group in the order of their numbers and none gets
\* there twice, however often a fetch is broken off or the group is counted
\* anew (rmtNext against what has been written).
InOrder ==
    \A g \in Groups : \A i, j \in DOMAIN All(g) :
        i < j => \/ All(g)[i][1] < All(g)[j][1]
                 \/ /\ All(g)[i][1] = All(g)[j][1]
                    /\ All(g)[i][2] < All(g)[j][2]

\* rmtNext does not pass an article that the remote server has and that is
\* not shown, but for those with at least max-fetch newer ones; and what is in
\* memory gets into the file of its group, unless the process is killed.
NoneLost ==
    [][/\ \A g \in known : \A n \in rmtNext[g] .. (rmtNext'[g] - 1) :
             n \in rmt[g].arts =>
                 \/ <<rmt[g].age, n>> \in InSeq(shown[g]) \cup InSeq(got')
                 \/ n <= range[2] - MaxFetch
       /\ plan' # <<>> =>
             \A i \in DOMAIN got :
                 got[i] \in InSeq(got') \cup InSeq(shown'[grp])]_vars

\* A group that was there when the last list was begun is known: NEWGROUPS
\* will not name it again.
NoGroupOverlooked ==
    \A g \in Groups \ late :
        made[g] # Never /\ made[g] < stamp => g \in known

\* A group is said to count inconsistently only if the remote server has
\* begun anew, and to miss articles only if the server had articles that it
\* has deleted before they could be shown here, or the group was known with 0
\* as its first number.
NoticesAreTrue ==
    [][grp' # grp /\ grp' # NoGroup =>
          LET r == rmt[grp']
          IN  CASE notice'.kind = "none" -> TRUE
                [] notice'.kind = "inconsistent" -> r.age > 0
                [] notice'.kind = "missing" ->
                      \/ notice'.next = 0
                      \/ \A n \in notice'.next .. (notice'.first - 1) :
                            /\ n <= r.last /\ n \notin r.arts
                            /\ <<r.age, n>> \notin InSeq(shown[grp'])]_vars

=============================================================================
