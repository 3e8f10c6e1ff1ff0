------------------------------ MODULE Reading -------------------------------
(***************************************************************************)
(* What a reader of the news server sees: NewsServer with the article      *)
(* pointer, the commands that move it, and the numbers that LIST, GROUP,   *)
(* LISTGROUP, XOVER, XHDR and XPAT name.                                   *)
(*                                                                         *)
(* A command that only answers is the step Answers; what it answers is an  *)
(* operator of the state.  An argument is a number or a range as sscanf    *)
(* takes it apart.                                                         *)
(***************************************************************************)
EXTENDS NewsServer

VARIABLE artPtr   \* artPtr[s]: server.artPtr

readingVars == <<vars, artPtr>>

ReadingInit == Init /\ artPtr = [s \in Servers |-> 0]

\* The numbers of a content that an article or general info stands for.
Existing(c) == {n \in DOMAIN c.arts : Cont_validNumb(c, n)}

PointTo(s, n) == artPtr' = [artPtr EXCEPT ![s] = n]

-----------------------------------------------------------------------------
(* GROUP, LISTGROUP and LIST.                                              *)

\* changeToGrp.  The first number of a group without articles is a number
\* that is not there.
ChangeToGrp(s, g) == SelectGroup(s, g) /\ PointTo(s, cont'[s].first)

\* The answer to GROUP: the number of articles, as far as first and last tell
\* it, and these.
GroupAnswer(c) == IF c.first > c.last THEN <<0, 0, 0>>
                  ELSE <<c.last - c.first + 1, c.first, c.last>>

\* needsPseudoGenInfo.
NeedsGenInfo(g) == ~(g \in Local \/ Fetchlist_contains(g) \/ online)

\* Mistake: the general info is not thought of.
PlainLast(g) == last[g]

\* printActive: a general info will be waiting in the group.
ListedLast(g) == IF NeedsGenInfo(g) THEN last[g] + 1 ELSE last[g]

-----------------------------------------------------------------------------
(* NEXT and LAST.                                                          *)

\* Mistake: the search ends at the first number that is not there.
NoGap(c, n) == n + 1

\* The number at which the search of doNext stops.
Forward(c, n) ==
    LET from[k \in 0 .. c.last + 1] ==
          IF Cont_validNumb(c, k) \/ k > c.last THEN k ELSE from[k + 1]
    IN  from[n + 1]

\* The number at which the search of doLast stops.
Backward(c, n) ==
    LET from[k \in -1 .. c.last] ==
          IF Cont_validNumb(c, k) \/ k < c.first THEN k ELSE from[k - 1]
    IN  from[n - 1]

\* Where the command leads to when its search stops at m: nowhere when no
\* article is selected, or when there is none in that direction.
Step(c, n, m) == IF Cont_validNumb(c, n) THEN {m} \cap Existing(c) ELSE {}
After(c, n)   == Step(c, n, Forward(c, n))
Before(c, n)  == Step(c, n, Backward(c, n))

DoNext(s) == \E n \in After(cont[s], artPtr[s])  : PointTo(s, n)
DoLast(s) == \E n \in Before(cont[s], artPtr[s]) : PointTo(s, n)

-----------------------------------------------------------------------------
(* ARTICLE, BODY, HEAD and STAT.                                           *)

\* whichId: the pointer for an article that is there.  A message-ID leaves
\* the pointer alone.
WhichId(s) ==
    LET c == cont[s]
    IN  {n \in Existing(c) : grp[s] # NoGroup /\ Readable(c.arts[n])}
        \cup (IF db # {} THEN {artPtr[s]} ELSE {})

ReadArticle(s) == Read(s) /\ \E n \in WhichId(s) : PointTo(s, n)

HeadOrStat(s) == \E n \in WhichId(s) : PointTo(s, n)

\* An overview whose article is no longer in the database: the pointer moves
\* before this is noticed.
NoSuchArticle(s) ==
    /\ grp[s] # NoGroup
    /\ \E n \in Existing(cont[s]) : ~Readable(cont[s].arts[n]) /\ PointTo(s, n)

-----------------------------------------------------------------------------
(* XOVER, XHDR and XPAT.                                                   *)

\* Arguments: none, "a", "a-", "a-b"; bound: numbers up to MaxNew + 2.
Ranges ==
    LET ns == 0 .. MaxNew + 2
    IN  [kind : {"none"}, a : {0}, b : {0}] \cup [kind : {"one", "from"}, a : ns, b : {0}]
        \cup [kind : {"span"}, a : ns, b : ns]

\* Mistake: "a-" is taken for "a".
BoundsOfOne(c, ptr, q) ==
    LET f == IF q.kind = "none" THEN ptr ELSE q.a
        l == IF q.kind = "span" THEN q.b ELSE f
    IN  <<Max({f, c.first}), Min({l, c.last})>>

\* parseRange: first and last.
Bounds(c, ptr, q) ==
    LET f == Max({IF q.kind = "none" THEN ptr ELSE q.a, c.first})
        l == Min({CASE q.kind = "none" -> ptr [] q.kind = "one"  -> q.a
                    [] q.kind = "from" -> c.last [] q.kind = "span" -> q.b, c.last})
    IN  <<f, IF f > c.last \/ l < c.first THEN f - 1 ELSE l>>

InRange(c, ptr, q) ==
    LET r == Bounds(c, ptr, q) IN Existing(c) \cap (r[1] .. r[2])

\* The lines of XOVER; when nothing is in the range, that of the pointer.
XOver(c, ptr, q) ==
    IF InRange(c, ptr, q) = {} THEN Existing(c) \cap {ptr} ELSE InRange(c, ptr, q)

\* The lines of XHDR, and of XPAT with a pattern that matches.
XHdr(c, ptr, q) == InRange(c, ptr, q)

-----------------------------------------------------------------------------
Answers(s) == /\ \/ DoNext(s) \/ DoLast(s) \/ HeadOrStat(s) \/ NoSuchArticle(s)
                 \/ UNCHANGED artPtr
              /\ Command(s)
              /\ UNCHANGED <<spool, fetchlist, online, db, session>>

\* Commands that leave the pointer alone, and tools.
Others(s) == \/ \E m \in Arts, gs \in SUBSET Groups : Post(s, m, gs)
             \/ \E m \in db : PostCancel(s, m)
             \/ Idle(s)

ReaderNext(s) == \/ \E g \in Groups : ChangeToGrp(s, g)
                 \/ ReadArticle(s)
                 \/ Answers(s)
                 \/ Others(s) /\ UNCHANGED artPtr
                 \/ Leave(s) /\ PointTo(s, 0)

ReadingNext == \/ \E s \in Servers : ReaderNext(s)
               \/ ToolNext /\ UNCHANGED artPtr

ReadingSpec == ReadingInit /\ [][ReadingNext]_readingVars

-----------------------------------------------------------------------------
(* Properties *)

\* The numbers that NEXT leads to, beginning with n.
Walk(c, n) ==
    LET from[k \in 0 .. c.last] ==
          IF After(c, k) = {} THEN {k} \cap Existing(c)
          ELSE {k} \cup from[CHOOSE m \in After(c, k) : TRUE]
    IN  from[n]

\* NEXT leads from the article that GROUP selects to every article of the
\* content, whatever has been cancelled or expired in between, and LAST leads
\* back the same way.
NextReachesAll ==
    \A s \in Servers :
        LET c == cont[s]
        IN  Existing(c) # {} =>
                /\ Walk(c, c.first) = Existing(c)
                /\ \A n \in Existing(c) : \A m \in After(c, n) :
                       Before(c, m) = {n}

\* The articles that a client asks for, by the syntax of XOVER.
Asked(c, ptr, q) == {n \in Existing(c) : CASE q.kind = "none" -> n = ptr
                                           [] q.kind = "one"  -> n = q.a
                                           [] q.kind = "from" -> n >= q.a
                                           [] q.kind = "span" -> n \in q.a .. q.b}

\* XHDR and XOVER tell of all articles that were asked for and of no others;
\* only when none of them is there XOVER tells of the current one instead.
RangesAreTold ==
    \A s \in Servers : grp[s] # NoGroup =>
        \A q \in Ranges :
            LET asked == Asked(cont[s], artPtr[s], q)
            IN  /\ XHdr(cont[s], artPtr[s], q) = asked
                /\ asked # {} => XOver(cont[s], artPtr[s], q) = asked

\* LIST ACTIVE counts the general info that will be waiting in a group: the
\* last number it names is the one GROUP names when it reads the group (the
\* comment in printActive), and its first is not behind that of GROUP - as
\* long as groupinfo encloses the overview file, which one server's cached
\* numbers can end (news_reused).
ListTellsGroup ==
    \A g \in Groups :
        LET answer == GroupAnswer(ReadCont(g, over[g], last[g]))
        IN  DOMAIN over[g] \subseteq first[g] .. last[g] /\ answer[1] > 0 =>
                answer[3] = ListedLast(g) /\ first[g] <= answer[2]

\* A group that a command puts on the fetch list gets a notice of it
\* (Pseudo_autoSubscribed in noteInterest), unless the reader has posted
\* to another group since it selected this one.
SubscriptionConfirmed ==
    [][\A s \in Servers : \A g \in fetchlist' \ fetchlist :
          lock' = s /\ cont[s].name = grp[s] =>
              \E n \in DOMAIN over'[g] : /\ over'[g][n] \in Notices \cap db'
                                         /\ <<n, over'[g][n]>> \notin numbered[g]]_vars
=============================================================================
