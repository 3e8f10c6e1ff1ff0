----------------------------- MODULE GroupInfo ------------------------------
(***************************************************************************)
(* groupinfo, the database of the newsgroups of the news server: what      *)
(* noffle --create, --delete, --fetch and --query groups make of it, the   *)
(* one record of it that each process keeps in memory (the static grp of   *)
(* group.c), and NEWGROUPS, which tells readers of new groups by the       *)
(* record's time of creation and the stamp groupinfo.lastupdate.           *)
(*                                                                         *)
(* As in NewsServer a server has the lock from a command to the next five  *)
(* idle seconds, and a tool's run is one step.  Time is time( NULL ), which *)
(* may pass at any point.  Article numbers are the matter of NewsServer; the *)
(* time of the last access is left out, but each write of it writes back    *)
(* the whole record, and that is here.                                     *)
(***************************************************************************)
EXTENDS Integers, FiniteSets, Wildmat

CONSTANTS Readers,    \* each with a newsreader and a server process
          Names,      \* names of newsgroups
          Known,      \* those that remote servers list and noffle allows
          NoName,     \* the empty string: server.grp, and grp.name once closed
          Unloaded,   \* grp.name of a process that has just been started
          NoReader,
          Remotes,    \* the servers of noffle.conf, the preferred ones first
          LOCAL_SERVER,
          MaxTime     \* bound: the clock

ASSUME GroupAssumption ==
    /\ Known \subseteq Names /\ NoName \notin Names
    /\ Unloaded \notin Names \cup {NoName}
    /\ NoReader \notin Readers
    /\ Remotes \in Seq(STRING) /\ LOCAL_SERVER \in STRING
    /\ MaxTime \in Nat \ {0}

VARIABLES now,
          lock,     \* the reader whose server has the databases open
          info,     \* groupinfo.gdbm: records by name
          stamp,    \* groupinfo.lastupdate, 0 when there is no file
          memo,     \* memo[s]: the static grp of s's server
          grp,      \* grp[s]: server.grp
          polled,   \* polled[s]: when s last asked for new groups
          heard,    \* heard[s]: the groups s has been told of
          slipped   \* history: groups registered by a list that broke, or in
                    \* the very second in which s had asked

vars == <<now, lock, info, stamp, memo, grp, polled, heard, slipped>>
newsreader == <<polled, heard, slipped>>

Servs  == {Remotes[k] : k \in DOMAIN Remotes} \cup {LOCAL_SERVER}
Time   == 0 .. MaxTime
Record == [serv : Servs, created : Time]

IsInfo(f) == /\ f = [g \in DOMAIN f |-> f[g]]
             /\ DOMAIN f \subseteq Names \cup {NoName}
             /\ \A g \in DOMAIN f : f[g] \in Record

TypeOK == /\ now \in Time \ {0}
          /\ lock \in Readers \cup {NoReader}
          /\ IsInfo(info)
          /\ stamp \in Time
          /\ memo \in [Readers -> [name : Names \cup {NoName, Unloaded}, rec : Record]]
          /\ grp \in [Readers -> Names \cup {NoName}]
          /\ polled \in [Readers -> Time]
          /\ heard \in [Readers -> SUBSET (Names \cup {NoName})]
          /\ slipped \in [Readers -> SUBSET Names]

NoRecord == [serv |-> LOCAL_SERVER, created |-> 0]
Started  == [name |-> Unloaded, rec |-> NoRecord]

Init == /\ now = 1
        /\ lock = NoReader
        /\ info = [g \in {} |-> NoRecord]
        /\ stamp = 0
        /\ memo = [s \in Readers |-> Started]
        /\ grp = [s \in Readers |-> NoName]
        /\ polled = [s \in Readers |-> 0]
        /\ heard = [s \in Readers |-> {}]
        /\ slipped = [s \in Readers |-> {}]

-----------------------------------------------------------------------------
(* The record in memory.                                                   *)

\* The static grp after loadGrp: a name that is already there is not looked
\* up again; a name without a record changes nothing.
Loaded(m, g) == IF m.name # g /\ g \in DOMAIN info
                  THEN [name |-> g, rec |-> info[g]] ELSE m

\* saveGrp.
Stored(m) == [g \in DOMAIN info \cup {m.name} |->
                 IF g = m.name THEN m.rec ELSE info[g]]

Remember(s, m) == memo' = [memo EXCEPT ![s] = m]

\* Grp_close as it would be if it left the name.
KeepName(m) == m

\* Grp_close: the name becomes empty, the rest of the record stays.
Grp_close(m) == [m EXCEPT !.name = NoName]

\* Grp_setLastAccess and its like: the whole record is written, unless there
\* is none.
Grp_set(s, g) ==
    LET m == Loaded(memo[s], g)
    IN  IF m.name = g THEN Remember(s, m) /\ info' = Stored(m)
        ELSE UNCHANGED <<memo, info>>

-----------------------------------------------------------------------------
(* Commands of a server.                                                   *)

Command(s) == lock \in {NoReader, s} /\ lock' = s

\* GROUP and LISTGROUP.
ChangeToGrp(s, g) ==
    /\ g \in DOMAIN info
    /\ Command(s)
    /\ Remember(s, Loaded(memo[s], g))
    /\ grp' = [grp EXCEPT ![s] = g]
    /\ UNCHANGED <<now, info, stamp, newsreader>>

\* A command that asks for a group last: POST, LIST (for all groups), LIST of
\* one group, XOVER in a group.
Ask(s, g) ==
    /\ g \in DOMAIN info
    /\ Command(s)
    /\ Remember(s, Loaded(memo[s], g))
    /\ UNCHANGED <<now, info, stamp, grp, newsreader>>

\* noteInterest, at the end of ARTICLE and BODY; an article can be read by its
\* message-ID when no group is selected or the group has been deleted since.
NoteInterest(s) ==
    /\ Command(s)
    /\ Grp_set(s, grp[s])
    /\ UNCHANGED <<now, stamp, grp, newsreader>>

\* doNewgrps: the groups made after time t, if groupinfo was changed since.
NewSince(t) == {g \in DOMAIN info : (stamp = 0 \/ t <= stamp)
                                    /\ info[g].created > t}

\* The newsreader asks for the groups made since it asked last.
NewGroups(s) ==
    /\ Command(s)
    /\ heard' = [heard EXCEPT ![s] = @ \cup NewSince(polled[s])]
    /\ polled' = [polled EXCEPT ![s] = now]
    /\ \E g \in DOMAIN info \cup {memo[s].name} : Remember(s, Loaded(memo[s], g))
    /\ UNCHANGED <<now, info, stamp, grp, slipped>>

Idle(s) == /\ lock = s
           /\ lock' = NoReader
           /\ Remember(s, Grp_close(memo[s]))
           /\ UNCHANGED <<now, info, stamp, grp, newsreader>>

\* QUIT or death; the newsreader's next connection gets a new process.
Leave(s) == /\ lock' = IF lock = s THEN NoReader ELSE lock
            /\ Remember(s, Started)
            /\ grp' = [grp EXCEPT ![s] = NoName]
            /\ UNCHANGED <<now, info, stamp, newsreader>>

-----------------------------------------------------------------------------
(* Tools.                                                                  *)

Tool == lock = NoReader /\ UNCHANGED <<lock, memo, grp, polled>>

Passing == now' \in {now, now + 1} /\ now' <= MaxTime

\* What is new to the newsreaders, and what they cannot be told of.
Registered(new, broke) ==
    /\ heard' = [s \in Readers |-> heard[s] \ new]
    /\ slipped' = [s \in Readers |->
                      IF broke \/ now = polled[s] THEN slipped[s] \cup new
                      ELSE slipped[s] \ new]

\* noffle --create; the stamp is written later than the record.
doCreateLocalGroup(g) ==
    /\ Tool /\ Passing
    /\ g \notin DOMAIN info
    /\ info' = Stored([name |-> g, rec |-> [serv |-> LOCAL_SERVER, created |-> now]])
    /\ stamp' = now'
    /\ Registered({g}, FALSE)

\* The rank of a server in noffle.conf.
searchServ(v) == {k \in DOMAIN Remotes : Remotes[k] = v}

Cfg_servIsPreferential(v, w) ==
    \E j \in searchServ(v) : \A k \in searchServ(w) : j < k

\* processGrps without the stamp.
ProcessWithoutStamp(v, told, broke) ==
    LET new == told \ DOMAIN info
    IN  /\ info' = [g \in DOMAIN info \cup new |->
                      IF g \in new THEN [serv |-> v, created |-> now]
                      ELSE info[g]]
        /\ stamp' = stamp
        /\ Registered(new, broke)

\* processGrps for the answer of server v to LIST or NEWGROUPS; an answer that
\* is not read to its end leaves no stamp.
processGrps(v, told, broke) ==
    LET new   == told \ DOMAIN info
        moved == {g \in told \cap DOMAIN info :
                     Cfg_servIsPreferential(v, info[g].serv)}
    IN  /\ info' = [g \in DOMAIN info \cup new |->
                      CASE g \in new   -> [serv |-> v, created |-> now]
                        [] g \in moved -> [info[g] EXCEPT !.serv = v]
                        [] OTHER       -> info[g]]
        /\ stamp' = IF new \cup moved # {} /\ ~broke THEN now' ELSE stamp
        /\ Registered(new, broke)

\* noffle --fetch and --query groups, for the part about groups.
Update == /\ Tool /\ Passing
          /\ \E k \in DOMAIN Remotes, told \in SUBSET Known, broke \in BOOLEAN :
                processGrps(Remotes[k], told, broke)

\* noffle --delete, without the articles (see DeletedArticles).
doDeleteLocalGroup(g) ==
    /\ Tool
    /\ g \in DOMAIN info
    /\ info' = [h \in DOMAIN info \ {g} |-> info[h]]
    /\ UNCHANGED <<now, stamp, heard, slipped>>

Tick == /\ now < MaxTime
        /\ now' = now + 1
        /\ UNCHANGED <<lock, info, stamp, memo, grp, newsreader>>

-----------------------------------------------------------------------------
ServerNext(s) == \/ \E g \in DOMAIN info : ChangeToGrp(s, g) \/ Ask(s, g)
                 \/ NoteInterest(s) \/ NewGroups(s) \/ Idle(s) \/ Leave(s)

ToolNext == \/ Update
            \/ \E g \in Names : doCreateLocalGroup(g) \/ doDeleteLocalGroup(g)

Next == (\E s \in Readers : ServerNext(s)) \/ ToolNext \/ Tick

Spec == Init /\ [][Next]_vars

-----------------------------------------------------------------------------
(* Pure parts.                                                             *)

\* isForbiddenGroupName, for names of which each character stands for a
\* component or a dot.
forbiddenGroupNames ==
    {<<<<"*", ".", "*">>, FALSE>>, <<<<"control", ".", "*">>, TRUE>>,
     <<<<"to", ".", "*">>, TRUE>>, <<<<"*", ".", "all">>, TRUE>>,
     <<<<"*", ".", "all", ".", "*">>, TRUE>>, <<<<"all", ".", "*">>, TRUE>>,
     <<<<"*", ".", "ctl">>, TRUE>>, <<<<"*", ".", "ctl", ".", "*">>, TRUE>>,
     <<<<"ctl", ".", "*">>, TRUE>>}

isForbiddenGroupName(name) ==
    \E f \in forbiddenGroupNames : Wld_match(name, f[1]) = f[2]

\* Mistake: the references of an article are not looked at.
DeletedWhereFound(file, last, shared) == {file[n] : n \in DOMAIN file}

\* What doDeleteLocalGroup takes out of the article database: "file" are the
\* overviews of the group, "shared" the articles that other groups have, too.
\* For a number without an overview msgId is that of the turn before.
DeletedArticles(file, last, shared) ==
    LET first == CHOOSE n \in DOMAIN file : \A k \in DOMAIN file : n <= k
        msgId[n \in first .. last] ==
            IF n \in DOMAIN file THEN file[n] ELSE msgId[n - 1]
    IN  {msgId[n] : n \in {k \in first .. last :
                              k \in DOMAIN file => file[k] \notin shared}}

-----------------------------------------------------------------------------
(* Properties.                                                             *)

\* What a process has in memory of a group is what the file has, as long as it
\* has the lock; when it has not, no group's name is left in memory, because
\* the file may change (Grp_close).  The empty name is the exception.
CacheIsRecord ==
    \A s \in Readers : memo[s].name \in Names =>
        /\ lock = s
        /\ memo[s].name \in DOMAIN info
        /\ memo[s].rec = info[memo[s].name]

\* A group's time of creation stays as long as the group; a group that is not
\* there comes by --create or from a server's list at the time of that, not
\* back from the memory of a process (saveGrp).
RecordsStand ==
    [][\A g \in Names \cap DOMAIN info' :
          info'[g].created = IF g \in DOMAIN info THEN info[g].created ELSE now]_vars

\* A newsreader that asks for the groups made since it asked last hears of
\* every group (NEWGROUPS), if it was registered in another second than one in
\* which it asked, and from a list that was read to its end.
NewGroupsTold ==
    \A s \in Readers : \A g \in Names \cap DOMAIN info :
        info[g].created <= polled[s] => g \in heard[s] \cup slipped[s]

\* The names of up to three components that isForbiddenGroupName judges
\* otherwise than the comments in client.c: forbidden are those of a single
\* component, control.* and to.*, and those with a component "all" or "ctl".
Components == {"control", "to", "all", "ctl", "x"}

Misforbidden ==
    {parts \in UNION {[1 .. n -> Components] : n \in 1 .. 3} :
        LET n == Len(parts)
            name == [k \in 1 .. 2 * n - 1 |->
                        IF k % 2 = 1 THEN parts[(k + 1) \div 2] ELSE "."]
        IN  isForbiddenGroupName(name) #
                (\/ n = 1 \/ parts[1] \in {"control", "to"}
                 \/ \E k \in 1 .. n : parts[k] \in {"all", "ctl"})}

\* However a group is called, no group of a remote server has a forbidden name
\* and no other name is kept out, and LIST tells of it exactly when its name has
\* the form of the pattern - although DoMatch gives up early ("This can greatly
\* speed up failing wildcard patterns", wildmat.c), reads classes in one pass
\* with the odd places of "]" and "-", and is not asked at all when
\* printGroups sees no wildcard.
NamesAreJudged ==
    \A g \in DOMAIN info : /\ info[g].serv # LOCAL_SERVER => Misforbidden = {}
                           /\ Misjudged = {}

\* The overviews and articles with which --delete does not take just the
\* articles that only belong to the group (noffle.1) and those that do not
\* but stand in front of a number without an overview.
Misdeleted ==
    {c \in [file   : UNION {[nums -> {"p", "q"}] : nums \in (SUBSET (1 .. 3)) \ {{}}},
            last   : {3, 4},
            shared : SUBSET {"p", "q"}] :
        DeletedArticles(c.file, c.last, c.shared) #
            {c.file[n] : n \in {k \in DOMAIN c.file :
                                   \/ c.file[k] \notin c.shared
                                   \/ k < c.last /\ k + 1 \notin DOMAIN c.file}}}

\* Whatever group is deleted, and whatever is in it, no article is lost to
\* other groups but in front of a gap.
DeletesItsArticles == \A g \in DOMAIN info : Misdeleted = {}
=============================================================================
