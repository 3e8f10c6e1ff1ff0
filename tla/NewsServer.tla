---------------------------- MODULE NewsServer -----------------------------
(***************************************************************************)
(* The news server of the hunt: noffle -r processes, one per reader, and   *)
(* interactive noffle runs that share overview files, groupinfo, fetchlist *)
(* and article database.                                                   *)
(*                                                                         *)
(* A server holds the global lock from its first command until it has been *)
(* idle for five seconds (SpoolLock), so commands of one server are atomic *)
(* for the others; but what it has cached of the selected group (cont)     *)
(* stays in memory while the lock is away.  A tool's run is one step.      *)
(* Commands that only answer from what is cached, and the article pointer  *)
(* they move, are left out here.                                           *)
(***************************************************************************)
EXTENDS Content

CONSTANTS Servers, NoServer, Groups, NoGroup,
          Local,            \* the groups whose server is GRP_LOCAL_SERVER_NAME
          Arts,             \* message-IDs of articles people write
          Notices,          \* message-IDs of articles made by genPseudo
          Reactions,        \* what noteInterest may do by noffle.conf, which
                            \* every process reads when it starts
          AutoUnsubscribe,  \* an option of noffle.conf
          MaxNumb,          \* bound: highest article number given out, for each
                            \* group
          MaxNew            \* bound: new overviews in one fetch of a group

ASSUME NewsAssumption ==
    /\ NoServer \notin Servers /\ NoGroup \notin Groups
    /\ Local \subseteq Groups
    /\ Arts \cap Notices = {} /\ GenInfo \notin Arts \cup Notices
    /\ Reactions \subseteq {"subscribe", "info", "nothing"}
    /\ AutoUnsubscribe \in BOOLEAN
    /\ MaxNumb \in [Groups -> Nat] /\ MaxNew \in Nat

VARIABLES lock,       \* the server that has the databases open
          over,       \* over[g]: overview file of g
          first,      \* first[g], last[g]: groupinfo entry of g
          last,
          fetchlist,  \* the groups on the fetch list
          online,     \* Online_true()
          db,         \* message-IDs in the article database
          grp,        \* grp[s]: server.grp
          cont,       \* cont[s]: cont
          numbered    \* history: every <<number, id>> an overview file had

spool   == <<over, first, last, numbered>>
session == <<grp, cont>>
vars    == <<lock, spool, fetchlist, online, db, session>>

Ids == Arts \cup Notices \cup {GenInfo}

IsFile(f) == /\ f = [n \in DOMAIN f |-> f[n]]
             /\ DOMAIN f \subseteq Nat
             /\ \A n \in DOMAIN f : f[n] \in Ids

IsContent(c) == /\ c = [name |-> c.name, first |-> c.first, last |-> c.last,
                        arts |-> c.arts]
                /\ c.name \in Groups \cup {NoGroup}
                /\ c.first \in Nat /\ c.last \in Nat
                /\ IsFile(c.arts)

TypeOK == /\ lock \in Servers \cup {NoServer}
          /\ DOMAIN over = Groups /\ \A g \in Groups : IsFile(over[g])
          /\ first \in [Groups -> Nat] /\ last \in [Groups -> Nat]
          /\ fetchlist \subseteq Groups
          /\ online \in BOOLEAN
          /\ db \subseteq Arts \cup Notices
          /\ grp \in [Servers -> Groups \cup {NoGroup}]
          /\ DOMAIN cont = Servers /\ \A s \in Servers : IsContent(cont[s])
          /\ numbered \in [Groups -> SUBSET (Nat \X Ids)]

\* New groups have first 1 and last 0 (Grp_create).
Init == /\ lock = NoServer
        /\ over = [g \in Groups |-> NoFile]
        /\ first = [g \in Groups |-> 1]
        /\ last = [g \in Groups |-> 0]
        /\ fetchlist = {}
        /\ online = FALSE
        /\ db = {}
        /\ grp = [s \in Servers |-> NoGroup]
        /\ cont = [s \in Servers |-> NoContent(NoGroup)]
        /\ numbered = [g \in Groups |-> {}]

-----------------------------------------------------------------------------
(* Overview files and groupinfo.                                           *)

\* Save as it would be if a caller forgot Grp_setFirstLast.
SaveFilesOnly(new) ==
    /\ over' = [g \in Groups |-> IF g \in DOMAIN new
                                   THEN Cont_write(new[g]) ELSE over[g]]
    /\ numbered' = [g \in Groups |->
                       IF g \in DOMAIN new
                         THEN numbered[g]
                              \cup {<<n, new[g].arts[n]>> : n \in Saved(new[g])}
                         ELSE numbered[g]]
    /\ UNCHANGED <<first, last>>

\* Cont_write and Grp_setFirstLast for the contents new[g], g \in DOMAIN new.
Save(new) ==
    /\ over' = [g \in Groups |-> IF g \in DOMAIN new
                                   THEN Cont_write(new[g]) ELSE over[g]]
    /\ first' = [g \in Groups |-> IF g \in DOMAIN new
                                    THEN ContWritten(new[g]).first
                                    ELSE first[g]]
    /\ last' = [g \in Groups |-> IF g \in DOMAIN new
                                   THEN new[g].last ELSE last[g]]
    /\ numbered' = [g \in Groups |->
                       IF g \in DOMAIN new
                         THEN numbered[g]
                              \cup {<<n, new[g].arts[n]>> : n \in Saved(new[g])}
                         ELSE numbered[g]]

Fresh(g) == Cont_read(g, over[g], last[g])

\* A notice that genPseudo can make now: its message-ID is new.
FreshNotices == {m \in Notices \ db : \A g \in Groups :
                    \A p \in numbered[g] : p[2] # m}

\* What a fetch may add to a group: notices of genPseudo and overviews, the
\* same article again when the remote server has renumbered its articles.
News(g) == {ids \in UNION {[1 .. k -> Arts \cup FreshNotices] : k \in 0 .. MaxNew} :
               /\ Fresh(g).last + Len(ids) <= MaxNumb[g]
               /\ \A i, j \in DOMAIN ids : ids[i] = ids[j] => i = j}

IdsOf(ids) == {ids[i] : i \in DOMAIN ids}

-----------------------------------------------------------------------------
(* The fetch list: each process reads the file before it looks or writes.  *)

Fetchlist_contains(g) == g \in fetchlist
Fetchlist_add(g)      == fetchlist \cup {g}
Fetchlist_remove(g)   == fetchlist \ {g}
Fetchlist_write(list) == fetchlist' = list

-----------------------------------------------------------------------------
(* Commands of a server.  Each runs with the global lock held and leaves   *)
(* it held; Idle is the timeout of waitCmdLn.                              *)

Command(s) == lock \in {NoServer, s} /\ lock' = s

\* With no group selected the empty name is none that noteInterest knows.
Unnoted(s) == LET g == grp[s] IN g \notin Local /\ ~online /\ ~Fetchlist_contains(g)

\* AutoSubscribe without Pseudo_autoSubscribed.
SubscribeSilently(s) == /\ "subscribe" \in Reactions /\ Unnoted(s)
                        /\ Fetchlist_write(Fetchlist_add(grp[s]) \cap Groups)
                        /\ UNCHANGED <<spool, db, cont>>

\* Pseudo_autoSubscribed puts a notice behind what is cached.  A content that
\* has no name has no file either, and no command shows it.
Pseudo_autoSubscribed(s) ==
    \E m \in FreshNotices :
       LET new == Cont_app(cont[s], <<m>>)
       IN  /\ db' = db \cup {m}
           /\ \/ /\ new.name = NoGroup
                 /\ UNCHANGED <<spool, cont>>
              \/ /\ new.name # NoGroup
                 /\ new.last <= MaxNumb[new.name]
                 /\ Save([h \in {new.name} |-> new])
                 /\ cont' = [cont EXCEPT ![s] = ContWritten(new)]

\* auto-subscribe.  With no group selected Fetchlist_write writes a line that
\* is read back as the name of its mode, which is no group.
AutoSubscribe(s) ==
    /\ "subscribe" \in Reactions /\ Unnoted(s)
    /\ Fetchlist_write(Fetchlist_add(grp[s]) \cap Groups)
    /\ Pseudo_autoSubscribed(s)

\* info-always-unread: what is cached tells the group's numbers.
InfoAlways(s) ==
    LET c == cont[s]
    IN  /\ "info" \in Reactions /\ Unnoted(s)
        /\ c.name # NoGroup
        /\ c.last <= MaxNumb[c.name]
        /\ first' = [first EXCEPT ![c.name] =
                        IF c.first = c.last THEN c.last + 1 ELSE c.first]
        /\ last' = [last EXCEPT ![c.name] = c.last]
        /\ UNCHANGED <<over, numbered, fetchlist, db, cont>>

\* noteInterest, called at the end of ARTICLE and BODY.
NoteInterest(s) == \/ AutoSubscribe(s)
                   \/ InfoAlways(s)
                   \/ /\ \/ ~Unnoted(s) \/ "nothing" \in Reactions
                         \/ "info" \in Reactions /\ cont[s].name = NoGroup
                      /\ UNCHANGED <<spool, fetchlist, db, cont>>

\* Is the article that whichId has found there to be shown?
Readable(id) == id = GenInfo \/ id \in db

\* ARTICLE and BODY of an article that is there: by number in the selected
\* group, by message-ID with or without one.
Read(s) == /\ \/ db # {}
              \/ /\ grp[s] # NoGroup
                 /\ \E n \in DOMAIN cont[s].arts :
                       Cont_validNumb(cont[s], n) /\ Readable(cont[s].arts[n])
           /\ Command(s)
           /\ NoteInterest(s)
           /\ UNCHANGED <<online, grp>>

\* Fetch_getNewArts for each group of DOMAIN new.
Fetched(new) ==
    /\ Save([g \in DOMAIN new |-> Cont_app(Fresh(g), new[g])])
    /\ db' = db \cup UNION {IdsOf(new[g]) : g \in DOMAIN new}

\* checkNewArts: online, a remote group other than the selected one is first
\* brought up to date.
CheckNewArts(s, g) ==
    \/ UNCHANGED <<spool, db>>
    \/ /\ online /\ g # grp[s] /\ g \notin Local
       /\ \E ids \in News(g) : Fetched([h \in {g} |-> ids])

\* The content readCont caches; a group that is neither local nor on the
\* fetch list begins with a general info when offline.
ReadCont(g, file, grpLast) ==
    LET c == Cont_read(g, file, grpLast)
    IN  IF g \in Local \/ Fetchlist_contains(g) \/ online
          THEN c
          ELSE Cont_app(c, <<GenInfo>>)

\* GROUP g and LISTGROUP g.
SelectGroup(s, g) ==
    /\ Command(s)
    /\ CheckNewArts(s, g)
    /\ grp' = [grp EXCEPT ![s] = g]
    /\ cont' = [cont EXCEPT ![s] = ReadCont(g, over'[g], last'[g])]
    /\ UNCHANGED <<fetchlist, online>>

\* POST to the groups of gs: into each local one; afterwards the content that
\* is cached is that of the last local group in the Newsgroups header.
Post(s, m, gs) ==
    LET locals == gs \cap Local
        new == [g \in locals |-> Cont_app(Fresh(g), <<m>>)]
    IN  /\ locals # {} /\ m \notin db
        /\ \A g \in locals : Fresh(g).last < MaxNumb[g]
        /\ Command(s)
        /\ Save(new)
        /\ db' = db \cup {m}
        /\ \E g \in locals : cont' = [cont EXCEPT ![s] = ContWritten(new[g])]
        /\ UNCHANGED <<fetchlist, online, grp>>

\* Ctrl_cancel: sscanf( "%s:%d" ) never matches a reference, so the loop over
\* the groups ends at once; the article leaves the database only.
Ctrl_cancel(m) == /\ db' = db \ {m}
                  /\ UNCHANGED <<spool, fetchlist, online, session>>

PostCancel(s, m) == m \in db /\ Command(s) /\ Ctrl_cancel(m)

\* Five seconds without a command: closeServer.
Idle(s) == /\ lock = s
           /\ lock' = NoServer
           /\ UNCHANGED <<spool, fetchlist, online, db, session>>

\* QUIT, a lost client, or death; the next client gets a new process.
Leave(s) == /\ lock' = IF lock = s THEN NoServer ELSE lock
            /\ grp' = [grp EXCEPT ![s] = NoGroup]
            /\ cont' = [cont EXCEPT ![s] = NoContent(NoGroup)]
            /\ UNCHANGED <<spool, fetchlist, online, db>>

-----------------------------------------------------------------------------
(* Interactive runs of noffle: they wait until no server has the lock.     *)

Tool == lock = NoServer /\ UNCHANGED <<lock, session>>

\* noffle --fetch: Fetch_updateGrps, for the groups the remote server answers.
Fetch == /\ Tool
         /\ \E answered \in SUBSET (fetchlist \ Local) :
              \E new \in [answered -> UNION {News(g) : g \in answered}] :
                 /\ \A g \in answered : new[g] \in News(g)
                 /\ Fetched(new)
         /\ UNCHANGED <<fetchlist, online>>

\* The groups with an overview file (Cont_firstGrp, Cont_nextGrp).
Filed == {g \in Groups : DOMAIN over[g] # {}}

\* The content of g without the overviews whose article is not in the database
\* once "old" has left it; general infos never are.
Expired(g, old) ==
    Cont_delete(Fresh(g), {n \in DOMAIN over[g] : over[g][n] \notin db \ old})

\* noffle --expire: Db_expire drops the articles "old", expireContents the
\* overviews; groups of "idle" are unsubscribed, with a notice.
Expire ==
    /\ Tool
    /\ \E old \in SUBSET db, idle \in SUBSET ((Filed \cap fetchlist) \ Local) :
          \E note \in [idle -> FreshNotices] :
             /\ idle # {} => AutoUnsubscribe
             /\ \A g, h \in idle : note[g] = note[h] => g = h
             /\ \A g \in idle : Fresh(g).last < MaxNumb[g]
             /\ Save([g \in Filed |->
                         IF g \in idle
                           THEN Cont_app(Expired(g, old), <<note[g]>>)
                           ELSE Expired(g, old)])
             /\ db' = (db \ old) \cup {note[g] : g \in idle}
             /\ fetchlist' = fetchlist \ idle
    /\ UNCHANGED online

\* noffle --subscribe-..., --unsubscribe, --online, --offline, --cancel.
Subscribe(g)   == Tool /\ Fetchlist_write(Fetchlist_add(g))
                  /\ UNCHANGED <<spool, online, db>>
Unsubscribe(g) == Tool /\ Fetchlist_write(Fetchlist_remove(g))
                  /\ UNCHANGED <<spool, online, db>>
Online_set     == Tool /\ online' = ~online /\ UNCHANGED <<spool, fetchlist, db>>
Cancel(m)      == m \in db /\ Tool /\ Ctrl_cancel(m)

-----------------------------------------------------------------------------
ServerNext(s) == \/ \E g \in Groups : SelectGroup(s, g)
                 \/ Read(s)
                 \/ \E m \in Arts, gs \in SUBSET Groups : Post(s, m, gs)
                 \/ \E m \in db : PostCancel(s, m)
                 \/ Idle(s) \/ Leave(s)

ToolNext == \/ Fetch \/ Expire \/ Online_set
            \/ \E g \in Groups : Subscribe(g) \/ Unsubscribe(g)
            \/ \E m \in db : Cancel(m)

Next == (\E s \in Servers : ServerNext(s)) \/ ToolNext

Spec == Init /\ [][Next]_vars

-----------------------------------------------------------------------------
(* Properties.  Which of them hold depends on the options of noffle.conf.  *)

\* No article number of a group has ever stood for two articles in its
\* overview file: Cont_read extends the content to the last number groupinfo
\* knows, so that no number is used again (content.c:169-177).
UniqueNumbers == \A g \in Groups : \A p, q \in numbered[g] :
                     p[1] = q[1] => p[2] = q[2]

\* The first and last number in groupinfo, which LIST ACTIVE shows, enclose
\* the group's overview file: each Cont_write goes with Grp_setFirstLast.
GrpInfoCoversOverviews == \A g \in Groups :
                              DOMAIN over[g] \subseteq first[g] .. last[g]

\* A number a server has cached never means another article in the file that
\* other processes have written since; a general info, which is not saved, is
\* the exception (server.c:readCont).
CacheAgrees == \A s \in Servers : \A g \in Groups :
    cont[s].name = g =>
        \A n \in DOMAIN cont[s].arts \cap DOMAIN over[g] :
            cont[s].arts[n] \in {GenInfo, over[g][n]}

\* No step takes the overview of an article out of its file, or changes its
\* number, while the article stays in the database (expireContents).
OverviewsKept == [][\A g \in Groups : \A n \in DOMAIN over[g] :
                       over[g][n] \in db' =>
                           n \in DOMAIN over'[g] /\ over'[g][n] = over[g][n]]_vars
=============================================================================
