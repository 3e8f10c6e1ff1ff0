------------------------------- MODULE Expiry -------------------------------
(***************************************************************************)
(* How the entries of the article database age, database.c: what opening   *)
(* an article does to the thread (server.c), what a fetch makes of the     *)
(* thread (client.c), and what noffle --expire leaves (noffle.c), under    *)
(* the lines of noffle.conf (configfile.c).  Time is counted in days.      *)
(*                                                                         *)
(* Servers and fetches hold the global lock for what is one step here; an  *)
(* expiry holds it from the first step to the last and may be killed in    *)
(* between.  What a server keeps of overviews is in module NewsServer, the *)
(* list of requests in Requests.                                           *)
(***************************************************************************)
EXTENDS Integers, FiniteSets, SequencesExt

CONSTANTS Arts, Groups,
          Refs,         \* Refs[a]: the message-IDs of References, in order
          Home,         \* Home[a]: the groups that a is posted to
          Mode,         \* Mode[g]: how the fetch list has g
          ConfigFiles,  \* the files noffle.conf may be: sequences of lines
          MaxTime       \* bound: days

\* A line of noffle.conf is "key n", or "expire pattern n" with the groups
\* that the pattern matches.
ConfigLines == [key : STRING, n : Int, groups : SUBSET Groups]

ASSUME ExpiryAssumption == /\ IsFiniteSet(Arts)
                           /\ ConfigFiles \subseteq Seq(ConfigLines)
                           /\ Refs \in [Arts -> Seq(Arts)]
                           /\ Home \in [Arts -> SUBSET Groups]
                           /\ Mode \in [Groups -> {"over", "thread", "full"}]
                           /\ MaxTime \in Nat

VARIABLES config,   \* noffle.conf as each process reads it when it begins
          db,       \* db[a]: the entry of a, or NoEntry
          over,     \* over[g]: the articles with an overview in g
          came,     \* came[g]: those that the server has sent for g
          marked,   \* the articles marked for download
          now,
          tool,     \* the expiry at work
          due        \* history, due[a]: when a was last opened, or one of its
                    \* thread (see Threaded), while in the database

vars == <<config, db, over, came, marked, now, tool, due>>

Times   == 0 .. MaxTime
NoEntry == [last |-> -1]
Never   == -1

Entry == [last : Times,                \* lastAccess
          interesting : BOOLEAN,       \* DB_INTERESTING
          loaded : BOOLEAN,            \* not DB_NOT_DOWNLOADED
          xref : Seq(Groups) \ {<<>>}]

Stored(d) == {a \in Arts : d[a] # NoEntry}

-----------------------------------------------------------------------------
(* noffle.conf                                                             *)

\* The n of an auto-subscribe-mode is its place among the four modes.
Modes == 1 .. 4

Defaults == [expire |-> 14, follow |-> 7, patterns |-> <<>>]

\* getInt: a number out of range changes nothing.
GetInt(old, n) == IF n >= 0 THEN n ELSE old

\* getExpire
GetExpire(patterns, line) ==
    IF line.n < 0 THEN patterns
    ELSE Append(patterns, [groups |-> line.groups, days |-> line.n])

\* One line of the file, of those that are about ageing.
CfgLine(settings, line) ==
    CASE line.key = "default-expire"     -> [settings EXCEPT !.expire = GetInt(@, line.n)]
      [] line.key = "thread-follow-time" -> [settings EXCEPT !.follow = GetInt(@, line.n)]
      [] line.key = "expire"             -> [settings EXCEPT !.patterns = GetExpire(@, line)]
      [] OTHER                           -> settings

\* Line by line; an unknown mode ends the reading.
Cfg_read(file) ==
    LET Ends(line) == line.key = "auto-subscribe-mode" /\ line.n \notin Modes
        read[k \in 0 .. Len(file)] ==
            IF k = 0 THEN Defaults
            ELSE IF \E j \in 1 .. k : Ends(file[j]) THEN read[k - 1]
            ELSE CfgLine(read[k - 1], file[k])
    IN  read[Len(file)]

-----------------------------------------------------------------------------
(* Opening an article                                                      *)

Longest == Max({Len(Refs[a]) : a \in Arts})

(***************************************************************************)
(* touchReferences goes through db.ref, into which each entry that it      *)
(* touches is loaded: slots are the message-IDs that lie in the buffer     *)
(* (all of one length), ends those behind which there is a zero.  What is  *)
(* behind the zero of a shorter string stays.                              *)
(***************************************************************************)
LoadArt(w, r) ==
    IF r = w.loaded THEN w
    ELSE [w EXCEPT !.loaded = r,
                   !.slots = [k \in DOMAIN @ |->
                                 IF k <= Len(Refs[r]) THEN Refs[r][k] ELSE @[k]],
                   !.ends = {e \in @ : e > Len(Refs[r])} \cup {Len(Refs[r])}]

\* The turn of the loop that finds the message-ID at i.
Slot(w, i) ==
    IF i - 1 \in w.ends \/ w.done THEN [w EXCEPT !.done = TRUE]
    ELSE IF w.slots[i] \notin Stored(db) THEN w
    ELSE [LoadArt(w, w.slots[i]) EXCEPT !.touched = @ \cup {w.slots[i]}]

Start(a) == [slots |-> [k \in 1 .. Longest |->
                           IF k <= Len(Refs[a]) THEN Refs[a][k] ELSE a],
             ends |-> {Len(Refs[a])}, loaded |-> a, touched |-> {}, done |-> FALSE]

\* The entries that touchReferences touches.
TouchReferences(a) ==
    LET walk[i \in 0 .. Longest] == IF i = 0 THEN Start(a) ELSE Slot(walk[i - 1], i)
    IN  walk[Longest].touched

Touched(entry) == [entry EXCEPT !.interesting = TRUE, !.last = now]

\* An article whose references are those of its parent and the parent.
Threaded(a) == \A k \in DOMAIN Refs[a] : Len(Refs[Refs[a][k]]) < k

Idle == tool.at = "idle"

\* ARTICLE, BODY: an article that is not there is marked.
Open(a) ==
    /\ Idle
    /\ a \in Stored(db)
    /\ LET touched == {a} \cup TouchReferences(a)
       IN  db' = [b \in Arts |-> IF b \in touched THEN Touched(db[b]) ELSE db[b]]
    /\ marked' = IF db[a].loaded THEN marked ELSE marked \cup {a}
    /\ due' = [b \in Arts |->
                 IF \/ b = a
                    \/ Threaded(a) /\ b \in (Range(Refs[a]) \cap Stored(db))
                   THEN now ELSE due[b]]
    /\ UNCHANGED <<config, over, came, now, tool>>

-----------------------------------------------------------------------------
(* noffle --fetch                                                          *)

\* Mistake: the first reference decides.
FirstDecides(a) ==
    /\ Refs[a] # <<>>
    /\ LET r == Head(Refs[a])
       IN  r \in Stored(db) /\ db[r].interesting
           /\ now - db[r].last <= config.follow

NeedsMark(a) == \E r \in Range(Refs[a]) \cap Stored(db) :
                   db[r].interesting /\ now - db[r].last <= config.follow

\* prepareEntry: the group goes before or behind those of Xref.
PrepareEntry(a, g) ==
    IF a \in Stored(db)
    THEN {[db[a] EXCEPT !.xref = <<g>> \o @], [db[a] EXCEPT !.xref = Append(@, g)]}
    ELSE {[last |-> now, interesting |-> FALSE, loaded |-> FALSE, xref |-> <<g>>]}

\* Client_getOver: the overview of a comes for g.
GetOver(a, g) ==
    /\ Idle
    /\ g \in Home[a] /\ a \notin came[g]
    /\ over' = [over EXCEPT ![g] = @ \cup {a}]
    /\ came' = [came EXCEPT ![g] = @ \cup {a}]
    /\ \E entry \in PrepareEntry(a, g) : db' = [db EXCEPT ![a] = entry]
    /\ marked' = IF Mode[g] = "full" \/ (Mode[g] = "thread" /\ NeedsMark(a))
                   THEN marked \cup {a} ELSE marked
    /\ UNCHANGED <<config, now, tool, due>>

\* Db_storeArt
StoreArt(entry) == [entry EXCEPT !.loaded = TRUE, !.last = now]

\* Mistake: an article without an entry gets one.
RetrieveAny(a) ==
    /\ Idle
    /\ a \in marked
    /\ marked' = marked \ {a}
    /\ db' = IF a \notin Stored(db)
               THEN [db EXCEPT ![a] = [last |-> now, interesting |-> FALSE,
                                       loaded |-> TRUE, xref |-> <<>>]]
             ELSE IF db[a].loaded THEN db ELSE [db EXCEPT ![a] = StoreArt(@)]
    /\ UNCHANGED <<config, over, came, now, tool, due>>

\* Client_retrieveArtList: an article without an entry is passed over, and one
\* that the server does not send stays as it is but for its text.
Retrieve(a) ==
    /\ Idle
    /\ a \in marked
    /\ marked' = marked \ {a}
    /\ \/ db' = db
       \/ /\ a \in Stored(db) /\ ~db[a].loaded
          /\ db' = [db EXCEPT ![a] = StoreArt(@)]
    /\ UNCHANGED <<config, over, came, now, tool, due>>

-----------------------------------------------------------------------------
(* noffle --expire                                                         *)

\* Mistake: the shortest of the periods counts.
ShorterOf(res, g) ==
    LET fits == {k \in DOMAIN config.patterns :
                    LET p == config.patterns[k]
                    IN  g \in p.groups /\ (res = -1 \/ p.days < res)}
    IN  IF fits = {} THEN res ELSE config.patterns[Min(fits)].days

\* What the group g makes of the period so far: the first line that matches
\* and has a longer one, or "never".
LongerOf(res, g) ==
    LET fits == {k \in DOMAIN config.patterns :
                    LET p == config.patterns[k]
                    IN  g \in p.groups /\ ((p.days > res /\ res # 0) \/ p.days = 0)}
    IN  IF fits = {} THEN res ELSE config.patterns[Min(fits)].days

CalcExpireDays(a) ==
    LET xref == db[a].xref
        days[k \in 0 .. Len(xref)] ==
            IF k = 0 THEN -1 ELSE LongerOf(days[k - 1], xref[k])
    IN  IF days[Len(xref)] = -1 THEN config.expire ELSE days[Len(xref)]

\* Db_expire makes a new file and goes through the entries one by one, in the
\* order of the file; if it cannot, the old one stays.
Expire ==
    /\ Idle
    /\ tool' \in {[at |-> "copy", time |-> now, left |-> Stored(db), kept |-> {}],
                  [at |-> "clean", time |-> now, left |-> Groups, kept |-> {}]}
    /\ UNCHANGED <<config, db, over, came, marked, now, due>>

NextKey(left) == CHOOSE a \in left : TRUE

Copy(a) ==
    /\ tool.at = "copy"
    /\ tool.left # {} /\ a = NextKey(tool.left)
    /\ LET days == CalcExpireDays(a)
           old  == days > 0 /\ tool.time - db[a].last > days
       IN  tool' = [tool EXCEPT !.left = @ \ {a},
                                !.kept = IF old THEN @ ELSE @ \cup {a}]
    /\ UNCHANGED <<config, db, over, came, marked, now, due>>

\* rename, then the database is opened again.
Rename ==
    /\ tool.at = "copy"
    /\ tool.left = {}
    /\ db' = [a \in Arts |-> IF a \in tool.kept THEN db[a] ELSE NoEntry]
    /\ due' = [a \in Arts |-> IF a \in tool.kept THEN due[a] ELSE Never]
    /\ tool' = [at |-> "clean", time |-> tool.time, left |-> Groups, kept |-> {}]
    /\ UNCHANGED <<config, over, came, marked, now>>

\* Mistake: the overview of an article that is marked stays.
CleanUnmarked(g) ==
    /\ tool.at = "clean"
    /\ g \in tool.left
    /\ over' = [over EXCEPT ![g] = @ \cap (Stored(db) \cup marked)]
    /\ tool' = IF tool.left = {g} THEN [at |-> "idle"] ELSE [tool EXCEPT !.left = @ \ {g}]
    /\ UNCHANGED <<config, db, came, marked, now, due>>

\* expireContents, one group.
Clean(g) ==
    /\ tool.at = "clean"
    /\ g \in tool.left
    /\ over' = [over EXCEPT ![g] = @ \cap Stored(db)]
    /\ tool' = IF tool.left = {g} THEN [at |-> "idle"] ELSE [tool EXCEPT !.left = @ \ {g}]
    /\ UNCHANGED <<config, db, came, marked, now, due>>

\* The expiry is killed; the file it was writing is emptied by the next.
Killed == /\ ~Idle
          /\ tool' = [at |-> "idle"]
          /\ UNCHANGED <<config, db, over, came, marked, now, due>>

-----------------------------------------------------------------------------
Tick == /\ now < MaxTime
        /\ now' = now + 1
        /\ UNCHANGED <<config, db, over, came, marked, tool, due>>

TypeOK == /\ config \in {Cfg_read(file) : file \in ConfigFiles}
          /\ db \in [Arts -> Entry \cup {NoEntry}]
          /\ over \in [Groups -> SUBSET Arts]
          /\ came \in [Groups -> SUBSET Arts]
          /\ marked \subseteq Arts
          /\ now \in Times
          /\ \/ tool = [at |-> "idle"]
             \/ tool \in [at : {"copy"}, time : Times,
                          left : SUBSET Arts, kept : SUBSET Arts]
             \/ tool \in [at : {"clean"}, time : Times,
                          left : SUBSET Groups, kept : {{}}]
          /\ due \in [Arts -> Times \cup {Never}]

Init == /\ config \in {Cfg_read(file) : file \in ConfigFiles}
        /\ db = [a \in Arts |-> NoEntry]
        /\ over = [g \in Groups |-> {}]
        /\ came = [g \in Groups |-> {}]
        /\ marked = {}
        /\ now = 0
        /\ tool = [at |-> "idle"]
        /\ due = [a \in Arts |-> Never]

Next == \/ \E a \in Arts : Open(a) \/ Retrieve(a) \/ Copy(a)
        \/ \E a \in Arts, g \in Groups : GetOver(a, g)
        \/ \E g \in Groups : Clean(g)
        \/ Expire \/ Rename \/ Killed \/ Tick

Spec == Init /\ [][Next]_vars
-----------------------------------------------------------------------------
(* Properties *)

\* "Opening an article marks the whole thread for download" (README:29): a
\* follow-up in a group of thread mode is marked when it comes, if an article
\* of its references has been opened, or one further down their thread, within
\* the days of thread-follow-time.
ThreadFollowed ==
    [][\A a \in Arts, g \in Groups :
          /\ Mode[g] = "thread" /\ a \notin came[g] /\ a \in came'[g]
          /\ \E r \in Range(Refs[a]) :
                due[r] # Never /\ now - due[r] <= config.follow
          => a \in marked']_vars

\* The period that noffle.conf.5:131-140 gives a group: the first match.
Matches(g) == {k \in DOMAIN config.patterns : g \in config.patterns[k].groups}
Period(g)  == config.patterns[Min(Matches(g))].days

\* Nothing leaves the database before the period of each of its groups that a
\* line matches has passed since it was last touched, also when the expiry is
\* killed.  (Groups without a line count only if no group has one.)
KeptLongEnough ==
    [][\A a \in Stored(db) \ Stored(db') :
          LET lined == {g \in Range(db[a].xref) : Matches(g) # {}}
              past(days) == days # 0 /\ now - db[a].last > days
          IN  IF lined = {} THEN past(config.expire)
              ELSE \A g \in lined : past(Period(g))]_vars

\* An expiry that comes to its end leaves no overview without an article,
\* also if one before it was killed after the rename.
CleanedUp == [][(\E g \in Groups : Clean(g)) /\ tool'.at = "idle"
                   => \A g \in Groups : over'[g] \subseteq Stored(db')]_vars

\* "Opening an article additionally marks all references as interesting"
\* (ChangeLog:539).
ReferencesTouched ==
    [][\A a \in Arts : Open(a) => \A r \in Range(Refs[a]) \cap Stored(db) :
                                     db'[r].interesting /\ db'[r].last = now]_vars
=============================================================================
