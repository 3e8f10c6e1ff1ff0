-------------------------- MODULE GroupInfoProofs ---------------------------
(***************************************************************************)
(* That the record a process keeps in memory is the one in groupinfo, that *)
(* no record is undone by an older one, that no new group is kept from a   *)
(* newsreader, what --delete takes, for any number of readers and groups,  *)
(* and that names are judged by what patterns mean, for patterns of any    *)
(* length.  CacheIsRecord is inductive: who has the lock is the only one   *)
(* with a name in memory, and tools run without any.  A recursive function *)
(* is followed from the end of its recursion (Downwards, Upwards).         *)
(***************************************************************************)
EXTENDS GroupInfo, WellFoundedInduction, SequenceTheorems, TLAPS

IInv == TypeOK /\ CacheIsRecord

\* What a step of groupinfo may do to the records.
Stand == \A g \in Names \cap DOMAIN info' :
            info'[g].created = IF g \in DOMAIN info THEN info[g].created ELSE now

-----------------------------------------------------------------------------
(* The record in memory                                                    *)

LEMMA LoadedIsRecord ==
  ASSUME TypeOK, CacheIsRecord, NEW s \in Readers, NEW g \in Names \cup {NoName},
         NEW m, m = Loaded(memo[s], g)
  PROVE  /\ m \in [name : Names \cup {NoName, Unloaded}, rec : Record]
         /\ m.name \in Names => /\ m.name \in DOMAIN info
                                /\ m.rec = info[m.name]
  BY DEF Loaded, TypeOK, IsInfo, CacheIsRecord

\* A server's step that loads a record, and changes no record.
LEMMA LoadStep ==
  ASSUME TypeOK, CacheIsRecord, NEW s \in Readers, NEW g \in Names \cup {NoName},
         Command(s), Remember(s, Loaded(memo[s], g)), UNCHANGED info
  PROVE  /\ CacheIsRecord'
         /\ lock' \in Readers
         /\ memo' \in [Readers -> [name : Names \cup {NoName, Unloaded}, rec : Record]]
<1> DEFINE m == Loaded(memo[s], g)
<1>1. /\ m \in [name : Names \cup {NoName, Unloaded}, rec : Record]
      /\ m.name \in Names => m.name \in DOMAIN info /\ m.rec = info[m.name]
  BY LoadedIsRecord
<1>2. memo' = [memo EXCEPT ![s] = m] /\ lock \in {NoReader, s} /\ lock' = s
  BY DEF Remember, Command
<1> HIDE DEF m
<1>3. ASSUME NEW r \in Readers, memo'[r].name \in Names
      PROVE  r = s
  <2>1. CASE r # s
    <3>1. memo'[r] = memo[r]
      BY <1>2, <2>1 DEF TypeOK
    <3>2. lock = r
      BY <1>3, <3>1 DEF CacheIsRecord
    <3> QED
      BY <1>2, <2>1, <3>2, GroupAssumption
  <2> QED
    BY <2>1
<1>4. memo'[s] = m
  BY <1>2 DEF TypeOK
<1>5. CacheIsRecord'
  BY <1>1, <1>2, <1>3, <1>4 DEF CacheIsRecord
<1> QED
  BY <1>1, <1>2, <1>5 DEF TypeOK

LEMMA InitIInv == Init => IInv
  BY GroupAssumption DEF Init, IInv, TypeOK, CacheIsRecord, IsInfo, Started,
     NoRecord, Record, Servs, Time

-----------------------------------------------------------------------------
(* Commands                                                                *)

LEMMA AskKeeps ==
  ASSUME IInv, NEW s \in Readers, NEW g \in DOMAIN info,
         ChangeToGrp(s, g) \/ Ask(s, g)
  PROVE  IInv' /\ Stand
<1>1. g \in Names \cup {NoName}
  BY DEF IInv, TypeOK, IsInfo
<1>2. /\ Command(s) /\ Remember(s, Loaded(memo[s], g))
      /\ UNCHANGED <<now, info, stamp, newsreader>>
      /\ grp' \in [Readers -> Names \cup {NoName}]
  BY <1>1 DEF ChangeToGrp, Ask, IInv, TypeOK
<1>3. CacheIsRecord' /\ lock' \in Readers
      /\ memo' \in [Readers -> [name : Names \cup {NoName, Unloaded}, rec : Record]]
  BY <1>1, <1>2, LoadStep DEF IInv
<1>4. TypeOK'
  BY <1>2, <1>3 DEF IInv, TypeOK, IsInfo, newsreader
<1> QED
  BY <1>2, <1>3, <1>4 DEF IInv, Stand

LEMMA NoteKeeps ==
  ASSUME IInv, NEW s \in Readers, NoteInterest(s)
  PROVE  IInv' /\ Stand /\ Names \cap DOMAIN info' \subseteq DOMAIN info
<1> DEFINE g == grp[s]
           m == Loaded(memo[s], g)
<1>1. g \in Names \cup {NoName}
  BY DEF IInv, TypeOK
<1>2. /\ lock \in {NoReader, s} /\ lock' = s
      /\ UNCHANGED <<now, stamp, grp, newsreader>>
  BY DEF NoteInterest, Command
<1>3. CASE m.name = g
  <2>1. memo' = [memo EXCEPT ![s] = m] /\ info' = Stored(m)
    BY <1>3 DEF NoteInterest, Grp_set, Remember
  <2>2. /\ m \in [name : Names \cup {NoName, Unloaded}, rec : Record]
        /\ m.name \in Names => m.name \in DOMAIN info /\ m.rec = info[m.name]
    BY <1>1, LoadedIsRecord DEF IInv
  <2> HIDE DEF m, g
  <2>3. /\ IsInfo(info') /\ DOMAIN info' = DOMAIN info \cup {m.name}
        /\ \A h \in DOMAIN info : h # m.name => info'[h] = info[h]
        /\ info'[m.name] = m.rec
    BY <1>1, <1>3, <2>1, <2>2 DEF Stored, IInv, TypeOK, IsInfo
  <2>4. \A h \in Names \cap DOMAIN info' : h \in DOMAIN info /\ info'[h] = info[h]
    BY <2>2, <2>3
  <2>5. ASSUME NEW r \in Readers, memo'[r].name \in Names
        PROVE  /\ lock' = r /\ memo'[r].name \in DOMAIN info'
               /\ memo'[r].rec = info'[memo'[r].name]
    <3>1. CASE r = s
      BY <1>2, <2>1, <2>2, <2>3, <2>5, <3>1 DEF IInv, TypeOK
    <3>2. CASE r # s
      <4>1. memo'[r] = memo[r]
        BY <2>1, <3>2 DEF IInv, TypeOK
      <4>2. lock = r
        BY <2>5, <4>1 DEF IInv, CacheIsRecord
      <4> QED
        BY <1>2, <3>2, <4>2, GroupAssumption
    <3> QED
      BY <3>1, <3>2
  <2>6. CacheIsRecord'
    BY <2>5 DEF CacheIsRecord
  <2>7. memo' \in [Readers -> [name : Names \cup {NoName, Unloaded}, rec : Record]]
    BY <2>1, <2>2 DEF IInv, TypeOK
  <2>8. TypeOK'
    BY <1>2, <2>3, <2>7 DEF IInv, TypeOK, IsInfo, newsreader
  <2> QED
    BY <2>4, <2>6, <2>8 DEF IInv, Stand
<1>4. CASE m.name # g
  <2>1. UNCHANGED <<memo, info>>
    BY <1>4 DEF NoteInterest, Grp_set
  <2>2. CacheIsRecord'
    BY <1>2, <2>1, GroupAssumption DEF IInv, CacheIsRecord
  <2>3. TypeOK'
    BY <1>2, <2>1 DEF IInv, TypeOK, IsInfo, newsreader
  <2> QED
    BY <2>1, <2>2, <2>3 DEF IInv, Stand
<1> QED
  BY <1>3, <1>4

LEMMA NewGroupsKeeps ==
  ASSUME IInv, NEW s \in Readers, NewGroups(s)
  PROVE  IInv' /\ Stand
<1>1. CacheIsRecord' /\ lock' \in Readers
      /\ memo' \in [Readers -> [name : Names \cup {NoName, Unloaded}, rec : Record]]
  <2>1. PICK g \in DOMAIN info \cup {memo[s].name} : Remember(s, Loaded(memo[s], g))
    BY DEF NewGroups
  <2>2. Command(s) /\ UNCHANGED info
    BY DEF NewGroups
  <2>3. CASE g \in Names \cup {NoName}
    BY <2>1, <2>2, <2>3, LoadStep DEF IInv
  <2>4. CASE g = memo[s].name
    <3>1. Loaded(memo[s], g) = memo[s]
      BY <2>4 DEF Loaded
    <3>2. memo' = memo /\ lock \in {NoReader, s} /\ lock' = s
      BY <2>1, <2>2, <3>1 DEF Remember, Command, IInv, TypeOK
    <3> QED
      BY <2>2, <3>2, GroupAssumption DEF IInv, TypeOK, CacheIsRecord
  <2> QED
    BY <2>3, <2>4 DEF IInv, TypeOK, IsInfo
<1>2. UNCHANGED <<now, info, stamp, grp, slipped>>
  BY DEF NewGroups
<1>3. polled' \in [Readers -> Time]
  BY DEF NewGroups, IInv, TypeOK
<1>4. heard' \in [Readers -> SUBSET (Names \cup {NoName})]
  <2>1. NewSince(polled[s]) \subseteq Names \cup {NoName}
    BY DEF NewSince, IInv, TypeOK, IsInfo
  <2> QED
    BY <2>1 DEF NewGroups, IInv, TypeOK
<1>5. TypeOK'
  BY <1>1, <1>2, <1>3, <1>4 DEF IInv, TypeOK, IsInfo
<1> QED
  BY <1>1, <1>2, <1>5 DEF IInv, Stand

\* Idle and Leave: one process forgets the name it had.
LEMMA ForgetKeeps ==
  ASSUME IInv, NEW s \in Readers, NEW m,
         m \in [name : {NoName, Unloaded}, rec : Record], Remember(s, m),
         lock' = IF lock = s THEN NoReader ELSE lock,
         grp' \in [Readers -> Names \cup {NoName}],
         UNCHANGED <<now, info, stamp, newsreader>>
  PROVE  IInv' /\ Stand
<1>1. memo' = [memo EXCEPT ![s] = m] /\ m.name \notin Names
  BY GroupAssumption DEF Remember
<1>2. ASSUME NEW r \in Readers, memo'[r].name \in Names
      PROVE  r # s /\ memo'[r] = memo[r]
  BY <1>1, <1>2 DEF IInv, TypeOK
<1>3. CacheIsRecord'
  BY <1>2 DEF IInv, CacheIsRecord
<1>4. TypeOK'
  BY <1>1 DEF IInv, TypeOK, IsInfo, newsreader
<1> QED
  BY <1>3, <1>4 DEF IInv, Stand

-----------------------------------------------------------------------------
(* Tools                                                                   *)

\* A tool's step, while no process has a name in memory.
LEMMA ToolKeeps ==
  ASSUME IInv, Tool, IsInfo(info'), now' \in Time \ {0}, stamp' \in Time,
         heard' \in [Readers -> SUBSET (Names \cup {NoName})],
         slipped' \in [Readers -> SUBSET Names]
  PROVE  IInv'
<1>1. CacheIsRecord'
  BY GroupAssumption DEF IInv, Tool, CacheIsRecord
<1>2. TypeOK'
  BY DEF IInv, Tool, TypeOK
<1> QED
  BY <1>1, <1>2 DEF IInv

LEMMA RegisteredType ==
  ASSUME TypeOK, NEW new \in SUBSET Names, NEW broke, Registered(new, broke)
  PROVE  /\ heard' \in [Readers -> SUBSET (Names \cup {NoName})]
         /\ slipped' \in [Readers -> SUBSET Names]
  BY DEF Registered, TypeOK

LEMMA CreateKeeps ==
  ASSUME IInv, NEW g \in Names, doCreateLocalGroup(g)
  PROVE  IInv' /\ Stand
<1>1. /\ Tool /\ g \notin DOMAIN info /\ stamp' = now'
      /\ now' \in {now, now + 1} /\ now' <= MaxTime
      /\ Registered({g}, FALSE)
  BY DEF doCreateLocalGroup, Passing
<1>2. info' = [h \in DOMAIN info \cup {g} |->
                  IF h = g THEN [serv |-> LOCAL_SERVER, created |-> now] ELSE info[h]]
  BY DEF doCreateLocalGroup, Stored
<1>3. now' \in Time \ {0} /\ stamp' \in Time
  BY <1>1, GroupAssumption DEF IInv, TypeOK, Time
<1>4. [serv |-> LOCAL_SERVER, created |-> now] \in Record
  BY DEF Record, Servs, IInv, TypeOK
<1>5. IsInfo(info')
  BY <1>2, <1>4 DEF IInv, TypeOK, IsInfo
<1>6. IInv'
  BY <1>1, <1>3, <1>5, RegisteredType, ToolKeeps DEF IInv
<1>7. Stand
  BY <1>1, <1>2 DEF Stand
<1> QED
  BY <1>6, <1>7

LEMMA UpdateKeeps ==
  ASSUME IInv, Update
  PROVE  IInv' /\ Stand
<1>1. PICK k \in DOMAIN Remotes, told \in SUBSET Known, broke \in BOOLEAN :
          processGrps(Remotes[k], told, broke)
  BY DEF Update
<1> DEFINE v     == Remotes[k]
           new   == told \ DOMAIN info
           moved == {g \in told \cap DOMAIN info :
                        Cfg_servIsPreferential(v, info[g].serv)}
<1>2. /\ info' = [g \in DOMAIN info \cup new |->
                     CASE g \in new   -> [serv |-> v, created |-> now]
                       [] g \in moved -> [info[g] EXCEPT !.serv = v]
                       [] OTHER       -> info[g]]
      /\ stamp' = IF new \cup moved # {} /\ ~broke THEN now' ELSE stamp
      /\ Registered(new, broke)
  BY <1>1 DEF processGrps
<1>3. /\ v \in Servs /\ new \subseteq Names
      /\ new \cap DOMAIN info = {} /\ moved \subseteq DOMAIN info
  BY GroupAssumption DEF Servs
<1>4. Tool /\ now' \in {now, now + 1} /\ now' <= MaxTime
  BY DEF Update, Passing
<1> HIDE DEF v, moved, new
<1>5. now' \in Time \ {0} /\ stamp' \in Time
  BY <1>2, <1>4, GroupAssumption DEF IInv, TypeOK, Time
<1>6. DOMAIN info' = DOMAIN info \cup new
  BY <1>2
<1>7. ASSUME NEW g \in DOMAIN info'
      PROVE  /\ info'[g] \in Record
             /\ info'[g].created = IF g \in DOMAIN info THEN info[g].created ELSE now
  <2>1. CASE g \in new
    <3>1. g \notin DOMAIN info /\ g \notin moved
      BY <1>3, <2>1
    <3>2. info'[g] = [serv |-> v, created |-> now]
      BY <1>2, <1>6, <2>1, <3>1
    <3> QED
      BY <1>3, <3>1, <3>2 DEF Record, IInv, TypeOK
  <2>2. CASE g \notin new /\ g \in moved
    <3>1. info'[g] = [info[g] EXCEPT !.serv = v] /\ g \in DOMAIN info
      BY <1>2, <1>6, <1>7, <2>2
    <3>2. info[g] \in Record
      BY <3>1 DEF IInv, TypeOK, IsInfo
    <3> QED
      BY <1>3, <3>1, <3>2 DEF Record
  <2>3. CASE g \notin new /\ g \notin moved
    <3>1. info'[g] = info[g] /\ g \in DOMAIN info
      BY <1>2, <1>6, <1>7, <2>3
    <3> QED
      BY <3>1 DEF IInv, TypeOK, IsInfo
  <2> QED
    BY <2>1, <2>2, <2>3
<1>8. info' = [g \in DOMAIN info' |-> info'[g]]
  BY <1>2
<1>9. IsInfo(info')
  BY <1>3, <1>6, <1>7, <1>8 DEF IInv, TypeOK, IsInfo
<1>10. IInv'
  BY <1>2, <1>3, <1>4, <1>5, <1>9, RegisteredType, ToolKeeps DEF IInv
<1>11. Stand
  BY <1>7 DEF Stand
<1> QED
  BY <1>10, <1>11

LEMMA DeleteKeeps ==
  ASSUME IInv, NEW g \in Names, doDeleteLocalGroup(g)
  PROVE  IInv' /\ Stand
<1>1. /\ Tool /\ UNCHANGED <<now, stamp, heard, slipped>>
      /\ info' = [h \in DOMAIN info \ {g} |-> info[h]]
  BY DEF doDeleteLocalGroup
<1>2. IsInfo(info')
  BY <1>1 DEF IInv, TypeOK, IsInfo
<1>3. IInv'
  BY <1>1, <1>2, ToolKeeps DEF IInv, TypeOK
<1> QED
  BY <1>1, <1>3 DEF Stand

-----------------------------------------------------------------------------
LEMMA NextKeeps ==
  ASSUME IInv, [Next]_vars
  PROVE  IInv' /\ Stand
<1>1. ASSUME NEW s \in Readers, ServerNext(s)
      PROVE  IInv' /\ Stand
  <2>1. ASSUME NEW g \in DOMAIN info, ChangeToGrp(s, g) \/ Ask(s, g)
        PROVE  IInv' /\ Stand
    BY <2>1, AskKeeps
  <2>2. CASE Idle(s)
    <3>1. memo[s] \in [name : Names \cup {NoName, Unloaded}, rec : Record]
      BY DEF IInv, TypeOK
    <3>2. Grp_close(memo[s]) \in [name : {NoName, Unloaded}, rec : Record]
      BY <3>1 DEF Grp_close
    <3> QED
      BY <2>2, <3>2, ForgetKeeps DEF Idle, IInv, TypeOK
  <2>3. CASE Leave(s)
    <3>1. Started \in [name : {NoName, Unloaded}, rec : Record]
      BY GroupAssumption DEF Started, NoRecord, Record, Servs, Time
    <3> QED
      BY <2>3, <3>1, ForgetKeeps DEF Leave, IInv, TypeOK
  <2> QED
    BY <1>1, <2>1, <2>2, <2>3, NoteKeeps, NewGroupsKeeps DEF ServerNext
<1>2. CASE ToolNext
  BY <1>2, UpdateKeeps, CreateKeeps, DeleteKeeps DEF ToolNext
<1>3. CASE Tick
  <2>1. now' \in Time \ {0}
    BY <1>3, GroupAssumption DEF Tick, IInv, TypeOK, Time
  <2>2. TypeOK'
    BY <1>3, <2>1 DEF Tick, IInv, TypeOK, IsInfo, newsreader
  <2>3. CacheIsRecord'
    BY <1>3 DEF Tick, IInv, CacheIsRecord
  <2> QED
    BY <1>3, <2>2, <2>3 DEF IInv, Tick, Stand
<1>4. CASE UNCHANGED vars
  BY <1>4 DEF vars, newsreader, IInv, TypeOK, IsInfo, CacheIsRecord, Stand
<1> QED
  BY <1>1, <1>2, <1>3, <1>4 DEF Next

THEOREM Invariance == Spec => []IInv
<1>1. Init => IInv
  BY InitIInv
<1>2. IInv /\ [Next]_vars => IInv'
  BY NextKeeps
<1> QED
  BY <1>1, <1>2, PTL DEF Spec

\* Every state of groupinfo and of the processes that use it has its types.
THEOREM TypeCorrect == Spec => []TypeOK
<1>1. IInv => TypeOK
  BY DEF IInv
<1> QED
  BY Invariance, <1>1, PTL

\* What loadGrp finds in memory is what it would read from the file
\* (group.c:93-151, Grp_close).
THEOREM CacheIsTrue == Spec => []CacheIsRecord
<1>1. IInv => CacheIsRecord
  BY DEF IInv
<1> QED
  BY Invariance, <1>1, PTL

\* saveGrp never brings back a group that a tool has deleted, nor the record
\* that a group had before it was made anew.
THEOREM NothingIsUndone == Spec => RecordsStand
<1>1. IInv /\ [Next]_vars => [Stand]_vars
  BY NextKeeps
<1>2. [][Stand]_vars => RecordsStand
  BY PTL DEF Stand, RecordsStand
<1> QED
  BY Invariance, <1>1, <1>2, PTL DEF Spec
-----------------------------------------------------------------------------
(* New groups                                                              *)

\* Of which groups a newsreader has yet to be told: those made after it asked
\* last, and then groupinfo.lastupdate is no older than they are, so that
\* doNewgrps looks at the records when it asks again.
Due ==
    \A s \in Readers :
        /\ polled[s] <= now
        /\ \A g \in Names \cap DOMAIN info :
              /\ info[g].created <= now
              /\ g \notin heard[s] \cup slipped[s] =>
                    /\ info[g].created > polled[s]
                    /\ stamp = 0 \/ info[g].created <= stamp

TInv == IInv /\ Due

\* A step that makes no group and tells nobody of one.
LEMMA QuietKeepsDue ==
  ASSUME TInv, IInv', Stand, now' >= now, UNCHANGED <<stamp, newsreader>>,
         Names \cap DOMAIN info' \subseteq DOMAIN info
  PROVE  Due'
<1>1. /\ now \in Nat /\ now' \in Nat
      /\ polled \in [Readers -> Nat]
      /\ \A g \in DOMAIN info : info[g].created \in Nat
  BY GroupAssumption DEF TInv, IInv, TypeOK, IsInfo, Record, Time
<1>2. UNCHANGED <<stamp, polled, heard, slipped>>
  BY DEF newsreader
<1>3. \A g \in Names \cap DOMAIN info' :
         g \in DOMAIN info /\ info'[g].created = info[g].created
  BY DEF Stand
<1> QED
  BY <1>1, <1>2, <1>3 DEF TInv, Due

\* The newsreader that asks is told of every group that was due.
LEMMA NewGroupsKeepsDue ==
  ASSUME TInv, NEW s \in Readers, NewGroups(s)
  PROVE  Due'
<1>1. /\ UNCHANGED <<now, info, stamp, grp, slipped>>
      /\ heard' = [heard EXCEPT ![s] = @ \cup NewSince(polled[s])]
      /\ polled' = [polled EXCEPT ![s] = now]
  BY DEF NewGroups
<1>2. /\ now \in Nat /\ stamp \in Nat
      /\ polled \in [Readers -> Nat]
      /\ \A g \in DOMAIN info : info[g].created \in Nat
      /\ heard \in [Readers -> SUBSET (Names \cup {NoName})]
  BY GroupAssumption DEF TInv, IInv, TypeOK, IsInfo, Record, Time
<1>3. ASSUME NEW g \in Names \cap DOMAIN info
      PROVE  g \in heard'[s] \cup slipped'[s]
  <2>1. CASE g \in heard[s] \cup slipped[s]
    BY <1>1, <1>2, <2>1
  <2>2. CASE g \notin heard[s] \cup slipped[s]
    <3>1. /\ info[g].created > polled[s]
          /\ stamp = 0 \/ info[g].created <= stamp
      BY <2>2 DEF TInv, Due
    <3>2. g \in NewSince(polled[s])
      BY <1>2, <3>1 DEF NewSince
    <3> QED
      BY <1>1, <1>2, <3>2
  <2> QED
    BY <2>1, <2>2
<1>4. ASSUME NEW r \in Readers
      PROVE  /\ polled'[r] <= now'
             /\ \A g \in Names \cap DOMAIN info' :
                   /\ info'[g].created <= now'
                   /\ g \notin heard'[r] \cup slipped'[r] =>
                         /\ info'[g].created > polled'[r]
                         /\ stamp' = 0 \/ info'[g].created <= stamp'
  <2>1. CASE r = s
    BY <1>1, <1>2, <1>3, <2>1 DEF TInv, Due
  <2>2. CASE r # s
    BY <1>1, <1>2, <2>2 DEF TInv, Due
  <2> QED
    BY <2>1, <2>2
<1> QED
  BY <1>4 DEF Due

\* A tool's step: the groups it makes are new to all newsreaders, and the stamp
\* is as late as they are or the list was broken.
LEMMA RegisteredKeepsDue ==
  ASSUME TInv, IInv', Stand, now' >= now, UNCHANGED polled,
         NEW new \in SUBSET Names, NEW broke \in BOOLEAN,
         Registered(new, broke),
         Names \cap DOMAIN info' \subseteq DOMAIN info \cup new,
         new \cap DOMAIN info = {},
         \/ stamp' = now'
         \/ stamp' = stamp /\ (broke \/ new = {})
  PROVE  Due'
<1>1. /\ now \in Nat /\ now' \in Nat /\ stamp \in Nat
      /\ polled \in [Readers -> Nat]
      /\ \A g \in DOMAIN info : info[g].created \in Nat
  BY GroupAssumption DEF TInv, IInv, TypeOK, IsInfo, Record, Time
<1>2. ASSUME NEW s \in Readers, NEW g \in Names \cap DOMAIN info'
      PROVE  /\ info'[g].created <= now'
             /\ g \notin heard'[s] \cup slipped'[s] =>
                   /\ info'[g].created > polled[s]
                   /\ stamp' = 0 \/ info'[g].created <= stamp'
  <2>1. /\ heard'[s] = heard[s] \ new
        /\ slipped'[s] = IF broke \/ now = polled[s] THEN slipped[s] \cup new
                         ELSE slipped[s] \ new
    BY DEF Registered
  <2>2. CASE g \in new
    <3>1. g \notin DOMAIN info /\ info'[g].created = now
      BY <2>2 DEF Stand
    <3>2. CASE broke \/ now = polled[s]
      BY <1>1, <2>1, <2>2, <3>1, <3>2
    <3>3. CASE ~broke /\ now # polled[s]
      <4>1. stamp' = now'
        BY <2>2, <3>3
      <4> QED
        BY <1>1, <3>1, <3>3, <4>1 DEF TInv, Due
    <3> QED
      BY <3>2, <3>3
  <2>3. CASE g \notin new
    <3>1. g \in DOMAIN info /\ info'[g].created = info[g].created
      BY <2>3 DEF Stand
    <3>2. g \notin heard'[s] \cup slipped'[s] => g \notin heard[s] \cup slipped[s]
      BY <2>1, <2>3
    <3>3. info[g].created <= now
      BY <3>1 DEF TInv, Due
    <3> QED
      BY <1>1, <3>1, <3>2, <3>3 DEF TInv, Due
  <2> QED
    BY <2>2, <2>3
<1>3. ASSUME NEW s \in Readers
      PROVE  polled'[s] <= now'
  BY <1>1 DEF TInv, Due
<1> QED
  BY <1>2, <1>3 DEF Due

LEMMA UpdateKeepsDue ==
  ASSUME TInv, Update
  PROVE  Due'
<1>1. PICK k \in DOMAIN Remotes, told \in SUBSET Known, broke \in BOOLEAN :
          processGrps(Remotes[k], told, broke)
  BY DEF Update
<1> DEFINE new   == told \ DOMAIN info
           moved == {g \in told \cap DOMAIN info :
                        Cfg_servIsPreferential(Remotes[k], info[g].serv)}
<1>2. /\ DOMAIN info' = DOMAIN info \cup new
      /\ stamp' = IF new \cup moved # {} /\ ~broke THEN now' ELSE stamp
      /\ Registered(new, broke)
  BY <1>1 DEF processGrps
<1>3. new \in SUBSET Names /\ new \cap DOMAIN info = {}
  BY GroupAssumption
<1> HIDE DEF new, moved
<1>4. now' >= now /\ UNCHANGED polled
  BY GroupAssumption DEF Update, Tool, Passing, TInv, IInv, TypeOK, Time
<1>5. IInv' /\ Stand
  BY UpdateKeeps DEF TInv
<1>6. \/ stamp' = now'
      \/ stamp' = stamp /\ (broke \/ new = {})
  BY <1>2
<1> QED
  BY <1>2, <1>3, <1>4, <1>5, <1>6, RegisteredKeepsDue

LEMMA CreateKeepsDue ==
  ASSUME TInv, NEW g \in Names, doCreateLocalGroup(g)
  PROVE  Due'
<1>1. /\ DOMAIN info' = DOMAIN info \cup {g} /\ g \notin DOMAIN info
      /\ stamp' = now' /\ Registered({g}, FALSE) /\ UNCHANGED polled
  BY DEF doCreateLocalGroup, Stored, Tool
<1>2. now' >= now
  BY GroupAssumption DEF doCreateLocalGroup, Passing, TInv, IInv, TypeOK, Time
<1>3. IInv' /\ Stand
  BY CreateKeeps DEF TInv
<1> QED
  BY <1>1, <1>2, <1>3, RegisteredKeepsDue

LEMMA NextKeepsDue ==
  ASSUME TInv, [Next]_vars
  PROVE  TInv'
<1>1. IInv' /\ Stand
  BY NextKeeps DEF TInv
<1> SUFFICES Due'
  BY <1>1 DEF TInv
<1>2. now' = now => now' >= now
  BY GroupAssumption DEF TInv, IInv, TypeOK, Time
<1>3. ASSUME NEW s \in Readers, ServerNext(s)
      PROVE  Due'
  <2>1. ASSUME NEW g \in DOMAIN info, ChangeToGrp(s, g) \/ Ask(s, g)
        PROVE  Due'
    BY <1>1, <1>2, <2>1, QuietKeepsDue DEF ChangeToGrp, Ask
  <2>2. CASE NoteInterest(s)
    <3>1. Names \cap DOMAIN info' \subseteq DOMAIN info
      BY <2>2, NoteKeeps DEF TInv
    <3> QED
      BY <1>1, <1>2, <2>2, <3>1, QuietKeepsDue DEF NoteInterest
  <2>3. CASE Idle(s) \/ Leave(s)
    BY <1>1, <1>2, <2>3, QuietKeepsDue DEF Idle, Leave
  <2> QED
    BY <1>3, <2>1, <2>2, <2>3, NewGroupsKeepsDue DEF ServerNext
<1>4. CASE ToolNext
  <2>1. ASSUME NEW g \in Names, doDeleteLocalGroup(g)
        PROVE  Due'
    BY <1>1, <1>2, <2>1, QuietKeepsDue DEF doDeleteLocalGroup, Tool, newsreader
  <2> QED
    BY <1>4, <2>1, UpdateKeepsDue, CreateKeepsDue DEF ToolNext
<1>5. CASE Tick
  <2>1. now' >= now
    BY <1>5, GroupAssumption DEF Tick, TInv, IInv, TypeOK, Time
  <2> QED
    BY <1>1, <1>5, <2>1, QuietKeepsDue DEF Tick
<1>6. CASE UNCHANGED vars
  BY <1>1, <1>2, <1>6, QuietKeepsDue DEF vars, newsreader
<1> QED
  BY <1>3, <1>4, <1>5, <1>6 DEF Next

\* Who asks for the groups made since it asked last (NEWGROUPS) is told of
\* each, by groupinfo.lastupdate and the time of creation in the records, unless
\* it was registered in the second of an earlier question or from a list that
\* broke (doNewgrps in server.c, processGrps in client.c).
THEOREM NoGroupIsMissed == Spec => []NewGroupsTold
<1>1. Init => TInv
  <2>1. Init => Due
    BY DEF Init, Due
  <2> QED
    BY <2>1, InitIInv DEF TInv
<1>2. TInv /\ [Next]_vars => TInv'
  BY NextKeepsDue
<1>3. TInv => NewGroupsTold
  <2> SUFFICES ASSUME TInv, NEW s \in Readers, NEW g \in Names \cap DOMAIN info,
                      info[g].created <= polled[s], g \notin heard[s] \cup slipped[s]
               PROVE  FALSE
    BY DEF NewGroupsTold
  <2>1. info[g].created > polled[s]
    BY DEF TInv, Due
  <2>2. info[g].created \in Nat /\ polled[s] \in Nat
    BY GroupAssumption DEF TInv, IInv, TypeOK, IsInfo, Record, Time
  <2> QED
    BY <2>1, <2>2
<1> QED
  BY <1>1, <1>2, <1>3, PTL DEF Spec
-----------------------------------------------------------------------------
(* What --delete takes out of the article database                         *)

\* Induction by the least and by the greatest number of a set.
Less == {p \in Nat \X Nat : p[1] < p[2]}

LEMMA Least ==
  ASSUME NEW T, T \subseteq Nat, T # {}
  PROVE  \E x \in T : \A y \in T : x <= y
<1>1. IsWellFoundedOn(Less, Nat)
  <2>1. OpToRel(<, Nat) = Less
    BY DEF OpToRel, Less
  <2> QED
    BY <2>1, NatLessThanWellFounded, Zenon
<1>2. PICK x \in T : \A y \in T : <<y, x>> \notin Less
  BY <1>1, WFMin, Zenon
<1>3. ASSUME NEW y \in T, y < x
      PROVE  <<y, x>> \in Less
  BY <1>3 DEF Less
<1>4. ASSUME NEW y \in T
      PROVE  ~(y < x)
  BY <1>2, <1>3, Zenon
<1> QED
  BY <1>4

LEMMA Greatest ==
  ASSUME NEW n \in Nat, NEW T, T \subseteq 0 .. n, T # {}
  PROVE  \E x \in T : \A y \in T : y <= x
<1> DEFINE U == {n - x : x \in T}
<1>1. U \subseteq Nat /\ U # {}
  <2>1. \A x \in T : x \in 0 .. n /\ n - x \in Nat
    OBVIOUS
  <2>2. PICK x \in T : TRUE
    OBVIOUS
  <2> QED
    BY <2>1, <2>2
<1>2. PICK u \in U : \A w \in U : u <= w
  BY <1>1, Least
<1>3. PICK x \in T : u = n - x
  BY <1>2
<1>4. ASSUME NEW y \in T
      PROVE  y <= x
  <2>1. n - x <= n - y
    BY <1>2, <1>3, <1>4
  <2> QED
    BY <2>1
<1> QED
  BY <1>4

\* The loop of doDeleteLocalGroup over the numbers of the group: at each number
\* msgId is that of the last overview so far, and so what goes are the articles
\* of no other group and those in front of a gap.
LEMMA DeletedAreItsOwn ==
  ASSUME NEW file, DOMAIN file \subseteq Nat, DOMAIN file # {},
         NEW last \in Nat, \A k \in DOMAIN file : k <= last, NEW shared
  PROVE  DeletedArticles(file, last, shared) =
             {file[n] : n \in {k \in DOMAIN file :
                                  \/ file[k] \notin shared
                                  \/ k < last /\ k + 1 \notin DOMAIN file}}
<1> DEFINE nums == DOMAIN file
           first == CHOOSE n \in nums : \A k \in nums : n <= k
           Step(f) == [n \in first .. last |->
                          IF n \in nums THEN file[n] ELSE f[n - 1]]
           Newest(n, k) == /\ k \in nums /\ k <= n
                           /\ \A j \in nums : j <= n => j <= k
           newest(n) == CHOOSE k : Newest(n, k)
           g == [n \in first .. last |-> file[newest(n)]]
           msgId == CHOOSE f : f = Step(f)
<1>1. first \in nums /\ \A k \in nums : first <= k
  <2>1. \E n \in nums : \A k \in nums : n <= k
    BY Least
  <2> QED
    BY <2>1
<1>2. nums \subseteq Nat /\ nums # {} /\ \A k \in nums : k <= last
  OBVIOUS
<1> HIDE DEF first, nums
<1>3. first .. last \subseteq Nat /\ first \in Nat
  BY <1>2, <1>1
<1>4. ASSUME NEW n \in first .. last
      PROVE  n \in Nat /\ first <= n /\ n <= last
  BY <1>3
<1>5. ASSUME NEW n \in first .. last
      PROVE  /\ newest(n) \in nums /\ newest(n) \in Nat /\ newest(n) <= n
             /\ \A j \in nums : j <= n => j <= newest(n)
  <2>1. n \in Nat /\ first <= n
    BY <1>4
  <2> DEFINE T == {k \in nums : k <= n}
  <2>2. first \in T
    BY <1>1, <2>1
  <2>3. ASSUME NEW k \in T
        PROVE  k \in 0 .. n
    BY <1>2, <2>1
  <2>4. PICK k \in T : \A j \in T : j <= k
    BY <2>1, <2>2, <2>3, Greatest
  <2>5. Newest(n, k)
    BY <2>4
  <2> HIDE DEF Newest, T
  <2>6. Newest(n, newest(n))
    BY <2>5
  <2> HIDE DEF newest
  <2>7. newest(n) \in nums /\ newest(n) <= n /\ \A j \in nums : j <= n => j <= newest(n)
    BY <2>6 DEF Newest
  <2> QED
    BY <1>2, <2>7
<1> HIDE DEF newest, Newest
<1>6. ASSUME NEW n \in first .. last
      PROVE  /\ n \notin nums => n - 1 \in first .. last
             /\ newest(n) = IF n \in nums THEN n ELSE newest(n - 1)
  <2>1. /\ newest(n) \in nums /\ newest(n) \in Nat /\ newest(n) <= n
        /\ \A j \in nums : j <= n => j <= newest(n)
    BY <1>5
  <2>2. n \in Nat /\ first <= n /\ n <= last
    BY <1>4
  <2>3. CASE n \in nums
    BY <2>1, <2>2, <2>3
  <2>4. CASE n \notin nums
    <3>1. n # first
      BY <1>1, <2>4
    <3>2. n - 1 \in first .. last
      BY <1>3, <2>2, <3>1
    <3>3. /\ newest(n - 1) \in nums /\ newest(n - 1) \in Nat /\ newest(n - 1) <= n - 1
          /\ \A j \in nums : j <= n - 1 => j <= newest(n - 1)
      BY <1>5, <3>2
    <3>4. newest(n) <= n - 1
      BY <2>1, <2>2, <2>4
    <3>5. newest(n) <= newest(n - 1)
      BY <2>1, <3>3, <3>4
    <3>6. newest(n - 1) <= newest(n)
      BY <2>1, <2>2, <3>3
    <3> QED
      BY <2>1, <2>4, <3>2, <3>3, <3>5, <3>6
  <2> QED
    BY <2>3, <2>4
<1>7. g = Step(g)
  <2>1. ASSUME NEW n \in first .. last
        PROVE  g[n] = IF n \in nums THEN file[n] ELSE g[n - 1]
    BY <1>6
  <2> HIDE DEF g
  <2>2. g = [n \in first .. last |-> g[n]]
    BY DEF g
  <2> QED
    BY <2>1, <2>2
<1>8. msgId = Step(msgId)
  <2> HIDE DEF g, Step
  <2>1. \E f : f = Step(f)
    BY <1>7
  <2> QED
    BY <2>1
<1>9. DeletedArticles(file, last, shared) =
          {msgId[n] : n \in {k \in first .. last : k \in nums => file[k] \notin shared}}
  BY DEF DeletedArticles, first, nums
<1> HIDE DEF msgId
<1>10. ASSUME NEW n \in first .. last
      PROVE  msgId[n] = IF n \in nums THEN file[n] ELSE msgId[n - 1]
  BY <1>8
<1>11. \A n \in first .. last : msgId[n] = file[newest(n)]
  <2> DEFINE Bad == {n \in first .. last : msgId[n] # file[newest(n)]}
  <2>1. SUFFICES ASSUME Bad # {} PROVE FALSE
    OBVIOUS
  <2>2. Bad \subseteq Nat
    BY <1>3
  <2>3. PICK n \in Bad : \A k \in Bad : n <= k
    BY <2>1, <2>2, Least
  <2>4. n \notin nums
    BY <1>6, <1>10, <2>3
  <2>5. n - 1 \in first .. last /\ n - 1 \notin Bad
    BY <1>6, <2>2, <2>3, <2>4
  <2>6. msgId[n - 1] = file[newest(n - 1)]
    BY <2>5
  <2>7. msgId[n] = msgId[n - 1] /\ newest(n) = newest(n - 1)
    BY <1>6, <1>10, <2>3, <2>4
  <2> QED
    BY <2>3, <2>6, <2>7
<1>12. ASSUME NEW n \in first .. last, n \in nums => file[n] \notin shared
      PROVE  \E k \in nums : /\ \/ file[k] \notin shared
                                \/ k < last /\ k + 1 \notin nums
                             /\ msgId[n] = file[k]
  <2>1. CASE n \in nums
    BY <1>10, <1>12, <2>1
  <2>2. CASE n \notin nums
    <3>1. n \in Nat /\ n <= last
      BY <1>4
    <3>2. /\ newest(n) \in nums /\ newest(n) \in Nat /\ newest(n) < n
          /\ \A j \in nums : j <= n => j <= newest(n)
      BY <1>5, <2>2, <3>1
    <3>3. newest(n) + 1 \notin nums
      BY <3>1, <3>2
    <3>4. newest(n) < last
      BY <3>1, <3>2
    <3> QED
      BY <1>11, <3>2, <3>3, <3>4
  <2> QED
    BY <2>1, <2>2
<1>13. ASSUME NEW k \in nums, file[k] \notin shared \/ (k < last /\ k + 1 \notin nums)
       PROVE  \E n \in first .. last : /\ n \in nums => file[n] \notin shared
                                       /\ msgId[n] = file[k]
  <2>1. k \in first .. last
    BY <1>2, <1>1, <1>3
  <2>2. msgId[k] = file[k]
    BY <1>10, <2>1
  <2>3. CASE file[k] \notin shared
    BY <2>1, <2>2, <2>3
  <2>4. CASE k < last /\ k + 1 \notin nums
    <3>1. k + 1 \in first .. last
      BY <1>1, <2>1, <2>4
    <3>2. k + 1 \notin nums /\ (k + 1) - 1 = k
      BY <2>1, <2>4, <1>3
    <3>3. msgId[k + 1] = msgId[(k + 1) - 1]
      BY <1>10, <3>1, <3>2
    <3> QED
      BY <2>2, <3>1, <3>2, <3>3
  <2> QED
    BY <1>13, <2>3, <2>4
<1> HIDE DEF g, Step
<1> DEFINE Own == {file[n] : n \in {k \in nums :
                                      \/ file[k] \notin shared
                                      \/ k < last /\ k + 1 \notin nums}}
<1>14. DeletedArticles(file, last, shared) \subseteq Own
  <2> SUFFICES ASSUME NEW n \in first .. last, n \in nums => file[n] \notin shared
               PROVE  msgId[n] \in Own
    BY <1>9
  <2>1. PICK k \in nums :
             /\ \/ file[k] \notin shared
                \/ k < last /\ k + 1 \notin nums
             /\ msgId[n] = file[k]
    BY <1>12
  <2> QED
    BY <2>1
<1>15. Own \subseteq DeletedArticles(file, last, shared)
  BY <1>9, <1>13
<1> HIDE DEF Own
<1>16. DeletedArticles(file, last, shared) = Own
  BY <1>14, <1>15
<1> QED
  BY <1>16 DEF Own, nums

\* noffle --delete takes out of the article database the articles that belong
\* to no other group, and of the others only those in front of a number
\* without an overview (doDeleteLocalGroup in noffle.c).
THEOREM DeletesWhatItSays == Spec => []DeletesItsArticles
<1> DEFINE Cases ==
        [file   : UNION {[nums -> {"p", "q"}] : nums \in (SUBSET (1 .. 3)) \ {{}}},
         last   : {3, 4},
         shared : SUBSET {"p", "q"}]
<1>1. ASSUME NEW c \in Cases
      PROVE  DeletedArticles(c.file, c.last, c.shared) =
                {c.file[n] : n \in {k \in DOMAIN c.file :
                                       \/ c.file[k] \notin c.shared
                                       \/ k < c.last /\ k + 1 \notin DOMAIN c.file}}
  <2>1. PICK nums \in (SUBSET (1 .. 3)) \ {{}} : c.file \in [nums -> {"p", "q"}]
    BY DEF Cases
  <2>2. DOMAIN c.file = nums /\ nums \subseteq 1 .. 3 /\ nums # {}
    BY <2>1
  <2>3. c.last \in {3, 4}
    BY DEF Cases
  <2>4. /\ DOMAIN c.file \subseteq Nat /\ DOMAIN c.file # {}
        /\ c.last \in Nat /\ \A k \in DOMAIN c.file : k <= c.last
    <3>1. nums \subseteq Nat /\ \A k \in nums : k <= 3
      BY <2>2
    <3>2. c.last \in Nat /\ \A k \in nums : k <= c.last
      BY <2>3, <3>1
    <3> QED
      BY <2>2, <3>1, <3>2, Zenon
  <2> QED
    BY <2>4, DeletedAreItsOwn
<1>2. Misdeleted = {}
  BY <1>1 DEF Misdeleted
<1>3. DeletesItsArticles
  BY <1>2 DEF DeletesItsArticles
<1> QED
  BY <1>3, PTL

-----------------------------------------------------------------------------
(* How Wld_match judges a name: DoMatch, read item by item, finds just the *)
(* texts that can be cut into what the items of its pattern stand for.     *)

\* What is in T for the last number of an interval, and with each number for
\* the one before, is in T.
LEMMA Downwards ==
  ASSUME NEW a \in Int, NEW b \in Int, NEW T, b \in T,
         \A k \in a .. b - 1 : k + 1 \in T => k \in T
  PROVE  a .. b \subseteq T
<1> DEFINE U == {x \in Nat : b - x \in a .. b /\ b - x \notin T}
<1>1. SUFFICES ASSUME NEW k \in a .. b, k \notin T PROVE FALSE
  OBVIOUS
<1>2. U \subseteq Nat /\ b - k \in U
  <2>1. b - k \in Nat /\ b - (b - k) = k
    OBVIOUS
  <2> QED
    BY <1>1, <2>1
<1>3. PICK x \in U : \A y \in U : x <= y
  <2> HIDE DEF U
  <2> QED
    BY <1>2, Least
<1>4. x \in Nat /\ b - x \in a .. b /\ b - x \notin T /\ x # 0
  OBVIOUS
<1>5. x - 1 \notin U /\ x - 1 \in Nat
  <2> HIDE DEF U
  <2> QED
    BY <1>3, <1>4
<1>6. b - (x - 1) = (b - x) + 1 /\ (b - x) + 1 \in a .. b
  BY <1>4
<1>7. (b - x) + 1 \in T
  BY <1>5, <1>6
<1> QED
  BY <1>4, <1>6, <1>7

-----------------------------------------------------------------------------
(* The loop of a star.                                                     *)

LoopStep(answers, n, again, f) ==
    [k \in 1 .. n + 1 |-> IF k > n THEN "ABORT"
                          ELSE IF answers[k] \in again THEN f[k + 1]
                          ELSE answers[k]]

\* The loop of a star is defined: a function meets its recursion.
LEMMA LoopExists ==
  ASSUME NEW answers, NEW n \in Nat, NEW again
  PROVE  \E f : f = LoopStep(answers, n, again, f)
<1> DEFINE At1(f, k) == IF k > n THEN "ABORT"
                        ELSE IF answers[k] \in again THEN f[k + 1]
                        ELSE answers[k]
           T == {k \in 1 .. n + 1 : \E f : \A x \in k .. n + 1 : f[x] = At1(f, x)}
<1>1. n + 1 \in T
  <2>1. \A x \in (n + 1) .. (n + 1) : [k \in 1 .. n + 1 |-> "ABORT"][x] = "ABORT" /\ x > n
    OBVIOUS
  <2> QED
    BY <2>1
<1>2. ASSUME NEW k \in 1 .. (n + 1) - 1, k + 1 \in T
      PROVE  k \in T
  <2>1. PICK f : \A x \in k + 1 .. n + 1 : f[x] = At1(f, x)
    BY <1>2
  <2> DEFINE g == [x \in 1 .. n + 1 |-> IF x = k THEN At1(f, k) ELSE f[x]]
  <2>2. ASSUME NEW x \in k .. n + 1
        PROVE  g[x] = At1(g, x)
    <3>1. x \in 1 .. n + 1 /\ (x > n \/ (x + 1 \in 1 .. n + 1 /\ x + 1 # k /\ g[x + 1] = f[x + 1]))
      OBVIOUS
    <3>2. At1(g, x) = At1(f, x)
      <4> HIDE DEF g
      <4> QED
        BY <3>1
    <3>3. CASE x = k
      BY <3>1, <3>2, <3>3
    <3>4. CASE x # k
      BY <2>1, <3>1, <3>2, <3>4
    <3> QED
      BY <3>3, <3>4
  <2> HIDE DEF g, At1
  <2> QED
    BY <2>2
<1>3. 1 .. n + 1 \subseteq T
  <2> HIDE DEF T
  <2> QED
    BY <1>1, <1>2, Downwards
<1>4. PICK f : \A x \in 1 .. n + 1 : f[x] = At1(f, x)
  <2>1. 1 \in T
    BY <1>3
  <2> HIDE DEF At1
  <2> QED
    BY <2>1
<1> DEFINE g == [x \in 1 .. n + 1 |-> f[x]]
<1>5. ASSUME NEW x \in 1 .. n + 1
      PROVE  g[x] = At1(g, x)
  <2>1. x > n \/ g[x + 1] = f[x + 1]
    OBVIOUS
  <2>2. At1(g, x) = At1(f, x)
    <3> HIDE DEF g
    <3> QED
      BY <2>1
  <2> QED
    BY <1>4, <2>2
<1>6. g = LoopStep(answers, n, again, g)
  <2>1. g = [x \in 1 .. n + 1 |-> g[x]]
    OBVIOUS
  <2> HIDE DEF g
  <2> QED
    BY <1>5, <2>1 DEF LoopStep
<1> HIDE DEF g
<1> QED
  BY <1>6

\* Each turn of the loop of a star (wildmat.c) is what LoopStep says.
LEMMA LoopIsStep ==
  ASSUME NEW answers, NEW n \in Nat, NEW again
  PROVE  StarLoop(answers, n, again) = LoopStep(answers, n, again, StarLoop(answers, n, again))
<1> DEFINE from[k \in 1 .. n + 1] == IF k > n THEN "ABORT"
                                  ELSE IF answers[k] \in again THEN from[k + 1]
                                  ELSE answers[k]
<1>1. PICK f : f = LoopStep(answers, n, again, f)
  BY LoopExists
<1>2. f = [k \in 1 .. n + 1 |-> IF k > n THEN "ABORT"
                          ELSE IF answers[k] \in again THEN f[k + 1]
                          ELSE answers[k]]
  BY <1>1 DEF LoopStep
<1>3. from = [k \in 1 .. n + 1 |-> IF k > n THEN "ABORT"
                          ELSE IF answers[k] \in again THEN from[k + 1]
                          ELSE answers[k]]
  BY <1>2
<1>4. StarLoop(answers, n, again) = from
  BY DEF StarLoop
<1> HIDE DEF from
<1> QED
  BY <1>3, <1>4 DEF LoopStep

Verdicts == {"TRUE", "FALSE", "ABORT"}

\* The loop returns the first answer that is not FALSE, or gives up.
LEMMA LoopFinds ==
  ASSUME NEW answers, NEW n \in Nat, \A k \in 1 .. n : answers[k] \in Verdicts,
         NEW i \in 1 .. n + 1
  PROVE  LET loop == StarLoop(answers, n, {"FALSE"})
         IN  \/ \E l \in i .. n : /\ loop[i] = answers[l] /\ answers[l] # "FALSE"
                                  /\ \A x \in i .. l - 1 : answers[x] = "FALSE"
             \/ loop[i] = "ABORT" /\ \A x \in i .. n : answers[x] = "FALSE"
<1> DEFINE loop == StarLoop(answers, n, {"FALSE"})
           Found(k) == \/ \E l \in k .. n : /\ loop[k] = answers[l] /\ answers[l] # "FALSE"
                                            /\ \A x \in k .. l - 1 : answers[x] = "FALSE"
                       \/ loop[k] = "ABORT" /\ \A x \in k .. n : answers[x] = "FALSE"
           T == {k \in 1 .. n + 1 : Found(k)}
<1>1. \A k \in 1 .. n + 1 : loop[k] = IF k > n THEN "ABORT"
                                      ELSE IF answers[k] \in {"FALSE"} THEN loop[k + 1]
                                      ELSE answers[k]
  <2>1. loop = LoopStep(answers, n, {"FALSE"}, loop)
    BY LoopIsStep
  <2> HIDE DEF loop
  <2> QED
    BY <2>1 DEF LoopStep
<1> HIDE DEF loop
<1>2. n + 1 \in T
  BY <1>1
<1>3. ASSUME NEW k \in 1 .. (n + 1) - 1, k + 1 \in T
      PROVE  k \in T
  <2>1. CASE answers[k] = "FALSE"
    <3>1. loop[k] = loop[k + 1] /\ Found(k + 1)
      BY <1>1, <1>3, <2>1
    <3>2. CASE loop[k + 1] = "ABORT" /\ \A x \in k + 1 .. n : answers[x] = "FALSE"
      BY <2>1, <3>1, <3>2
    <3>3. ASSUME NEW l \in k + 1 .. n, loop[k + 1] = answers[l], answers[l] # "FALSE",
                 \A x \in k + 1 .. l - 1 : answers[x] = "FALSE"
          PROVE  Found(k)
      <4>1. l \in k .. n /\ \A x \in k .. l - 1 : x = k \/ x \in k + 1 .. l - 1
        OBVIOUS
      <4>2. \A x \in k .. l - 1 : answers[x] = "FALSE"
        BY <2>1, <3>3, <4>1
      <4> QED
        BY <3>1, <3>3, <4>1, <4>2
    <3> QED
      BY <3>1, <3>2, <3>3
  <2>2. CASE answers[k] # "FALSE"
    <3>1. loop[k] = answers[k] /\ k \in k .. n /\ k .. k - 1 = {}
      BY <1>1, <2>2
    <3> QED
      BY <2>2, <3>1
  <2> QED
    BY <2>1, <2>2
<1>4. 1 .. n + 1 \subseteq T
  <2> HIDE DEF T
  <2> QED
    BY <1>2, <1>3, Downwards
<1> QED
  BY <1>4 DEF loop

-----------------------------------------------------------------------------
(* Character classes.                                                      *)

ClassStep(p, from, f) ==
    [k \in from .. Len(p) + 1 |->
        IF At(p, k + 1) \in {NUL, "]"} THEN [end |-> k + 1, chars |-> {}]
        ELSE IF At(p, k + 1) = "-" /\ At(p, k + 2) # "]"
          THEN [end   |-> f[k + 2].end,
                chars |-> Span(At(p, k), At(p, k + 2)) \cup f[k + 2].chars]
          ELSE [end   |-> f[k + 1].end,
                chars |-> {At(p, k + 1)} \cup f[k + 1].chars]]

\* The characters of patterns and names.
Signs == {"*", "-", "?", "[", "\\", "]", "^", "a", "b", "c",
          ".", "control", "to", "all", "ctl", "x"}

\* Behind the end of a pattern DoMatch reads NUL.
LEMMA PatternEnds ==
  ASSUME NEW p \in Seq(Signs), NEW k \in Int, At(p, k) # NUL
  PROVE  k \in 1 .. Len(p)
BY DEF At

\* The loop over a character class is defined.
LEMMA ClassExists ==
  ASSUME NEW p \in Seq(Signs), NEW from \in Int, from <= Len(p) + 1
  PROVE  \E f : f = ClassStep(p, from, f)
<1> DEFINE L == Len(p)
           At1(f, k) ==
              IF At(p, k + 1) \in {NUL, "]"} THEN [end |-> k + 1, chars |-> {}]
              ELSE IF At(p, k + 1) = "-" /\ At(p, k + 2) # "]"
                THEN [end   |-> f[k + 2].end,
                      chars |-> Span(At(p, k), At(p, k + 2)) \cup f[k + 2].chars]
                ELSE [end   |-> f[k + 1].end,
                      chars |-> {At(p, k + 1)} \cup f[k + 1].chars]
           T == {k \in from .. L + 1 : \E f : \A x \in k .. L + 1 : f[x] = At1(f, x)}
<1>1. L \in Nat
  OBVIOUS
<1>2. ASSUME NEW f, NEW g, NEW x \in from .. L + 1,
             \A y \in x + 1 .. L + 1 : f[y] = g[y]
      PROVE  At1(f, x) = At1(g, x)
  <2>1. At(p, x + 1) # NUL => x + 1 \in x + 1 .. L + 1 /\ x + 2 \in x + 1 .. L + 1
    BY <1>1, PatternEnds
  <2>2. At(p, x + 1) # NUL => f[x + 1] = g[x + 1] /\ f[x + 2] = g[x + 2]
    BY <1>2, <2>1
  <2>3. CASE At(p, x + 1) \in {NUL, "]"}
    BY <2>3
  <2>4. CASE At(p, x + 1) \notin {NUL, "]"} /\ At(p, x + 1) = "-" /\ At(p, x + 2) # "]"
    BY <2>2, <2>4
  <2>5. CASE At(p, x + 1) \notin {NUL, "]"} /\ ~(At(p, x + 1) = "-" /\ At(p, x + 2) # "]")
    BY <2>2, <2>5
  <2> QED
    BY <2>3, <2>4, <2>5
<1> HIDE DEF At1, L
<1>3. L + 1 \in T
  <2> DEFINE g == [x \in from .. L + 1 |-> At1(0, x)]
  <2>1. ASSUME NEW x \in L + 1 .. L + 1
        PROVE  g[x] = At1(g, x)
    <3>1. x \in from .. L + 1 /\ x + 1 .. L + 1 = {}
      BY <1>1 DEF L
    <3>2. At1(0, x) = At1(g, x)
      <4> HIDE DEF g
      <4> QED
        BY <1>2, <3>1
    <3> QED
      BY <3>1, <3>2
  <2>2. L + 1 \in from .. L + 1
    BY <1>1 DEF L
  <2> HIDE DEF g
  <2> QED
    BY <2>1, <2>2
<1>4. ASSUME NEW k \in from .. (L + 1) - 1, k + 1 \in T
      PROVE  k \in T
  <2>1. PICK f : \A x \in k + 1 .. L + 1 : f[x] = At1(f, x)
    BY <1>4
  <2> DEFINE g == [x \in from .. L + 1 |-> IF x = k THEN At1(f, k) ELSE f[x]]
  <2>2. ASSUME NEW x \in k .. L + 1
        PROVE  g[x] = At1(g, x)
    <3>1. x \in from .. L + 1 /\ \A y \in x + 1 .. L + 1 : f[y] = g[y]
      BY <1>1
    <3>2. At1(f, x) = At1(g, x)
      <4> HIDE DEF g
      <4> QED
        BY <1>2, <3>1
    <3>3. CASE x = k
      BY <3>1, <3>2, <3>3
    <3>4. CASE x # k
      BY <1>1, <2>1, <3>1, <3>2, <3>4
    <3> QED
      BY <3>3, <3>4
  <2> HIDE DEF g
  <2> QED
    BY <1>1, <2>2
<1>5. from .. L + 1 \subseteq T
  <2> HIDE DEF T
  <2>1. L + 1 \in Int /\ from \in Int
    BY <1>1
  <2> QED
    BY <1>3, <1>4, <2>1, Downwards
<1>6. PICK f : \A x \in from .. L + 1 : f[x] = At1(f, x)
  <2>1. from \in T
    BY <1>1, <1>5 DEF L
  <2> QED
    BY <2>1
<1> DEFINE g == [x \in from .. L + 1 |-> f[x]]
<1>7. ASSUME NEW x \in from .. L + 1
      PROVE  g[x] = At1(g, x)
  <2>1. \A y \in x + 1 .. L + 1 : f[y] = g[y]
    BY <1>1 DEF L
  <2>2. At1(f, x) = At1(g, x)
    <3> HIDE DEF g
    <3> QED
      BY <1>2, <2>1
  <2> QED
    BY <1>6, <2>2
<1>8. g = [x \in from .. L + 1 |-> At1(g, x)]
  <2>1. g = [x \in from .. L + 1 |-> g[x]]
    OBVIOUS
  <2> HIDE DEF g
  <2> QED
    BY <1>7, <2>1
<1> HIDE DEF g
<1>9. g = ClassStep(p, from, g)
  BY <1>8 DEF ClassStep, At1, L
<1> QED
  BY <1>9

\* Where the loop over a class begins, behind "[", "^" and an odd first character.
Opens(p, j) == IF At(p, j + 1) = "^" THEN j + 1 ELSE j
Odd(p, j)   == At(p, Opens(p, j) + 1) \in {"]", "-"}
Loops(p, j) == IF Odd(p, j) THEN Opens(p, j) + 1 ELSE Opens(p, j)

\* Class is what the loop over it returns, from where it begins.
LEMMA ClassReads ==
  ASSUME NEW p \in Seq(Signs), NEW j \in 1 .. Len(p)
  PROVE  /\ Loops(p, j) \in j .. Len(p)
         /\ \E rest : /\ rest = ClassStep(p, Loops(p, j), rest)
                      /\ Class(p, j).end = rest[Loops(p, j)].end
                      /\ Class(p, j).chars = rest[Loops(p, j)].chars
                            \cup IF Odd(p, j) THEN {At(p, Loops(p, j))} ELSE {}
<1> DEFINE open == IF At(p, j + 1) = "^" THEN j + 1 ELSE j
           odd == At(p, open + 1) \in {"]", "-"}
           from == IF odd THEN open + 1 ELSE open
           rest[k \in from .. Len(p) + 1] ==
            IF At(p, k + 1) \in {NUL, "]"} THEN [end |-> k + 1, chars |-> {}]
            ELSE IF At(p, k + 1) = "-" /\ At(p, k + 2) # "]"
              THEN [end   |-> rest[k + 2].end,
                    chars |-> Span(At(p, k), At(p, k + 2)) \cup rest[k + 2].chars]
              ELSE [end   |-> rest[k + 1].end,
                    chars |-> {At(p, k + 1)} \cup rest[k + 1].chars]
<1>1. from = Loops(p, j) /\ (odd <=> Odd(p, j))
  BY DEF Loops, Odd, Opens
<1>2. from \in j .. Len(p)
  <2>1. open \in j .. Len(p)
    BY PatternEnds DEF NUL
  <2>2. odd => open + 1 \in j .. Len(p)
    <3> HIDE DEF open
    <3> QED
      BY <2>1, PatternEnds DEF NUL
  <2> HIDE DEF odd, open
  <2> QED
    BY <2>1, <2>2
<1> HIDE DEF odd, open
<1>3. rest = ClassStep(p, from, rest)
  <2>1. from \in Int /\ from <= Len(p) + 1
    BY <1>2
  <2>2. PICK f : f = ClassStep(p, from, f)
    <3> HIDE DEF from
    <3> QED
      BY <2>1, ClassExists
  <2> HIDE DEF from
  <2>3. rest = ClassStep(p, from, rest)
    BY <2>2 DEF ClassStep
  <2> QED
    BY <2>3
<1>4. Class(p, j) = [end   |-> rest[from].end,
                     chars |-> rest[from].chars \cup IF odd THEN {At(p, from)} ELSE {}]
  BY DEF Class, open, odd
<1> HIDE DEF rest, from
<1> QED
  BY <1>1, <1>2, <1>3, <1>4

\* A turn of the loop over a class: it ends, adds a range, or a character.
LEMMA ClassTurns ==
  ASSUME NEW p, NEW from, NEW rest, rest = ClassStep(p, from, rest),
         NEW k \in from .. Len(p) + 1
  PROVE  /\ At(p, k + 1) \in {NUL, "]"} => rest[k].end = k + 1 /\ rest[k].chars = {}
         /\ At(p, k + 1) \notin {NUL, "]"} /\ At(p, k + 1) = "-" /\ At(p, k + 2) # "]" =>
               /\ rest[k].end = rest[k + 2].end
               /\ rest[k].chars = Span(At(p, k), At(p, k + 2)) \cup rest[k + 2].chars
         /\ At(p, k + 1) \notin {NUL, "]"} /\ ~(At(p, k + 1) = "-" /\ At(p, k + 2) # "]") =>
               /\ rest[k].end = rest[k + 1].end
               /\ rest[k].chars = {At(p, k + 1)} \cup rest[k + 1].chars
<1>1. rest[k] = IF At(p, k + 1) \in {NUL, "]"} THEN [end |-> k + 1, chars |-> {}]
        ELSE IF At(p, k + 1) = "-" /\ At(p, k + 2) # "]"
          THEN [end   |-> rest[k + 2].end,
                chars |-> Span(At(p, k), At(p, k + 2)) \cup rest[k + 2].chars]
          ELSE [end   |-> rest[k + 1].end,
                chars |-> {At(p, k + 1)} \cup rest[k + 1].chars]
  <2>1. rest = ClassStep(p, from, rest)
    OBVIOUS
  <2>2. ClassStep(p, from, rest)[k] =
          IF At(p, k + 1) \in {NUL, "]"} THEN [end |-> k + 1, chars |-> {}]
        ELSE IF At(p, k + 1) = "-" /\ At(p, k + 2) # "]"
          THEN [end   |-> rest[k + 2].end,
                chars |-> Span(At(p, k), At(p, k + 2)) \cup rest[k + 2].chars]
          ELSE [end   |-> rest[k + 1].end,
                chars |-> {At(p, k + 1)} \cup rest[k + 1].chars]
    BY Zenon DEF ClassStep
  <2> QED
    BY <2>1, <2>2, Zenon
<1>2. CASE At(p, k + 1) \in {NUL, "]"}
  BY <1>1, <1>2
<1>3. CASE At(p, k + 1) \notin {NUL, "]"} /\ At(p, k + 1) = "-" /\ At(p, k + 2) # "]"
  <2>1. rest[k] = [end   |-> rest[k + 2].end,
                   chars |-> Span(At(p, k), At(p, k + 2)) \cup rest[k + 2].chars]
    BY <1>1, <1>3
  <2> QED
    BY <1>3, <2>1
<1>4. CASE At(p, k + 1) \notin {NUL, "]"} /\ ~(At(p, k + 1) = "-" /\ At(p, k + 2) # "]")
  <2>1. rest[k] = [end   |-> rest[k + 1].end,
                   chars |-> {At(p, k + 1)} \cup rest[k + 1].chars]
    BY <1>1, <1>4
  <2> QED
    BY <1>4, <2>1
<1> QED
  BY <1>2, <1>3, <1>4

\* A class ends behind its "[", and no further than DoMatch may read.
LEMMA ClassEnds ==
  ASSUME NEW p \in Seq(Signs), NEW j \in 1 .. Len(p)
  PROVE  Class(p, j).end \in j + 1 .. Len(p) + 2
<1> DEFINE from == Loops(p, j)
           L == Len(p)
<1>1. L \in Nat /\ from \in j .. L
  BY ClassReads
<1>2. PICK f : f = ClassStep(p, from, f) /\ Class(p, j).end = f[from].end
  BY ClassReads
<1>3. \A k \in from .. L + 1 : f[k].end = IF At(p, k + 1) \in {NUL, "]"} THEN k + 1
                    ELSE IF At(p, k + 1) = "-" /\ At(p, k + 2) # "]" THEN f[k + 2].end
                    ELSE f[k + 1].end
  BY <1>2, ClassTurns
<1> DEFINE T == {k \in from .. L + 1 : \A x \in k .. L + 1 : f[x].end \in x + 1 .. L + 2}
<1> HIDE DEF from, L
<1>4. L + 1 \in T
  <2>1. At(p, L + 2) = NUL
    BY <1>1, PatternEnds DEF L
  <2>2. f[L + 1].end = L + 2
    BY <1>1, <1>3, <2>1
  <2> QED
    BY <1>1, <2>2
<1>5. ASSUME NEW k \in from .. (L + 1) - 1, k + 1 \in T
      PROVE  k \in T
  <2>1. \A x \in k + 1 .. L + 1 : f[x].end \in x + 1 .. L + 2
    BY <1>5
  <2>2. At(p, k + 1) \in {NUL, "]"} \/ k + 1 \in 1 .. L
    BY <1>1, PatternEnds DEF L
  <2>3. f[k].end \in k + 1 .. L + 2
    <3>1. CASE At(p, k + 1) \in {NUL, "]"}
      BY <1>1, <1>3, <3>1
    <3>2. CASE At(p, k + 1) \notin {NUL, "]"}
      <4>1. k + 1 \in k + 1 .. L + 1 /\ k + 2 \in k + 1 .. L + 1
        BY <1>1, <2>2, <3>2
      <4>2. f[k].end = f[k + 2].end \/ f[k].end = f[k + 1].end
        BY <1>1, <1>3, <3>2
      <4> QED
        BY <1>1, <2>1, <4>1, <4>2
    <3> QED
      BY <3>1, <3>2
  <2> QED
    BY <1>1, <2>1, <2>3
<1>6. from .. L + 1 \subseteq T
  <2> HIDE DEF T
  <2> QED
    BY <1>1, <1>4, <1>5, Downwards
<1>7. f[from].end \in from + 1 .. L + 2
  <2>1. from \in Int
    BY <1>1 DEF L
  <2>2. from \in T /\ from \in from .. L + 1
    BY <1>1, <1>6, <2>1
  <2> QED
    BY <2>2
<1> QED
  BY <1>1, <1>2, <1>7 DEF L

-----------------------------------------------------------------------------
(* What DoMatch does with one item of a pattern.                           *)

Special == {NUL, "*", "\\", "?", "["}

\* The arms of the switch in DoMatch.
LEMMA AnswerAt ==
  ASSUME NEW text, Len(text) \in Nat, NEW p, NEW again, NEW j, NEW m,
         NEW i \in 1 .. Len(text) + 1
  PROVE  LET a == Answer(text, p, again, i, j, m)
             c == At(p, j)
             n == Len(text)
         IN  /\ c = NUL => a = IF i > n THEN "TRUE" ELSE "FALSE"
             /\ c = "*" => a = IF At(p, j + 1) = "*" THEN m[j + 1][i]
                               ELSE IF At(p, j + 1) = NUL THEN "TRUE"
                               ELSE StarLoop(m[j + 1], n, again)[i]
             /\ c \notin {NUL, "*"} /\ i > n => a = "ABORT"
             /\ c = "\\" /\ i <= n =>
                   a = IF text[i] = At(p, j + 1) THEN m[j + 2][i + 1] ELSE "FALSE"
             /\ c = "?" /\ i <= n => a = m[j + 1][i + 1]
             /\ c = "[" /\ i <= n =>
                   a = IF text[i] \in Class(p, j).chars <=> At(p, j + 1) # "^"
                         THEN m[Class(p, j).end + 1][i + 1] ELSE "FALSE"
             /\ c \notin Special /\ i <= n =>
                   a = IF text[i] = c THEN m[j + 1][i + 1] ELSE "FALSE"
<1> DEFINE n == Len(text)
           c == At(p, j)
           a == Answer(text, p, again, i, j, m)
<1>1. a = CASE c = NUL -> IF i > Len(text) THEN "TRUE" ELSE "FALSE"
            [] c = "*" -> IF At(p, j + 1) = "*" THEN m[j + 1][i]
                          ELSE IF At(p, j + 1) = NUL THEN "TRUE"
                          ELSE StarLoop(m[j + 1], Len(text), again)[i]
            [] c \notin {NUL, "*"} /\ i > Len(text) -> "ABORT"
            [] c = "\\" /\ i <= Len(text) ->
                  IF text[i] = At(p, j + 1) THEN m[j + 2][i + 1] ELSE "FALSE"
            [] c = "?" /\ i <= Len(text) -> m[j + 1][i + 1]
            [] c = "[" /\ i <= Len(text) ->
                  IF text[i] \in Class(p, j).chars <=> At(p, j + 1) # "^"
                    THEN m[Class(p, j).end + 1][i + 1] ELSE "FALSE"
            [] OTHER -> IF text[i] = c THEN m[j + 1][i + 1] ELSE "FALSE"
  BY Zenon DEF Answer
<1>2. i > n <=> ~(i <= n)
  OBVIOUS
<1> HIDE DEF a, c, n
<1>3. c = NUL => a = IF i > n THEN "TRUE" ELSE "FALSE"
  BY <1>1, <1>2 DEF NUL, n
<1>4. c = "*" => a = IF At(p, j + 1) = "*" THEN m[j + 1][i]
                     ELSE IF At(p, j + 1) = NUL THEN "TRUE"
                     ELSE StarLoop(m[j + 1], n, again)[i]
  BY <1>1, <1>2 DEF NUL, n
<1>5. c \notin {NUL, "*"} /\ i > n => a = "ABORT"
  BY <1>1, <1>2 DEF NUL, n
<1>6. c = "\\" /\ i <= n =>
        a = IF text[i] = At(p, j + 1) THEN m[j + 2][i + 1] ELSE "FALSE"
  BY <1>1, <1>2 DEF NUL, n
<1>7. c = "?" /\ i <= n => a = m[j + 1][i + 1]
  BY <1>1, <1>2 DEF NUL, n
<1>8. c = "[" /\ i <= n =>
         a = IF text[i] \in Class(p, j).chars <=> At(p, j + 1) # "^"
               THEN m[Class(p, j).end + 1][i + 1] ELSE "FALSE"
  BY <1>1, <1>2 DEF NUL, n
<1>9. c \notin Special /\ i <= n =>
        a = IF text[i] = c THEN m[j + 1][i + 1] ELSE "FALSE"
  BY <1>1, <1>2 DEF Special, NUL, n
<1> QED
  BY <1>3, <1>4, <1>5, <1>6, <1>7, <1>8, <1>9 DEF a, c, n

\* A call of DoMatch uses only what is returned further on in the pattern.
LEMMA AnswerDepends ==
  ASSUME NEW text, Len(text) \in Nat, NEW p \in Seq(Signs), NEW again,
         NEW i \in 1 .. Len(text) + 1, NEW j \in 1 .. Len(p) + 3, NEW f, NEW g,
         \A y \in j + 1 .. Len(p) + 3 : f[y] = g[y]
  PROVE  Answer(text, p, again, i, j, f) = Answer(text, p, again, i, j, g)
<1> DEFINE n == Len(text)
           L == Len(p)
           F == Answer(text, p, again, i, j, f)
           G == Answer(text, p, again, i, j, g)
<1>1. n \in Nat /\ L \in Nat
  OBVIOUS
<1>2. At(p, j) # NUL => /\ j \in 1 .. L /\ f[j + 1] = g[j + 1] /\ f[j + 2] = g[j + 2]
                        /\ f[Class(p, j).end + 1] = g[Class(p, j).end + 1]
  <2> SUFFICES ASSUME At(p, j) # NUL
               PROVE  /\ j \in 1 .. L /\ f[j + 1] = g[j + 1] /\ f[j + 2] = g[j + 2]
                      /\ f[Class(p, j).end + 1] = g[Class(p, j).end + 1]
    OBVIOUS
  <2>1. j \in 1 .. L
    BY PatternEnds
  <2>2. Class(p, j).end \in j + 1 .. L + 2
    BY <2>1, ClassEnds
  <2>3. j + 1 \in j + 1 .. L + 3 /\ j + 2 \in j + 1 .. L + 3
        /\ Class(p, j).end + 1 \in j + 1 .. L + 3
    <3> DEFINE end == Class(p, j).end
    <3>1. L \in Nat /\ j \in 1 .. L /\ end \in j + 1 .. L + 2
      BY <1>1, <2>1, <2>2
    <3> HIDE DEF end, L
    <3>2. /\ j + 1 \in j + 1 .. L + 3 /\ j + 2 \in j + 1 .. L + 3
          /\ end + 1 \in j + 1 .. L + 3
      BY <3>1
    <3> QED
      BY <3>2 DEF end
  <2> QED
    BY <2>1, <2>3
<1> DEFINE c == At(p, j)
<1>3. c = NUL => F = G
  BY AnswerAt
<1>4. c = "*" => F = G
  BY <1>2, AnswerAt DEF NUL
<1>5. c \notin {NUL, "*"} /\ i > n => F = G
  BY AnswerAt
<1>6. c = "\\" /\ i <= n => F = G
  BY <1>2, AnswerAt DEF NUL
<1>7. c = "?" /\ i <= n => F = G
  BY <1>2, AnswerAt DEF NUL
<1>8. c = "[" /\ i <= n => F = G
  BY <1>2, AnswerAt DEF NUL
<1>9. c \notin Special /\ i <= n => F = G
  BY <1>2, AnswerAt DEF NUL, Special
<1>10. i > n \/ i <= n
  OBVIOUS
<1> QED
  BY <1>3, <1>4, <1>5, <1>6, <1>7, <1>8, <1>9, <1>10 DEF Special

Rows(text, p, again, m) ==
    [j \in 1 .. Len(p) + 3 |->
        [i \in 1 .. Len(text) + 1 |-> Answer(text, p, again, i, j, m)]]

\* The calls of DoMatch for a text and a pattern are defined.
LEMMA RowsExist ==
  ASSUME NEW text, Len(text) \in Nat, NEW p \in Seq(Signs), NEW again
  PROVE  \E m : m = Rows(text, p, again, m)
<1> DEFINE L == Len(p)
           At1(f, j) == [i \in 1 .. Len(text) + 1 |-> Answer(text, p, again, i, j, f)]
           T == {k \in 1 .. L + 3 : \E f : \A x \in k .. L + 3 : f[x] = At1(f, x)}
<1>1. L \in Nat
  OBVIOUS
<1>2. ASSUME NEW f, NEW g, NEW x \in 1 .. L + 3,
             \A y \in x + 1 .. L + 3 : f[y] = g[y]
      PROVE  At1(f, x) = At1(g, x)
  BY <1>2, AnswerDepends
<1> HIDE DEF At1, L
<1>3. L + 3 \in T
  <2> DEFINE g == [x \in 1 .. L + 3 |-> At1(0, x)]
  <2>1. ASSUME NEW x \in L + 3 .. L + 3
        PROVE  g[x] = At1(g, x)
    <3>1. x \in 1 .. L + 3 /\ x + 1 .. L + 3 = {}
      BY <1>1
    <3>2. At1(0, x) = At1(g, x)
      <4> HIDE DEF g
      <4> QED
        BY <1>2, <3>1
    <3> QED
      BY <3>1, <3>2
  <2>2. L + 3 \in 1 .. L + 3
    BY <1>1
  <2> HIDE DEF g
  <2> QED
    BY <2>1, <2>2
<1>4. ASSUME NEW k \in 1 .. (L + 3) - 1, k + 1 \in T
      PROVE  k \in T
  <2>1. PICK f : \A x \in k + 1 .. L + 3 : f[x] = At1(f, x)
    BY <1>4
  <2> DEFINE g == [x \in 1 .. L + 3 |-> IF x = k THEN At1(f, k) ELSE f[x]]
  <2>2. ASSUME NEW x \in k .. L + 3
        PROVE  g[x] = At1(g, x)
    <3>1. x \in 1 .. L + 3 /\ \A y \in x + 1 .. L + 3 : f[y] = g[y]
      BY <1>1
    <3>2. At1(f, x) = At1(g, x)
      <4> HIDE DEF g
      <4> QED
        BY <1>2, <3>1
    <3>3. CASE x = k
      BY <3>1, <3>2, <3>3
    <3>4. CASE x # k
      BY <1>1, <2>1, <3>1, <3>2, <3>4
    <3> QED
      BY <3>3, <3>4
  <2> HIDE DEF g
  <2> QED
    BY <1>1, <2>2
<1>5. 1 .. L + 3 \subseteq T
  <2> HIDE DEF T
  <2>1. L + 3 \in Int
    BY <1>1
  <2> DEFINE b == L + 3
  <2>2. \A k \in 1 .. b - 1 : k + 1 \in T => k \in T
    BY <1>4
  <2> HIDE DEF b
  <2>3. b \in Int /\ b \in T /\ 1 \in Int
    BY <1>3, <2>1 DEF b
  <2>4. 1 .. b \subseteq T
    BY <2>2, <2>3, Downwards, Zenon
  <2> QED
    BY <2>4 DEF b
<1>6. PICK f : \A x \in 1 .. L + 3 : f[x] = At1(f, x)
  <2>1. 1 \in T
    BY <1>1, <1>5
  <2> QED
    BY <2>1
<1> DEFINE g == [x \in 1 .. L + 3 |-> f[x]]
<1>7. ASSUME NEW x \in 1 .. L + 3
      PROVE  g[x] = At1(g, x)
  <2>1. \A y \in x + 1 .. L + 3 : f[y] = g[y]
    BY <1>1
  <2>2. At1(f, x) = At1(g, x)
    <3> HIDE DEF g
    <3> QED
      BY <1>2, <2>1
  <2> QED
    BY <1>6, <2>2
<1>8. g = [x \in 1 .. L + 3 |-> At1(g, x)]
  <2>1. g = [x \in 1 .. L + 3 |-> g[x]]
    OBVIOUS
  <2> HIDE DEF g
  <2> QED
    BY <1>7, <2>1
<1> HIDE DEF g
<1>9. g = Rows(text, p, again, g)
  BY <1>8 DEF Rows, At1, L
<1> QED
  BY <1>9

\* DoMatch for a whole text and a whole pattern is one of these calls.
LEMMA MatchIsRows ==
  ASSUME NEW text, Len(text) \in Nat, NEW p \in Seq(Signs), NEW again
  PROVE  \E m : m = Rows(text, p, again, m) /\ DoMatch(text, p, again) = m[1][1]
<1> DEFINE m[j \in 1 .. Len(p) + 3] ==
              [i \in 1 .. Len(text) + 1 |-> Answer(text, p, again, i, j, m)]
<1>1. PICK f : f = Rows(text, p, again, f)
  BY RowsExist
<1>2. m = Rows(text, p, again, m)
  <2>1. f = [j \in 1 .. Len(p) + 3 |->
              [i \in 1 .. Len(text) + 1 |-> Answer(text, p, again, i, j, f)]]
    BY <1>1 DEF Rows
  <2> QED
    BY <2>1 DEF Rows
<1>3. DoMatch(text, p, again) = m[1][1]
  BY DEF DoMatch
<1> HIDE DEF m
<1> QED
  BY <1>2, <1>3

\* What is in T for 0, and with each number for the next, is in T.
LEMMA Upwards ==
  ASSUME NEW b \in Nat, NEW T, 0 \in T,
         \A k \in 0 .. b - 1 : k \in T => k + 1 \in T
  PROVE  0 .. b \subseteq T
<1> DEFINE U == {x \in 0 .. b : x \notin T}
<1>1. SUFFICES ASSUME NEW k \in 0 .. b, k \notin T PROVE FALSE
  OBVIOUS
<1>2. U \subseteq Nat /\ k \in U
  BY <1>1
<1>3. PICK x \in U : \A y \in U : x <= y
  <2> HIDE DEF U
  <2> QED
    BY <1>2, Least
<1>4. x \in 1 .. b /\ x \notin T
  OBVIOUS
<1>5. x - 1 \notin U /\ x - 1 \in 0 .. b - 1
  <2> HIDE DEF U
  <2> QED
    BY <1>3, <1>4
<1> QED
  BY <1>4, <1>5

-----------------------------------------------------------------------------
(* Cutting a text into pieces.                                             *)

\* The text from i on has the form of the pattern from item k on.
Fits(text, q, k, i) ==
    \E cut \in [k - 1 .. Len(q) -> 0 .. Len(text)] :
        /\ cut[k - 1] = i - 1 /\ cut[Len(q)] = Len(text)
        /\ \A x \in k .. Len(q) :
              IF q[x].star THEN cut[x - 1] <= cut[x]
              ELSE /\ cut[x] = cut[x - 1] + 1
                   /\ text[cut[x]] \in q[x].chars

IsStar(it) == it.star

\* One piece of a text.
Piece(text, q, x, from, to) ==
    /\ IsStar(q[x]) => from <= to
    /\ ~IsStar(q[x]) => to = from + 1 /\ text[to] \in q[x].chars

\* Fits, by pieces.
LEMMA FitsIsPieces ==
  ASSUME NEW text, NEW q, NEW k, NEW i
  PROVE  Fits(text, q, k, i) <=>
            \E cut \in [k - 1 .. Len(q) -> 0 .. Len(text)] :
                /\ cut[k - 1] = i - 1 /\ cut[Len(q)] = Len(text)
                /\ \A x \in k .. Len(q) : Piece(text, q, x, cut[x - 1], cut[x])
BY Zenon DEF Fits, Piece, IsStar

\* The text from i on can be cut into what the items behind k stand for.
Behind(text, q, k, i) ==
            \E cut \in [k .. Len(q) -> 0 .. Len(text)] :
                /\ cut[k] = i - 1 /\ cut[Len(q)] = Len(text)
                /\ \A x \in k + 1 .. Len(q) : Piece(text, q, x, cut[x - 1], cut[x])

\* Fits for the item behind k, without arithmetic in its bounds.
LEMMA FitsBehind ==
  ASSUME NEW text, NEW q, NEW k \in Int, NEW i
  PROVE  Fits(text, q, k + 1, i) <=> Behind(text, q, k, i)
<1>1. (k + 1) - 1 = k
  OBVIOUS
<1>2. ASSUME NEW h, (k + 1) - 1 = h
      PROVE  Fits(text, q, k + 1, i) <=>
            \E cut \in [h .. Len(q) -> 0 .. Len(text)] :
                /\ cut[h] = i - 1 /\ cut[Len(q)] = Len(text)
                /\ \A x \in k + 1 .. Len(q) : Piece(text, q, x, cut[x - 1], cut[x])
  BY <1>2, FitsIsPieces, Zenon
<1> QED
  BY <1>1, <1>2, Zenon DEF Behind

\* A text has the form of a pattern if it fits from its first item on.
LEMMA FormFits ==
  ASSUME NEW text, NEW q, DOMAIN q = 1 .. Len(q)
  PROVE  HasForm(text, q) <=> Fits(text, q, 1, 1)
<1>1. 1 - 1 = 0
  OBVIOUS
<1>2. Fits(text, q, 1, 1) <=>
        \E cut \in [0 .. Len(q) -> 0 .. Len(text)] :
                /\ cut[0] = 0 /\ cut[Len(q)] = Len(text)
                /\ \A x \in DOMAIN q :
                      IF q[x].star THEN cut[x - 1] <= cut[x]
                      ELSE /\ cut[x] = cut[x - 1] + 1
                           /\ text[cut[x]] \in q[x].chars
  BY <1>1, Zenon DEF Fits
<1> QED
  BY <1>2, Zenon DEF HasForm

\* Behind its last item only the end of the text fits a pattern.
LEMMA FitsEnd ==
  ASSUME NEW text, Len(text) \in Nat, NEW q, Len(q) \in Nat, NEW i \in 1 .. Len(text) + 1
  PROVE  Fits(text, q, Len(q) + 1, i) <=> i = Len(text) + 1
<1> DEFINE n == Len(text)
           K == Len(q)
<1>1. K + 1 .. K = {}
  OBVIOUS
<1> HIDE DEF n, K
<1>2. K \in Int
  BY DEF K
<1>3. Fits(text, q, K + 1, i) <=>
            \E cut \in [K .. K -> 0 .. n] :
                /\ cut[K] = i - 1 /\ cut[K] = n
                /\ \A x \in K + 1 .. K : Piece(text, q, x, cut[x - 1], cut[x])
  <2>1. Fits(text, q, K + 1, i) <=> Behind(text, q, K, i)
    BY <1>2, FitsBehind
  <2> QED
    BY <2>1, Zenon DEF K, n, Behind
<1>4. ASSUME Fits(text, q, K + 1, i)
      PROVE  i = n + 1
  <2>1. PICK cut \in [K .. K -> 0 .. n] : cut[K] = i - 1 /\ cut[K] = n
    BY <1>4, <1>3
  <2> QED
    BY <2>1 DEF n
<1>5. ASSUME i = n + 1
      PROVE  Fits(text, q, K + 1, i)
  <2> DEFINE cut == [x \in K .. K |-> n]
  <2>1. cut \in [K .. K -> 0 .. n] /\ cut[K] = i - 1 /\ cut[K] = n
    BY <1>5 DEF n, K
  <2> HIDE DEF cut
  <2> QED
    BY <1>1, <1>3, <2>1
<1> QED
  BY <1>4, <1>5 DEF n, K

\* Where the pattern from item k on begins with a piece of the text.
LEMMA FitsPiece ==
  ASSUME NEW text, Len(text) \in Nat, NEW q, Len(q) \in Nat,
         NEW k \in 1 .. Len(q), NEW i \in 1 .. Len(text) + 1
  PROVE  Fits(text, q, k, i) <=>
            \E l \in 1 .. Len(text) + 1 : /\ Piece(text, q, k, i - 1, l - 1)
                                          /\ Fits(text, q, k + 1, l)
<1> DEFINE n == Len(text)
           K == Len(q)
<1>1. ASSUME NEW l
      PROVE  Fits(text, q, k + 1, l) <=>
            \E cut \in [k .. K -> 0 .. n] :
                /\ cut[k] = l - 1 /\ cut[K] = n
                /\ \A x \in k + 1 .. K : Piece(text, q, x, cut[x - 1], cut[x])
  <2>1. Fits(text, q, k + 1, l) <=> Behind(text, q, k, l)
    BY FitsBehind
  <2> QED
    BY <2>1, Zenon DEF Behind
<1>2. ASSUME Fits(text, q, k, i)
      PROVE  \E l \in 1 .. n + 1 : /\ Piece(text, q, k, i - 1, l - 1)
                                   /\ Fits(text, q, k + 1, l)
  <2>1. PICK cut \in [k - 1 .. K -> 0 .. n] :
                /\ cut[k - 1] = i - 1 /\ cut[K] = n
                /\ \A x \in k .. K : Piece(text, q, x, cut[x - 1], cut[x])
    BY <1>2, FitsIsPieces
  <2> DEFINE l == cut[k] + 1
             rest == [x \in k .. K |-> cut[x]]
  <2>2. l \in 1 .. n + 1 /\ l - 1 = cut[k]
    OBVIOUS
  <2>3. Piece(text, q, k, i - 1, l - 1)
    BY <2>1, <2>2
  <2>4. /\ rest \in [k .. K -> 0 .. n]
        /\ rest[k] = l - 1 /\ rest[K] = n
        /\ \A x \in k + 1 .. K : rest[x] = cut[x] /\ rest[x - 1] = cut[x - 1]
    BY <2>1
  <2> HIDE DEF rest, l
  <2>5. \A x \in k + 1 .. K : Piece(text, q, x, rest[x - 1], rest[x])
    BY <2>1, <2>4
  <2>6. Fits(text, q, k + 1, l)
    BY <1>1, <2>4, <2>5
  <2> QED
    BY <2>2, <2>3, <2>6
<1>3. ASSUME NEW l \in 1 .. n + 1, Piece(text, q, k, i - 1, l - 1),
             Fits(text, q, k + 1, l)
      PROVE  Fits(text, q, k, i)
  <2>1. PICK rest \in [k .. K -> 0 .. n] :
                /\ rest[k] = l - 1 /\ rest[K] = n
                /\ \A x \in k + 1 .. K : Piece(text, q, x, rest[x - 1], rest[x])
    BY <1>1, <1>3
  <2> DEFINE cut == [x \in k - 1 .. K |-> IF x = k - 1 THEN i - 1 ELSE rest[x]]
  <2>2. /\ cut \in [k - 1 .. K -> 0 .. n]
        /\ cut[k - 1] = i - 1 /\ cut[K] = n /\ cut[k] = l - 1
        /\ \A x \in k + 1 .. K : rest[x] = cut[x] /\ rest[x - 1] = cut[x - 1]
    <3>1. \A x \in k - 1 .. K : x = k - 1 \/ x \in k .. K
      OBVIOUS
    <3>2. /\ k - 1 \in k - 1 .. K /\ K \in k - 1 .. K /\ k \in k - 1 .. K
          /\ K # k - 1 /\ k # k - 1 /\ i - 1 \in 0 .. n
      OBVIOUS
    <3>3. cut \in [k - 1 .. K -> 0 .. n]
      BY <2>1, <3>1, <3>2
    <3>4. cut[k - 1] = i - 1 /\ cut[K] = n /\ cut[k] = l - 1
      BY <2>1, <3>2
    <3>5. ASSUME NEW x \in k + 1 .. K
          PROVE  rest[x] = cut[x] /\ rest[x - 1] = cut[x - 1]
      <4>1. x \in k - 1 .. K /\ x # k - 1 /\ x - 1 \in k - 1 .. K /\ x - 1 # k - 1
        OBVIOUS
      <4> QED
        BY <4>1
    <3> QED
      BY <3>3, <3>4, <3>5
  <2> HIDE DEF cut
  <2>3. \A x \in k .. K : Piece(text, q, x, cut[x - 1], cut[x])
    <3>1. ASSUME NEW x \in k .. K
          PROVE  Piece(text, q, x, cut[x - 1], cut[x])
      <4>1. CASE x = k
        BY <1>3, <2>2, <4>1
      <4>2. CASE x # k
        <5>1. x \in k + 1 .. K
          BY <4>2
        <5> QED
          BY <2>1, <2>2, <5>1
      <4> QED
        BY <4>1, <4>2
    <3> QED
      BY <3>1
  <2> QED
    BY <2>2, <2>3, FitsIsPieces
<1> QED
  BY <1>2, <1>3

\* What fits from an item on: a star, and any other item.
LEMMA FitsItem ==
  ASSUME NEW text, Len(text) \in Nat, NEW q, Len(q) \in Nat,
         NEW k \in 1 .. Len(q), NEW i \in 1 .. Len(text) + 1
  PROVE  /\ IsStar(q[k]) => (Fits(text, q, k, i) <=>
                              \E l \in i .. Len(text) + 1 : Fits(text, q, k + 1, l))
         /\ ~IsStar(q[k]) => (Fits(text, q, k, i) <=>
                              /\ i <= Len(text) /\ text[i] \in q[k].chars
                              /\ Fits(text, q, k + 1, i + 1))
<1>1. \A l \in 1 .. Len(text) + 1 : IsStar(q[k]) =>
         (Piece(text, q, k, i - 1, l - 1) <=> l \in i .. Len(text) + 1)
  BY DEF Piece
<1>2. \A l \in 1 .. Len(text) + 1 : ~IsStar(q[k]) =>
         (Piece(text, q, k, i - 1, l - 1) <=> l = i + 1 /\ text[i] \in q[k].chars)
  <2> TAKE l \in 1 .. Len(text) + 1
  <2> HAVE ~IsStar(q[k])
  <2>1. l = i + 1 => l - 1 = i /\ l - 1 = (i - 1) + 1
    OBVIOUS
  <2>2. l - 1 = (i - 1) + 1 => l = i + 1
    OBVIOUS
  <2> QED
    BY <2>1, <2>2 DEF Piece
<1>3. i + 1 \in 1 .. Len(text) + 1 <=> i <= Len(text)
  OBVIOUS
<1>4. ASSUME IsStar(q[k])
      PROVE  Fits(text, q, k, i) <=>
                              \E l \in i .. Len(text) + 1 : Fits(text, q, k + 1, l)
  <2>1. i .. Len(text) + 1 \subseteq 1 .. Len(text) + 1
    OBVIOUS
  <2> QED
    BY <1>1, <1>4, <2>1, FitsPiece
<1>5. ASSUME ~IsStar(q[k])
      PROVE  Fits(text, q, k, i) <=>
                              /\ i <= Len(text) /\ text[i] \in q[k].chars
                              /\ Fits(text, q, k + 1, i + 1)
  <2>1. ASSUME Fits(text, q, k, i)
        PROVE  /\ i <= Len(text) /\ text[i] \in q[k].chars
               /\ Fits(text, q, k + 1, i + 1)
    <3>1. PICK l \in 1 .. Len(text) + 1 : /\ Piece(text, q, k, i - 1, l - 1)
                                          /\ Fits(text, q, k + 1, l)
      BY <2>1, FitsPiece
    <3>2. l = i + 1 /\ text[i] \in q[k].chars
      BY <1>2, <1>5, <3>1
    <3> QED
      BY <1>3, <3>1, <3>2
  <2>2. ASSUME i <= Len(text), text[i] \in q[k].chars, Fits(text, q, k + 1, i + 1)
        PROVE  Fits(text, q, k, i)
    <3>1. i + 1 \in 1 .. Len(text) + 1
      BY <1>3, <2>2
    <3>2. Piece(text, q, k, i - 1, (i + 1) - 1)
      BY <1>2, <1>5, <2>2, <3>1
    <3> QED
      BY <2>2, <3>1, <3>2, FitsPiece
  <2> QED
    BY <2>1, <2>2
<1> QED
  BY <1>4, <1>5

-----------------------------------------------------------------------------
(* DoMatch, from the end of the pattern back.                              *)

\* DoMatch reads an item at p[j], and goes on at p[next].
ReadsItem(text, p, it, j, next) ==
    /\ IsStar(it) => At(p, j) = "*" /\ next = j + 1
    /\ ~IsStar(it) =>
          /\ At(p, j) \notin {NUL, "*"}
          /\ \A m : \A i \in 1 .. Len(text) + 1 :
                Answer(text, p, {"FALSE"}, i, j, m) =
                    IF i > Len(text) THEN "ABORT"
                    ELSE IF text[i] \in it.chars THEN m[next][i + 1] ELSE "FALSE"

\* The items of q are written in p, item k at p[pos[k]].
Reads(text, p, q, pos) ==
    /\ pos \in [1 .. Len(q) + 1 -> Int]
    /\ pos[1] = 1 /\ pos[Len(q) + 1] = Len(p) + 1
    /\ \A k \in 1 .. Len(q) : ReadsItem(text, p, q[k], pos[k], pos[k + 1])

\* What DoMatch may return for a text from i on of which Fits says yes or no.
Good(text, q, k, row) ==
    \A i \in 1 .. Len(text) + 1 :
        /\ row[i] \in Verdicts
        /\ row[i] = "TRUE" <=> Fits(text, q, k, i)
        /\ row[i] = "ABORT" => \A l \in i .. Len(text) + 1 : ~Fits(text, q, k, l)

\* DoMatch is right at the end of a pattern.
LEMMA EndIsGood ==
  ASSUME NEW text, Len(text) \in Nat, NEW p, NEW q, Len(q) \in Nat, NEW j, NEW m,
         NEW row, At(p, j) = NUL,
         \A i \in 1 .. Len(text) + 1 : row[i] = Answer(text, p, {"FALSE"}, i, j, m)
  PROVE  Good(text, q, Len(q) + 1, row)
<1>1. \A i \in 1 .. Len(text) + 1 : row[i] = IF i > Len(text) THEN "TRUE" ELSE "FALSE"
  BY AnswerAt
<1>2. \A i \in 1 .. Len(text) + 1 : Fits(text, q, Len(q) + 1, i) <=> i = Len(text) + 1
  BY FitsEnd
<1>3. \A i \in 1 .. Len(text) + 1 : i > Len(text) <=> i = Len(text) + 1
  OBVIOUS
<1> QED
  BY <1>1, <1>2, <1>3 DEF Good, Verdicts

\* DoMatch is right at an item for one character, if it is behind it.
LEMMA CharIsGood ==
  ASSUME NEW text, Len(text) \in Nat, NEW p, NEW q, Len(q) \in Nat,
         NEW k \in 1 .. Len(q), NEW j, NEW next, NEW m, NEW row,
         ~IsStar(q[k]), ReadsItem(text, p, q[k], j, next),
         \A i \in 1 .. Len(text) + 1 : row[i] = Answer(text, p, {"FALSE"}, i, j, m),
         Good(text, q, k + 1, m[next])
  PROVE  Good(text, q, k, row)
<1> DEFINE n == Len(text)
           R == m[next]
           F(i) == Fits(text, q, k, i)
           G(i) == Fits(text, q, k + 1, i)
           C(i) == text[i] \in q[k].chars
<1>1. \A i \in 1 .. n + 1 : row[i] = IF i > n THEN "ABORT"
                                     ELSE IF C(i) THEN R[i + 1] ELSE "FALSE"
  BY DEF ReadsItem
<1>2. \A i \in 1 .. n + 1 : F(i) <=> i <= n /\ C(i) /\ G(i + 1)
  BY FitsItem
<1>3. \A i \in 1 .. n + 1 : /\ R[i] \in Verdicts
                            /\ R[i] = "TRUE" <=> G(i)
                            /\ R[i] = "ABORT" => \A l \in i .. n + 1 : ~G(l)
  BY DEF Good
<1> HIDE DEF n, R, F, G, C
<1>4. n \in Nat
  BY DEF n
<1>5. ASSUME NEW i \in 1 .. n + 1
      PROVE  /\ row[i] \in Verdicts
             /\ row[i] = "TRUE" <=> F(i)
             /\ row[i] = "ABORT" => \A l \in i .. n + 1 : ~F(l)
  <2>1. CASE i > n
    BY <1>1, <1>2, <1>4, <2>1 DEF Verdicts
  <2>2. CASE i <= n
    <3>1. i + 1 \in 1 .. n + 1 /\ ~(i > n)
      BY <1>4, <2>2
    <3>2. CASE ~C(i)
      BY <1>1, <1>2, <3>1, <3>2 DEF Verdicts
    <3>3. CASE C(i)
      <4>1. row[i] = R[i + 1]
        BY <1>1, <3>1, <3>3
      <4>2. ASSUME row[i] = "ABORT", NEW l \in i .. n + 1
            PROVE  ~F(l)
        <5>1. \A x \in i + 1 .. n + 1 : ~G(x)
          BY <1>3, <3>1, <4>1, <4>2
        <5>2. l \in 1 .. n + 1 /\ (l <= n => l + 1 \in i + 1 .. n + 1)
          BY <1>4
        <5> QED
          BY <1>2, <5>1, <5>2
      <4> QED
        BY <1>2, <1>3, <2>2, <3>1, <3>3, <4>1, <4>2
    <3> QED
      BY <3>2, <3>3
  <2> QED
    BY <1>4, <2>1, <2>2
<1> QED
  BY <1>5 DEF Good, n, F

\* What fits behind a star fits before it, and the other way round.
LEMMA StarIsGood ==
  ASSUME NEW text, Len(text) \in Nat, NEW p, NEW q, Len(q) \in Nat,
         NEW k \in 1 .. Len(q), NEW j \in Int, NEW m, NEW row,
         IsStar(q[k]), At(p, j) = "*",
         IF k = Len(q) THEN At(p, j + 1) = NUL
         ELSE At(p, j + 1) # NUL /\ (At(p, j + 1) = "*" <=> IsStar(q[k + 1])),
         \A i \in 1 .. Len(text) + 1 : row[i] = Answer(text, p, {"FALSE"}, i, j, m),
         Good(text, q, k + 1, m[j + 1])
  PROVE  Good(text, q, k, row)
<1> DEFINE n == Len(text)
           R == m[j + 1]
           F(i) == Fits(text, q, k, i)
           G(i) == Fits(text, q, k + 1, i)
<1>1. \A i \in 1 .. n + 1 :
         row[i] = IF At(p, j + 1) = "*" THEN R[i]
                  ELSE IF At(p, j + 1) = NUL THEN "TRUE"
                  ELSE StarLoop(R, n, {"FALSE"})[i]
  BY AnswerAt
<1>2. \A i \in 1 .. n + 1 : F(i) <=> \E l \in i .. n + 1 : G(l)
  BY FitsItem
<1>3. \A i \in 1 .. n + 1 : /\ R[i] \in Verdicts
                            /\ R[i] = "TRUE" <=> G(i)
                            /\ R[i] = "ABORT" => \A l \in i .. n + 1 : ~G(l)
  BY DEF Good
<1>4. k = Len(q) => G(n + 1)
  BY FitsEnd
<1>5. k # Len(q) => k + 1 \in 1 .. Len(q)
  OBVIOUS
<1>6. k # Len(q) /\ IsStar(q[k + 1]) => \A i \in 1 .. n + 1 : \A l \in i .. n + 1 : G(l) => G(i)
  <2> SUFFICES ASSUME k # Len(q), IsStar(q[k + 1]), NEW i \in 1 .. n + 1,
                      NEW l \in i .. n + 1, G(l)
               PROVE  G(i)
    OBVIOUS
  <2>1. \A x \in 1 .. n + 1 : G(x) <=> \E y \in x .. n + 1 : Fits(text, q, (k + 1) + 1, y)
    BY <1>5, FitsItem
  <2>2. l \in 1 .. n + 1 /\ \A y \in l .. n + 1 : y \in i .. n + 1
    OBVIOUS
  <2> HIDE DEF G
  <2> QED
    BY <2>1, <2>2
<1>7. k # Len(q) /\ ~IsStar(q[k + 1]) => ~G(n + 1)
  <2> SUFFICES ASSUME k # Len(q), ~IsStar(q[k + 1])
               PROVE  ~G(n + 1)
    OBVIOUS
  <2>1. n + 1 \in 1 .. n + 1 /\ ~(n + 1 <= n)
    OBVIOUS
  <2> QED
    BY <1>5, <2>1, FitsItem
<1>8. \A i \in 1 .. n + 1 :
          \/ \E l \in i .. n : /\ StarLoop(R, n, {"FALSE"})[i] = R[l] /\ R[l] # "FALSE"
                               /\ \A x \in i .. l - 1 : R[x] = "FALSE"
          \/ /\ StarLoop(R, n, {"FALSE"})[i] = "ABORT"
             /\ \A x \in i .. n : R[x] = "FALSE"
  <2>1. \A x \in 1 .. n : R[x] \in Verdicts
    BY <1>3
  <2> HIDE DEF R
  <2> QED
    BY <2>1, LoopFinds
<1> HIDE DEF n, R, F, G
<1>9. n \in Nat
  BY DEF n
<1>10. ASSUME NEW i \in 1 .. n + 1
       PROVE  /\ row[i] \in Verdicts
              /\ row[i] = "TRUE" <=> F(i)
              /\ row[i] = "ABORT" => \A l \in i .. n + 1 : ~F(l)
  <2>1. CASE k = Len(q)
    <3>1. row[i] = "TRUE"
      BY <1>1, <2>1 DEF NUL
    <3>2. n + 1 \in i .. n + 1
      BY <1>9
    <3> QED
      BY <1>2, <1>4, <2>1, <3>1, <3>2 DEF Verdicts
  <2>2. CASE k # Len(q) /\ IsStar(q[k + 1])
    <3>1. row[i] = R[i]
      BY <1>1, <2>2
    <3>2. i \in i .. n + 1
      BY <1>9
    <3>3. F(i) <=> G(i)
      BY <1>2, <1>6, <2>2, <3>2
    <3>4. ASSUME row[i] = "ABORT", NEW l \in i .. n + 1
          PROVE  ~F(l)
      <4>1. \A x \in i .. n + 1 : ~G(x)
        BY <1>3, <3>1, <3>4
      <4>2. l \in 1 .. n + 1 /\ \A x \in l .. n + 1 : x \in i .. n + 1
        BY <1>9
      <4> QED
        BY <1>2, <4>1, <4>2
    <3> QED
      BY <1>3, <3>1, <3>3, <3>4
  <2>3. CASE k # Len(q) /\ ~IsStar(q[k + 1])
    <3>1. row[i] = StarLoop(R, n, {"FALSE"})[i]
      BY <1>1, <2>3
    <3>2. ASSUME \A x \in i .. n + 1 : ~G(x)
          PROVE  \A l \in i .. n + 1 : ~F(l)
      <4> TAKE l \in i .. n + 1
      <4>1. l \in 1 .. n + 1 /\ \A x \in l .. n + 1 : x \in i .. n + 1
        BY <1>9
      <4> QED
        BY <1>2, <3>2, <4>1
    <3>3. i \in i .. n + 1
      BY <1>9
    <3>4. ASSUME row[i] = "ABORT", \A x \in i .. n : R[x] = "FALSE"
          PROVE  \A x \in i .. n + 1 : ~G(x)
      <4>1. \A x \in i .. n + 1 : x = n + 1 \/ (x \in i .. n /\ x \in 1 .. n + 1)
        BY <1>9
      <4> QED
        BY <1>3, <1>7, <2>3, <3>4, <4>1
    <3>5. ASSUME NEW l \in i .. n, row[i] = R[l], R[l] # "FALSE",
                 \A x \in i .. l - 1 : R[x] = "FALSE"
          PROVE  \/ row[i] = "TRUE" /\ F(i)
                 \/ row[i] = "ABORT" /\ \A x \in i .. n + 1 : ~G(x)
      <4>1. l \in 1 .. n + 1 /\ l \in i .. n + 1
        BY <1>9
      <4>2. CASE R[l] = "TRUE"
        <5>1. G(l)
          BY <1>3, <4>1, <4>2
        <5> QED
          BY <1>2, <3>5, <4>1, <4>2, <5>1
      <4>3. CASE R[l] = "ABORT"
        <5>1. \A x \in l .. n + 1 : ~G(x)
          BY <1>3, <4>1, <4>3
        <5>2. \A x \in i .. n + 1 : x \in l .. n + 1 \/ (x \in i .. l - 1 /\ x \in 1 .. n + 1)
          BY <1>9
        <5>3. \A x \in i .. n + 1 : ~G(x)
          BY <1>3, <3>5, <5>1, <5>2
        <5> QED
          BY <3>5, <4>3, <5>3
      <4> QED
        BY <1>3, <3>5, <4>1, <4>2, <4>3 DEF Verdicts
    <3>6. \/ row[i] = "TRUE" /\ F(i)
          \/ row[i] = "ABORT" /\ \A x \in i .. n + 1 : ~G(x)
      <4>1. CASE \E l \in i .. n : /\ StarLoop(R, n, {"FALSE"})[i] = R[l] /\ R[l] # "FALSE"
                                   /\ \A x \in i .. l - 1 : R[x] = "FALSE"
        BY <3>1, <3>5, <4>1
      <4>2. CASE /\ StarLoop(R, n, {"FALSE"})[i] = "ABORT"
                 /\ \A x \in i .. n : R[x] = "FALSE"
        BY <3>1, <3>4, <4>2
      <4> QED
        BY <1>8, <4>1, <4>2
    <3> QED
      BY <3>2, <3>3, <3>6 DEF Verdicts
  <2> QED
    BY <2>1, <2>2, <2>3
<1> QED
  BY <1>10 DEF Good, n, F

\* Wld_match matches exactly the texts that have the form of the pattern,
\* although it tries no further star once one has been passed in vain (ABORT).
LEMMA MatchIsForm ==
  ASSUME NEW text, Len(text) \in Nat, NEW p \in Seq(Signs), NEW q, Len(q) \in Nat,
         DOMAIN q = 1 .. Len(q), NEW pos, Reads(text, p, q, pos)
  PROVE  Wld_match(text, p) <=> HasForm(text, q)
<1> DEFINE n == Len(text)
           K == Len(q)
<1>1. PICK m : m = Rows(text, p, {"FALSE"}, m) /\ DoMatch(text, p, {"FALSE"}) = m[1][1]
  <2> DEFINE again == {"FALSE"}
  <2> HIDE DEF again
  <2>1. \E m : m = Rows(text, p, again, m) /\ DoMatch(text, p, again) = m[1][1]
    BY MatchIsRows
  <2> QED
    BY <2>1, Zenon DEF again
<1>2. ASSUME NEW j \in 1 .. Len(p) + 3, NEW i \in 1 .. n + 1
      PROVE  m[j][i] = Answer(text, p, {"FALSE"}, i, j, m)
  <2> DEFINE r == Rows(text, p, {"FALSE"}, m)
  <2>1. r[j][i] = Answer(text, p, {"FALSE"}, i, j, m)
    BY Zenon DEF Rows
  <2> HIDE DEF r
  <2>2. m = r
    BY <1>1 DEF r
  <2> QED
    BY <2>1, <2>2
<1>3. \A k \in 1 .. K : /\ ReadsItem(text, p, q[k], pos[k], pos[k + 1])
                        /\ pos[k] \in Int
  BY DEF Reads
<1>4. \A k \in 1 .. K : /\ At(p, pos[k]) # NUL
                        /\ At(p, pos[k]) = "*" <=> IsStar(q[k])
                        /\ pos[k] \in 1 .. Len(p)
  BY <1>3, PatternEnds DEF ReadsItem, NUL
<1>5. At(p, pos[K + 1]) = NUL /\ pos[K + 1] = Len(p) + 1
  BY DEF Reads, At
<1>6. \A k \in 1 .. K : k # K => k + 1 \in 1 .. K
  <2>1. K \in Nat
    OBVIOUS
  <2> HIDE DEF K
  <2> QED
    BY <2>1
<1> DEFINE T == {k \in 1 .. K + 1 : Good(text, q, k, m[pos[k]])}
<1>7. K + 1 \in T
  <2>1. pos[K + 1] \in 1 .. Len(p) + 3 /\ K + 1 \in 1 .. K + 1
    BY <1>5
  <2>2. Good(text, q, K + 1, m[pos[K + 1]])
    BY <1>2, <1>5, <2>1, EndIsGood
  <2> QED
    BY <2>1, <2>2
<1>8. ASSUME NEW k \in 1 .. (K + 1) - 1, k + 1 \in T
      PROVE  k \in T
  <2>1. k \in 1 .. K /\ k \in 1 .. K + 1 /\ Good(text, q, k + 1, m[pos[k + 1]])
    BY <1>8
  <2>2. pos[k] \in 1 .. Len(p) + 3
    BY <1>4, <2>1
  <2>3. \A i \in 1 .. n + 1 : m[pos[k]][i] = Answer(text, p, {"FALSE"}, i, pos[k], m)
    BY <1>2, <2>2
  <2>4. CASE ~IsStar(q[k])
    <3> DEFINE row == m[pos[k]]
               j == pos[k]
               next == pos[k + 1]
    <3>1. /\ \A i \in 1 .. n + 1 : row[i] = Answer(text, p, {"FALSE"}, i, j, m)
          /\ Good(text, q, k + 1, m[next]) /\ ReadsItem(text, p, q[k], j, next)
      BY <1>3, <2>1, <2>3
    <3> HIDE DEF row, j, next
    <3>2. Good(text, q, k, row)
      BY <2>1, <2>4, <3>1, CharIsGood
    <3>3. Good(text, q, k, m[pos[k]])
      BY <3>2 DEF row
    <3> QED
      BY <2>1, <3>3
  <2>5. CASE IsStar(q[k])
    <3>1. At(p, pos[k]) = "*" /\ pos[k + 1] = pos[k] + 1 /\ pos[k] \in Int
      BY <1>3, <2>1, <2>5 DEF ReadsItem
    <3>2. IF k = Len(q) THEN At(p, pos[k] + 1) = NUL
          ELSE At(p, pos[k] + 1) # NUL /\ (At(p, pos[k] + 1) = "*" <=> IsStar(q[k + 1]))
      BY <1>4, <1>5, <1>6, <2>1, <3>1
    <3>3. Good(text, q, k + 1, m[pos[k] + 1])
      BY <2>1, <3>1
    <3>4. Good(text, q, k, m[pos[k]])
      BY <2>1, <2>3, <2>5, <3>1, <3>2, <3>3, StarIsGood
    <3> QED
      BY <2>1, <3>4
  <2> QED
    BY <2>4, <2>5
<1>9. Good(text, q, 1, m[1])
  <2> DEFINE b == K + 1
  <2>1. \A k \in 1 .. b - 1 : k + 1 \in T => k \in T
    BY <1>8
  <2>2. b \in Int /\ b \in T /\ 1 \in 1 .. b
    BY <1>7
  <2> HIDE DEF b, T
  <2>3. 1 \in T
    <3>1. 1 .. b \subseteq T
      BY <2>1, <2>2, Downwards
    <3> QED
      BY <2>2, <3>1
  <2> QED
    BY <2>3 DEF T, Reads
<1>10. m[1][1] = "TRUE" <=> Fits(text, q, 1, 1)
  BY <1>9 DEF Good
<1> QED
  BY <1>1, <1>10, FormFits DEF Wld_match

-----------------------------------------------------------------------------
(* How a pattern is spelled.                                               *)

SpellStep(q, f) == [k \in 0 .. Len(q) |-> IF k = 0 THEN <<>>
                                          ELSE f[k - 1] \o q[k].spelling]

\* The spelling of a pattern is defined.
LEMMA SpellExists ==
  ASSUME NEW q, Len(q) \in Nat
  PROVE  \E f : f = SpellStep(q, f)
<1> DEFINE K == Len(q)
           At1(f, k) == IF k = 0 THEN <<>> ELSE f[k - 1] \o q[k].spelling
           T == {k \in 0 .. K : \E f : \A x \in 0 .. k : f[x] = At1(f, x)}
<1>1. K \in Nat
  OBVIOUS
<1>2. ASSUME NEW f, NEW g, NEW x \in 0 .. K, x # 0 => f[x - 1] = g[x - 1]
      PROVE  At1(f, x) = At1(g, x)
  BY <1>2
<1> HIDE DEF At1, K
<1>3. 0 \in T
  <2> DEFINE g == [x \in 0 .. K |-> At1(0, x)]
  <2>1. g[0] = At1(g, 0)
    BY <1>1 DEF At1
  <2> HIDE DEF g
  <2> QED
    BY <1>1, <2>1
<1>4. ASSUME NEW k \in 0 .. K - 1, k \in T
      PROVE  k + 1 \in T
  <2>1. PICK f : \A x \in 0 .. k : f[x] = At1(f, x)
    BY <1>4
  <2> DEFINE g == [x \in 0 .. K |-> IF x = k + 1 THEN At1(f, k + 1) ELSE f[x]]
  <2>2. ASSUME NEW x \in 0 .. k + 1
        PROVE  g[x] = At1(g, x)
    <3>1. x \in 0 .. K /\ (x # 0 => f[x - 1] = g[x - 1])
      BY <1>1
    <3>2. At1(f, x) = At1(g, x)
      <4> HIDE DEF g
      <4> QED
        BY <1>2, <3>1
    <3>3. CASE x = k + 1
      BY <3>1, <3>2, <3>3
    <3>4. CASE x # k + 1
      BY <1>1, <2>1, <3>1, <3>2, <3>4
    <3> QED
      BY <3>3, <3>4
  <2> HIDE DEF g
  <2> QED
    BY <1>1, <2>2
<1>5. 0 .. K \subseteq T
  <2> HIDE DEF T
  <2> QED
    BY <1>1, <1>3, <1>4, Upwards
<1>6. PICK f : \A x \in 0 .. K : f[x] = At1(f, x)
  <2>1. K \in T
    BY <1>1, <1>5
  <2> QED
    BY <2>1
<1> DEFINE g == [x \in 0 .. K |-> f[x]]
<1>7. ASSUME NEW x \in 0 .. K
      PROVE  g[x] = At1(g, x)
  <2>1. x # 0 => f[x - 1] = g[x - 1]
    BY <1>1
  <2>2. At1(f, x) = At1(g, x)
    <3> HIDE DEF g
    <3> QED
      BY <1>2, <2>1
  <2> QED
    BY <1>6, <2>2
<1>8. g = [x \in 0 .. K |-> At1(g, x)]
  <2>1. g = [x \in 0 .. K |-> g[x]]
    OBVIOUS
  <2> HIDE DEF g
  <2> QED
    BY <1>7, <2>1
<1> HIDE DEF g
<1>9. g = SpellStep(q, g)
  BY <1>8 DEF SpellStep, At1, K
<1> QED
  BY <1>9

\* It is made item by item.
LEMMA SpellIsStep ==
  ASSUME NEW q, Len(q) \in Nat
  PROVE  \E s : /\ s = SpellStep(q, s)
                /\ Spelled(q) = s[Len(q)]
<1> DEFINE s[k \in 0 .. Len(q)] == IF k = 0 THEN <<>>
                                          ELSE s[k - 1] \o q[k].spelling
<1>1. PICK f : f = SpellStep(q, f)
  BY SpellExists
<1>2. s = SpellStep(q, s)
  <2>1. f = [k \in 0 .. Len(q) |-> IF k = 0 THEN <<>> ELSE f[k - 1] \o q[k].spelling]
    BY <1>1 DEF SpellStep
  <2> QED
    BY <2>1 DEF SpellStep
<1>3. Spelled(q) = s[Len(q)]
  BY DEF Spelled
<1> HIDE DEF s
<1> QED
  BY <1>2, <1>3

\* Where the items of a pattern are written.
LEMMA SpelledOut ==
  ASSUME NEW q, Len(q) \in Nat, \A k \in 1 .. Len(q) : q[k].spelling \in Seq(Signs)
  PROVE  /\ Spelled(q) \in Seq(Signs)
         /\ \E pos \in [1 .. Len(q) + 1 -> Int] :
               /\ pos[1] = 1 /\ pos[Len(q) + 1] = Len(Spelled(q)) + 1
               /\ \A k \in 1 .. Len(q) :
                     /\ pos[k + 1] = pos[k] + Len(q[k].spelling)
                     /\ \A x \in 1 .. Len(q[k].spelling) :
                           At(Spelled(q), pos[k] + x - 1) = q[k].spelling[x]
<1> DEFINE K == Len(q)
           sp(k) == q[k].spelling
<1>1. PICK s : s = SpellStep(q, s) /\ Spelled(q) = s[K]
  BY SpellIsStep
<1>2. \A k \in 0 .. K : s[k] = IF k = 0 THEN <<>> ELSE s[k - 1] \o sp(k)
  <2> DEFINE r == SpellStep(q, s)
  <2>1. \A k \in 0 .. K : r[k] = IF k = 0 THEN <<>> ELSE s[k - 1] \o sp(k)
    BY Zenon DEF SpellStep
  <2> HIDE DEF r
  <2>2. s = r
    BY <1>1 DEF r
  <2> QED
    BY <2>1, <2>2
<1>3. \A k \in 1 .. K : sp(k) \in Seq(Signs)
  OBVIOUS
<1>4. K \in Nat
  OBVIOUS
<1> HIDE DEF K, sp
<1>5. \A k \in 0 .. K - 1 : s[k + 1] = s[k] \o sp(k + 1) /\ sp(k + 1) \in Seq(Signs)
  <2> TAKE k \in 0 .. K - 1
  <2>1. k + 1 \in 0 .. K /\ k + 1 # 0 /\ (k + 1) - 1 = k /\ k + 1 \in 1 .. K
    BY <1>4
  <2> QED
    BY <1>2, <1>3, <2>1
<1>6. \A k \in 0 .. K : s[k] \in Seq(Signs)
  <2> DEFINE T == {k \in 0 .. K : s[k] \in Seq(Signs)}
  <2>1. 0 \in T
    <3>1. 0 \in 0 .. K
      BY <1>4
    <3>2. s[0] = <<>>
      BY <1>2, <3>1
    <3>3. <<>> \in Seq(Signs)
      OBVIOUS
    <3> QED
      BY <3>1, <3>2, <3>3
  <2>2. ASSUME NEW k \in 0 .. K - 1, k \in T
        PROVE  k + 1 \in T
    <3> DEFINE a == s[k]
               b == sp(k + 1)
    <3>1. a \in Seq(Signs) /\ b \in Seq(Signs) /\ s[k + 1] = a \o b
      BY <1>5, <2>2
    <3> HIDE DEF a, b
    <3>2. s[k + 1] \in Seq(Signs)
      BY <3>1
    <3> QED
      BY <1>4, <3>2
  <2>3. 0 .. K \subseteq T
    <3> HIDE DEF T
    <3> QED
      BY <1>4, <2>1, <2>2, Upwards
  <2> QED
    BY <2>3
<1>7. \A k \in 0 .. K - 1 :
         /\ Len(s[k + 1]) = Len(s[k]) + Len(sp(k + 1))
         /\ \A x \in 1 .. Len(s[k]) : s[k + 1][x] = s[k][x]
         /\ \A x \in 1 .. Len(sp(k + 1)) : s[k + 1][Len(s[k]) + x] = sp(k + 1)[x]
  <2> TAKE k \in 0 .. K - 1
  <2>1. k \in 0 .. K
    BY <1>4
  <2>2. s[k] \in Seq(Signs) /\ sp(k + 1) \in Seq(Signs) /\ s[k + 1] = s[k] \o sp(k + 1)
    BY <1>5, <1>6, <2>1
  <2> DEFINE a == s[k]
             b == sp(k + 1)
  <2>3. /\ Len(a \o b) = Len(a) + Len(b)
        /\ \A x \in 1 .. Len(a) : (a \o b)[x] = a[x]
        /\ \A x \in 1 .. Len(b) : (a \o b)[Len(a) + x] = b[x]
    <3>1. a \in Seq(Signs) /\ b \in Seq(Signs)
      BY <2>2
    <3> HIDE DEF a, b
    <3>2. Len(a) \in Nat /\ Len(b) \in Nat /\ Len(a \o b) = Len(a) + Len(b)
      BY <3>1
    <3>3. \A x \in 1 .. Len(a) + Len(b) :
             (a \o b)[x] = IF x <= Len(a) THEN a[x] ELSE b[x - Len(a)]
      BY <3>1
    <3>4. \A x \in 1 .. Len(a) : x \in 1 .. Len(a) + Len(b) /\ x <= Len(a)
      BY <3>2
    <3>5. \A x \in 1 .. Len(b) : /\ Len(a) + x \in 1 .. Len(a) + Len(b)
                                 /\ ~(Len(a) + x <= Len(a)) /\ (Len(a) + x) - Len(a) = x
      BY <3>2
    <3> QED
      BY <3>2, <3>3, <3>4, <3>5
  <2> QED
    BY <2>2, <2>3
<1>8. \A k \in 0 .. K : /\ Len(s[k]) \in Nat /\ Len(s[k]) <= Len(s[K])
                        /\ \A x \in 1 .. Len(s[k]) : s[K][x] = s[k][x]
  <2> DEFINE T == {k \in 0 .. K : /\ Len(s[k]) <= Len(s[K])
                                  /\ \A x \in 1 .. Len(s[k]) : s[K][x] = s[k][x]}
  <2>1. \A k \in 0 .. K : Len(s[k]) \in Nat
    BY <1>6
  <2>2. K \in T
    BY <1>4, <2>1
  <2>3. ASSUME NEW k \in 0 .. K - 1, k + 1 \in T
        PROVE  k \in T
    <3>1. /\ k \in 0 .. K /\ k + 1 \in 0 .. K /\ k + 1 \in 1 .. K
      BY <1>4
    <3>2. Len(sp(k + 1)) \in Nat /\ Len(s[k]) \in Nat
      BY <1>3, <2>1, <3>1
    <3>3. /\ Len(s[k + 1]) = Len(s[k]) + Len(sp(k + 1))
          /\ \A x \in 1 .. Len(s[k]) : s[k + 1][x] = s[k][x]
      BY <1>7
    <3>4. /\ Len(s[k + 1]) <= Len(s[K]) /\ Len(s[k + 1]) \in Nat /\ Len(s[K]) \in Nat
          /\ \A x \in 1 .. Len(s[k + 1]) : s[K][x] = s[k + 1][x]
      BY <1>4, <2>1, <2>3, <3>1
    <3> DEFINE a == Len(s[k])
               b == Len(s[k + 1])
               c == Len(s[K])
               d == Len(sp(k + 1))
    <3>5. a <= c /\ \A x \in 1 .. a : x \in 1 .. b
      <4>1. a \in Nat /\ b \in Nat /\ c \in Nat /\ d \in Nat /\ b = a + d /\ b <= c
        BY <3>2, <3>3, <3>4
      <4> HIDE DEF a, b, c, d
      <4> QED
        BY <4>1
    <3> QED
      BY <3>1, <3>3, <3>4, <3>5
  <2>4. 0 .. K \subseteq T
    <3> HIDE DEF T
    <3>1. 0 \in Int /\ K \in Int
      BY <1>4
    <3> QED
      BY <2>2, <2>3, <3>1, Downwards
  <2> QED
    BY <2>1, <2>4
<1> DEFINE pos == [k \in 1 .. K + 1 |-> Len(s[k - 1]) + 1]
<1>9. pos \in [1 .. K + 1 -> Int]
  <2>1. ASSUME NEW k \in 1 .. K + 1
        PROVE  Len(s[k - 1]) + 1 \in Int
    <3>1. k - 1 \in 0 .. K
      BY <1>4
    <3> QED
      BY <1>8, <3>1
  <2> QED
    BY <2>1
<1>10. pos[1] = 1 /\ pos[K + 1] = Len(s[K]) + 1
  <2>1. 1 \in 1 .. K + 1 /\ K + 1 \in 1 .. K + 1 /\ (K + 1) - 1 = K /\ 1 - 1 = 0
    BY <1>4
  <2>2. s[0] = <<>> /\ Len(<<>>) = 0
    BY <1>2, <1>4
  <2> QED
    BY <2>1, <2>2
<1>11. ASSUME NEW k \in 1 .. K
       PROVE  /\ pos[k + 1] = pos[k] + Len(sp(k))
              /\ \A x \in 1 .. Len(sp(k)) : At(s[K], pos[k] + x - 1) = sp(k)[x]
  <2>1. /\ k - 1 \in 0 .. K - 1 /\ k - 1 \in 0 .. K /\ k \in 0 .. K /\ (k - 1) + 1 = k
        /\ k \in 1 .. K + 1 /\ k + 1 \in 1 .. K + 1 /\ (k + 1) - 1 = k
    BY <1>4
  <2>2. /\ Len(s[k]) = Len(s[k - 1]) + Len(sp(k))
        /\ \A x \in 1 .. Len(sp(k)) : s[k][Len(s[k - 1]) + x] = sp(k)[x]
    BY <1>7, <2>1
  <2>3. pos[k] = Len(s[k - 1]) + 1 /\ pos[k + 1] = Len(s[k]) + 1
    BY <2>1
  <2> HIDE DEF pos
  <2>4. Len(s[k - 1]) \in Nat /\ Len(s[k]) \in Nat /\ Len(sp(k)) \in Nat /\ Len(s[K]) \in Nat
    BY <1>3, <1>4, <1>8, <2>1
  <2>5. ASSUME NEW x \in 1 .. Len(sp(k))
        PROVE  At(s[K], pos[k] + x - 1) = sp(k)[x]
    <3> DEFINE a == Len(s[k - 1])
               b == Len(s[k])
               c == Len(s[K])
               d == Len(sp(k))
    <3>1. /\ a \in Nat /\ b \in Nat /\ c \in Nat /\ d \in Nat /\ b = a + d /\ x \in 1 .. d
          /\ pos[k] = a + 1
      BY <2>2, <2>3, <2>4
    <3>2. b <= c
      BY <1>8, <2>1
    <3>3. pos[k] + x - 1 = a + x /\ a + x \in 1 .. b /\ a + x \in 1 .. c
      <4> HIDE DEF a, b, c, d
      <4> QED
        BY <3>1, <3>2
    <3>4. pos[k] + x - 1 = Len(s[k - 1]) + x /\ Len(s[k - 1]) + x \in 1 .. Len(s[k])
      BY <3>3
    <3>5. Len(s[k - 1]) + x \in 1 .. Len(s[K])
      BY <3>3
    <3>6. s[K][Len(s[k - 1]) + x] = sp(k)[x]
      BY <1>8, <2>1, <2>2, <3>4
    <3>7. DOMAIN s[K] = 1 .. Len(s[K])
      BY <1>4, <1>6
    <3> QED
      BY <3>4, <3>5, <3>6, <3>7 DEF At
  <2> QED
    BY <2>2, <2>3, <2>4, <2>5
<1> HIDE DEF pos
<1>12. Spelled(q) \in Seq(Signs)
  BY <1>1, <1>4, <1>6
<1> QED
  BY <1>1, <1>9, <1>10, <1>11, <1>12 DEF K, sp

-----------------------------------------------------------------------------
(* The items, and how DoMatch reads them.                                  *)

\* The range a-c.
LEMMA SpanAC == Span("a", "c") = {"a", "b", "c"}
<1>1. /\ DOMAIN Chars = 1 .. 10
      /\ Chars[1] = "*" /\ Chars[2] = "-" /\ Chars[3] = "?" /\ Chars[4] = "["
      /\ Chars[5] = "\\" /\ Chars[6] = "]" /\ Chars[7] = "^" /\ Chars[8] = "a"
      /\ Chars[9] = "b" /\ Chars[10] = "c"
  BY DEF Chars
<1>2. \A k \in 1 .. 10 : \/ k = 1 \/ k = 2 \/ k = 3 \/ k = 4 \/ k = 5
                         \/ k = 6 \/ k = 7 \/ k = 8 \/ k = 9 \/ k = 10
  OBVIOUS
<1>3. Code("a") = 8
  <2>1. \A k \in DOMAIN Chars : Chars[k] = "a" <=> k = 8
    BY <1>1, <1>2
  <2> QED
    BY <1>1, <2>1 DEF Code, NUL
<1>4. Code("c") = 10
  <2>1. \A k \in DOMAIN Chars : Chars[k] = "c" <=> k = 10
    BY <1>1, <1>2
  <2> QED
    BY <1>1, <2>1 DEF Code, NUL
<1>5. \A k : k \in 8 .. 10 <=> (k = 8 \/ k = 9 \/ k = 10)
  OBVIOUS
<1> QED
  BY <1>1, <1>3, <1>4, <1>5 DEF Span

\* An item for one character, and a star.
LEMMA ItemFields ==
  ASSUME NEW spelling, NEW chars
  PROVE  /\ Item(spelling, chars).spelling = spelling
         /\ Item(spelling, chars).chars = chars
         /\ ~IsStar(Item(spelling, chars))
<1>1. Item(spelling, chars).star = FALSE
  BY Zenon DEF Item
<1> QED
  BY <1>1, Zenon DEF Item, IsStar

LEMMA StarFields ==
  /\ Star.spelling = <<"*">>
  /\ IsStar(Star)
<1>1. Star.star = TRUE
  BY Zenon DEF Star
<1> QED
  BY <1>1, Zenon DEF Star, IsStar

\* The items.
LEMMA ItemsAre ==
  ASSUME NEW it \in Items
  PROVE  \/ it = Star
         \/ /\ ~IsStar(it) /\ it.spelling = <<"?">> /\ it.chars = Letters
         \/ /\ ~IsStar(it) /\ it.spelling = <<"a">> /\ it.chars = {"a"}
         \/ /\ ~IsStar(it) /\ it.spelling = <<"\\", "-">> /\ it.chars = {"-"}
         \/ /\ ~IsStar(it) /\ it.spelling = <<"[", "^", "a", "]">>
            /\ it.chars = Letters \ {"a"}
         \/ /\ ~IsStar(it) /\ it.spelling = <<"[", "]", "b", "]">>
            /\ it.chars = {"]", "b"}
         \/ /\ ~IsStar(it) /\ it.spelling = <<"[", "a", "-", "c", "]">>
            /\ it.chars = {"a", "b"}
         \/ /\ ~IsStar(it) /\ it.spelling = <<"[", "-", "a", "]">>
            /\ it.chars = {"-", "a"}
<1>1. \/ it = Star
      \/ it = Item(<<"?">>, Letters)
      \/ it = Item(<<"a">>, {"a"})
      \/ it = Item(<<"\\", "-">>, {"-"})
      \/ it = Item(<<"[", "^", "a", "]">>, Letters \ {"a"})
      \/ it = Item(<<"[", "]", "b", "]">>, {"]", "b"})
      \/ it = Item(<<"[", "a", "-", "c", "]">>, {"a", "b"})
      \/ it = Item(<<"[", "-", "a", "]">>, {"-", "a"})
  BY Zenon DEF Items
<1>2. ASSUME NEW s, NEW c, it = Item(s, c)
      PROVE  ~IsStar(it) /\ it.spelling = s /\ it.chars = c
  BY <1>2, ItemFields
<1> QED
  BY <1>1, <1>2, Zenon

\* The classes that the items are written with.
LEMMA ClassCaret ==
  ASSUME NEW p \in Seq(Signs), NEW j \in 1 .. Len(p),
         At(p, j + 1) = "^", At(p, j + 2) = "a", At(p, j + 3) = "]"
  PROVE  Class(p, j).end = j + 3 /\ Class(p, j).chars = {"a"}
<1>1. Opens(p, j) = j + 1 /\ ~Odd(p, j) /\ Loops(p, j) = j + 1
  <2>1. (j + 1) + 1 = j + 2
    OBVIOUS
  <2> QED
    BY <2>1 DEF Opens, Odd, Loops
<1>2. PICK rest : /\ rest = ClassStep(p, j + 1, rest)
                  /\ Class(p, j).end = rest[j + 1].end
                  /\ Class(p, j).chars = rest[j + 1].chars \cup {}
  BY <1>1, ClassReads
<1>3. /\ j + 1 \in j + 1 .. Len(p) + 1 /\ j + 2 \in j + 1 .. Len(p) + 1
      /\ (j + 1) + 1 = j + 2 /\ (j + 2) + 1 = j + 3
  BY PatternEnds DEF NUL
<1>4. /\ rest[j + 1].end = rest[j + 2].end
      /\ rest[j + 1].chars = {"a"} \cup rest[j + 2].chars
  BY <1>2, <1>3, ClassTurns DEF NUL
<1>5. rest[j + 2].end = j + 3 /\ rest[j + 2].chars = {}
  BY <1>2, <1>3, ClassTurns
<1> QED
  BY <1>2, <1>4, <1>5

LEMMA ClassBracket ==
  ASSUME NEW p \in Seq(Signs), NEW j \in 1 .. Len(p), NEW c \in {"a", "b"},
         NEW d \in {"]", "-"}, At(p, j + 1) = d, At(p, j + 2) = c, At(p, j + 3) = "]"
  PROVE  Class(p, j).end = j + 3 /\ Class(p, j).chars = {d, c}
<1>1. Opens(p, j) = j /\ Odd(p, j) /\ Loops(p, j) = j + 1
  BY DEF Opens, Odd, Loops
<1>2. PICK rest : /\ rest = ClassStep(p, j + 1, rest)
                  /\ Class(p, j).end = rest[j + 1].end
                  /\ Class(p, j).chars = rest[j + 1].chars \cup {At(p, j + 1)}
  BY <1>1, ClassReads
<1>3. /\ j + 1 \in j + 1 .. Len(p) + 1 /\ j + 2 \in j + 1 .. Len(p) + 1
      /\ (j + 1) + 1 = j + 2 /\ (j + 2) + 1 = j + 3
  BY PatternEnds DEF NUL
<1>4. /\ rest[j + 1].end = rest[j + 2].end
      /\ rest[j + 1].chars = {c} \cup rest[j + 2].chars
  BY <1>2, <1>3, ClassTurns DEF NUL
<1>5. rest[j + 2].end = j + 3 /\ rest[j + 2].chars = {}
  BY <1>2, <1>3, ClassTurns
<1> QED
  BY <1>2, <1>4, <1>5

LEMMA ClassRange ==
  ASSUME NEW p \in Seq(Signs), NEW j \in 1 .. Len(p), At(p, j + 1) = "a",
         At(p, j + 2) = "-", At(p, j + 3) = "c", At(p, j + 4) = "]"
  PROVE  Class(p, j).end = j + 4 /\ Class(p, j).chars = {"a", "b", "c"}
<1>1. Opens(p, j) = j /\ ~Odd(p, j) /\ Loops(p, j) = j
  BY DEF Opens, Odd, Loops
<1>2. PICK rest : /\ rest = ClassStep(p, j, rest)
                  /\ Class(p, j).end = rest[j].end
                  /\ Class(p, j).chars = rest[j].chars \cup {}
  BY <1>1, ClassReads
<1>3. /\ j \in j .. Len(p) + 1 /\ j + 1 \in j .. Len(p) + 1 /\ j + 3 \in j .. Len(p) + 1
      /\ (j + 1) + 1 = j + 2 /\ (j + 1) + 2 = j + 3 /\ (j + 3) + 1 = j + 4
  BY PatternEnds DEF NUL
<1>4. /\ rest[j].end = rest[j + 1].end
      /\ rest[j].chars = {"a"} \cup rest[j + 1].chars
  <2>1. /\ At(p, j + 1) \notin {NUL, "]"}
        /\ ~(At(p, j + 1) = "-" /\ At(p, j + 2) # "]")
    BY DEF NUL
  <2>2. /\ rest[j].end = rest[j + 1].end
        /\ rest[j].chars = {At(p, j + 1)} \cup rest[j + 1].chars
    BY <1>2, <1>3, <2>1, ClassTurns
  <2> QED
    BY <2>2
<1>5. /\ rest[j + 1].end = rest[j + 3].end
      /\ rest[j + 1].chars = Span("a", "c") \cup rest[j + 3].chars
  BY <1>2, <1>3, ClassTurns DEF NUL
<1>6. rest[j + 3].end = j + 4 /\ rest[j + 3].chars = {}
  BY <1>2, <1>3, ClassTurns
<1> QED
  BY <1>2, <1>4, <1>5, <1>6, SpanAC

\* The default arm of DoMatch: a character that stands for itself.
LEMMA LiteralIsRead ==
  ASSUME NEW text, Len(text) \in Nat, NEW p, NEW it, NEW j \in Int, NEW c,
         c \notin Special, ~IsStar(it), it.chars = {c}, At(p, j) = c
  PROVE  ReadsItem(text, p, it, j, j + 1)
<1>1. ASSUME NEW m, NEW i \in 1 .. Len(text) + 1
      PROVE  Answer(text, p, {"FALSE"}, i, j, m) =
                    IF i > Len(text) THEN "ABORT"
                    ELSE IF text[i] \in {c} THEN m[j + 1][i + 1] ELSE "FALSE"
  <2>1. c \notin {NUL, "*"}
    BY DEF Special
  <2>2. i > Len(text) <=> ~(i <= Len(text))
    OBVIOUS
  <2> QED
    BY <2>1, <2>2, AnswerAt
<1>2. At(p, j) \notin {NUL, "*"}
  BY DEF Special
<1> QED
  BY <1>1, <1>2 DEF ReadsItem

\* DoMatch reads every item as what it stands for.
LEMMA ItemIsRead ==
  ASSUME NEW text, Len(text) \in Nat, \A i \in 1 .. Len(text) : text[i] \in Letters,
         NEW p \in Seq(Signs), NEW it \in Items, NEW j \in Int,
         \A x \in 1 .. Len(it.spelling) : At(p, j + x - 1) = it.spelling[x]
  PROVE  ReadsItem(text, p, it, j, j + Len(it.spelling))
<1> DEFINE n == Len(text)
           sp == it.spelling
           R(next) == \A m : \A i \in 1 .. n + 1 :
                Answer(text, p, {"FALSE"}, i, j, m) =
                    IF i > n THEN "ABORT"
                    ELSE IF text[i] \in it.chars THEN m[next][i + 1] ELSE "FALSE"
<1>1. \A i \in 1 .. n + 1 : i > n <=> ~(i <= n)
  OBVIOUS
<1>2. CASE it = Star
  <2>1. sp = <<"*">> /\ IsStar(it)
    BY <1>2, StarFields
  <2>2. Len(sp) = 1 /\ sp[1] = "*" /\ j + 1 - 1 = j
    BY <2>1
  <2>3. At(p, j) = "*"
    BY <2>2
  <2> QED
    BY <2>1, <2>2, <2>3 DEF ReadsItem
<1>3. CASE ~IsStar(it) /\ sp = <<"?">> /\ it.chars = Letters
  <2>1. Len(sp) = 1 /\ sp[1] = "?" /\ j + 1 - 1 = j
    BY <1>3
  <2>2. At(p, j) = "?"
    BY <2>1
  <2>3. R(j + 1)
    <3> TAKE m
    <3> TAKE i \in 1 .. n + 1
    <3>1. i > n => Answer(text, p, {"FALSE"}, i, j, m) = "ABORT"
      BY <2>2, AnswerAt DEF NUL
    <3>2. i <= n => Answer(text, p, {"FALSE"}, i, j, m) = m[j + 1][i + 1]
                    /\ text[i] \in it.chars
      BY <1>3, <2>2, AnswerAt DEF NUL
    <3> QED
      BY <1>1, <3>1, <3>2
  <2> QED
    BY <1>3, <2>1, <2>2, <2>3 DEF ReadsItem, NUL
<1>4. CASE ~IsStar(it) /\ sp = <<"a">> /\ it.chars = {"a"}
  <2>1. Len(sp) = 1 /\ sp[1] = "a" /\ j + 1 - 1 = j
    BY <1>4
  <2>2. At(p, j) = "a" /\ "a" \notin Special
    BY <2>1 DEF Special, NUL
  <2> QED
    BY <1>4, <2>1, <2>2, LiteralIsRead
<1>5. CASE ~IsStar(it) /\ sp = <<"\\", "-">> /\ it.chars = {"-"}
  <2>1. Len(sp) = 2 /\ sp[1] = "\\" /\ sp[2] = "-" /\ j + 1 - 1 = j /\ j + 2 - 1 = j + 1
    BY <1>5
  <2>2. At(p, j) = "\\" /\ At(p, j + 1) = "-"
    BY <2>1
  <2>3. R(j + 2)
    <3> TAKE m
    <3> TAKE i \in 1 .. n + 1
    <3>1. i > n => Answer(text, p, {"FALSE"}, i, j, m) = "ABORT"
      BY <2>2, AnswerAt DEF NUL
    <3>2. i <= n => Answer(text, p, {"FALSE"}, i, j, m) =
                       IF text[i] = "-" THEN m[j + 2][i + 1] ELSE "FALSE"
      BY <2>2, AnswerAt DEF NUL
    <3> QED
      BY <1>1, <1>5, <3>1, <3>2
  <2> QED
    BY <1>5, <2>1, <2>2, <2>3 DEF ReadsItem, NUL
\* An item that is written as a class.
<1>6. ASSUME ~IsStar(it), NEW end, NEW L, NEW reverse, At(p, j) = "[",
             At(p, j + 1) = "^" <=> reverse = "reverse",
             Class(p, j).end = end, Class(p, j).chars = L,
             \A c \in Letters : c \in it.chars <=> (c \in L <=> reverse # "reverse")
      PROVE  ReadsItem(text, p, it, j, end + 1)
  <2>1. R(end + 1)
    <3> TAKE m
    <3> TAKE i \in 1 .. n + 1
    <3>1. i > n => Answer(text, p, {"FALSE"}, i, j, m) = "ABORT"
      BY <1>6, AnswerAt DEF NUL
    <3>2. i <= n => Answer(text, p, {"FALSE"}, i, j, m) =
                       IF text[i] \in L <=> At(p, j + 1) # "^"
                         THEN m[end + 1][i + 1] ELSE "FALSE"
      BY <1>6, AnswerAt DEF NUL
    <3>3. i <= n => (text[i] \in it.chars <=> (text[i] \in L <=> At(p, j + 1) # "^"))
      BY <1>6
    <3> QED
      BY <1>1, <3>1, <3>2, <3>3
  <2> QED
    BY <1>6, <2>1 DEF ReadsItem, NUL
<1>7. CASE /\ ~IsStar(it) /\ sp = <<"[", "^", "a", "]">>
           /\ it.chars = Letters \ {"a"}
  <2>1. /\ Len(sp) = 4 /\ sp[1] = "[" /\ sp[2] = "^" /\ sp[3] = "a" /\ sp[4] = "]"
        /\ j + 1 - 1 = j /\ j + 2 - 1 = j + 1 /\ j + 3 - 1 = j + 2 /\ j + 4 - 1 = j + 3
        /\ (j + 3) + 1 = j + 4
    BY <1>7
  <2>2. /\ At(p, j) = "[" /\ At(p, j + 1) = "^" /\ At(p, j + 2) = "a" /\ At(p, j + 3) = "]"
        /\ j \in 1 .. Len(p)
    BY <2>1, PatternEnds DEF NUL
  <2>3. Class(p, j).end = j + 3 /\ Class(p, j).chars = {"a"}
    BY <2>2, ClassCaret
  <2>4. \A c \in Letters : c \in it.chars <=> (c \in {"a"} <=> "reverse" # "reverse")
    BY <1>7
  <2>5. ReadsItem(text, p, it, j, (j + 3) + 1)
    BY <1>6, <1>7, <2>2, <2>3, <2>4
  <2> QED
    BY <2>1, <2>5
<1>8. ASSUME ~IsStar(it), NEW c \in {"a", "b"}, NEW d \in {"]", "-"},
             sp = <<"[", d, c, "]">>, it.chars = {d, c}
      PROVE  ReadsItem(text, p, it, j, j + Len(sp))
  <2>1. /\ Len(sp) = 4 /\ sp[1] = "[" /\ sp[2] = d /\ sp[3] = c /\ sp[4] = "]"
        /\ j + 1 - 1 = j /\ j + 2 - 1 = j + 1 /\ j + 3 - 1 = j + 2 /\ j + 4 - 1 = j + 3
        /\ (j + 3) + 1 = j + 4
    BY <1>8
  <2>2. /\ At(p, j) = "[" /\ At(p, j + 1) = d /\ At(p, j + 2) = c /\ At(p, j + 3) = "]"
        /\ j \in 1 .. Len(p)
    BY <2>1, PatternEnds DEF NUL
  <2>3. Class(p, j).end = j + 3 /\ Class(p, j).chars = {d, c}
    BY <2>2, ClassBracket
  <2>4. \A x \in Letters : x \in it.chars <=> (x \in {d, c} <=> "plain" # "reverse")
    BY <1>8
  <2>5. ReadsItem(text, p, it, j, (j + 3) + 1)
    BY <1>6, <1>8, <2>2, <2>3, <2>4
  <2> QED
    BY <2>1, <2>5
<1>9. CASE /\ ~IsStar(it) /\ sp = <<"[", "a", "-", "c", "]">>
           /\ it.chars = {"a", "b"}
  <2>1. /\ Len(sp) = 5 /\ sp[1] = "[" /\ sp[2] = "a" /\ sp[3] = "-" /\ sp[4] = "c"
        /\ sp[5] = "]"
        /\ j + 1 - 1 = j /\ j + 2 - 1 = j + 1 /\ j + 3 - 1 = j + 2 /\ j + 4 - 1 = j + 3
        /\ j + 5 - 1 = j + 4 /\ (j + 4) + 1 = j + 5
    BY <1>9
  <2>2. /\ At(p, j) = "[" /\ At(p, j + 1) = "a" /\ At(p, j + 2) = "-" /\ At(p, j + 3) = "c"
        /\ At(p, j + 4) = "]" /\ j \in 1 .. Len(p)
    BY <2>1, PatternEnds DEF NUL
  <2>3. Class(p, j).end = j + 4 /\ Class(p, j).chars = {"a", "b", "c"}
    BY <2>2, ClassRange
  <2>4. \A x \in Letters : x \in it.chars <=> (x \in {"a", "b", "c"} <=> "plain" # "reverse")
    BY <1>9 DEF Letters
  <2>5. ReadsItem(text, p, it, j, (j + 4) + 1)
    BY <1>6, <1>9, <2>2, <2>3, <2>4
  <2> QED
    BY <2>1, <2>5
<1>10. CASE ~IsStar(it) /\ sp = <<"[", "]", "b", "]">> /\ it.chars = {"]", "b"}
  BY <1>8, <1>10
<1>11. CASE ~IsStar(it) /\ sp = <<"[", "-", "a", "]">> /\ it.chars = {"-", "a"}
  BY <1>8, <1>11
<1> QED
  BY <1>2, <1>3, <1>4, <1>5, <1>7, <1>9, <1>10, <1>11, ItemsAre

-----------------------------------------------------------------------------
(* Whole patterns.                                                         *)

\* How items are spelled; only one has no wildcard in it.
LEMMA ItemSpelling ==
  ASSUME NEW it \in Items
  PROVE  /\ it.spelling \in Seq(Signs)
         /\ Len(it.spelling) \in Nat /\ 1 <= Len(it.spelling)
         /\ \/ it.spelling[1] \in {"?", "*", "[", "\\"}
            \/ /\ it.spelling = <<"a">>
               /\ it.chars = {"a"} /\ ~IsStar(it)
<1> DEFINE sp == it.spelling
<1>1. ASSUME sp = <<"*">>
      PROVE  sp \in Seq(Signs) /\ Len(sp) = 1 /\ sp[1] = "*"
  BY <1>1 DEF Signs
<1>2. CASE it = Star
  BY <1>1, <1>2, StarFields
<1>3. ASSUME sp = <<"?">>
      PROVE  sp \in Seq(Signs) /\ Len(sp) = 1 /\ sp[1] = "?"
  BY <1>3 DEF Signs
<1>4. ASSUME sp = <<"a">>
      PROVE  sp \in Seq(Signs) /\ Len(sp) = 1
  BY <1>4 DEF Signs
<1>5. ASSUME sp = <<"\\", "-">>
      PROVE  sp \in Seq(Signs) /\ Len(sp) = 2 /\ sp[1] = "\\"
  BY <1>5 DEF Signs
<1>6. ASSUME sp = <<"[", "^", "a", "]">>
      PROVE  sp \in Seq(Signs) /\ Len(sp) = 4 /\ sp[1] = "["
  BY <1>6 DEF Signs
<1>7. ASSUME sp = <<"[", "]", "b", "]">>
      PROVE  sp \in Seq(Signs) /\ Len(sp) = 4 /\ sp[1] = "["
  BY <1>7 DEF Signs
<1>8. ASSUME sp = <<"[", "a", "-", "c", "]">>
      PROVE  sp \in Seq(Signs) /\ Len(sp) = 5 /\ sp[1] = "["
  BY <1>8 DEF Signs
<1>9. ASSUME sp = <<"[", "-", "a", "]">>
      PROVE  sp \in Seq(Signs) /\ Len(sp) = 4 /\ sp[1] = "["
  BY <1>9 DEF Signs
<1>10. sp \in Seq(Signs) /\ (Len(sp) = 1 \/ Len(sp) = 2 \/ Len(sp) = 4 \/ Len(sp) = 5)
  BY <1>1, <1>3, <1>4, <1>5, <1>6, <1>7, <1>8, <1>9, ItemsAre, StarFields
<1>11. \/ sp[1] \in {"?", "*", "[", "\\"}
       \/ sp = <<"a">> /\ it.chars = {"a"} /\ ~IsStar(it)
  BY <1>1, <1>2, <1>3, <1>5, <1>6, <1>7, <1>8, <1>9, ItemsAre, StarFields
<1> HIDE DEF sp
<1>12. Len(sp) \in Nat /\ 1 <= Len(sp)
  <2> DEFINE len == Len(sp)
  <2>1. len = 1 \/ len = 2 \/ len = 4 \/ len = 5
    BY <1>10
  <2> HIDE DEF len
  <2>2. len \in Nat /\ 1 <= len
    BY <2>1
  <2> QED
    BY <2>2 DEF len
<1> QED
  BY <1>10, <1>11, <1>12 DEF sp

\* DoMatch reads the spelling of a pattern item by item.
LEMMA PatternIsRead ==
  ASSUME NEW text \in Seq(Letters), NEW q \in Seq(Items)
  PROVE  /\ Spelled(q) \in Seq(Signs)
         /\ \E pos : /\ Reads(text, Spelled(q), q, pos)
                     /\ \A k \in 1 .. Len(q) :
                           /\ pos[k + 1] = pos[k] + Len(q[k].spelling)
                           /\ At(Spelled(q), pos[k]) = q[k].spelling[1]
<1>1. /\ Len(q) \in Nat /\ \A k \in 1 .. Len(q) : q[k] \in Items
      /\ Len(text) \in Nat /\ \A i \in 1 .. Len(text) : text[i] \in Letters
  OBVIOUS
<1>2. \A k \in 1 .. Len(q) : /\ q[k].spelling \in Seq(Signs)
                             /\ Len(q[k].spelling) \in Nat /\ 1 <= Len(q[k].spelling)
  BY <1>1, ItemSpelling
<1>3. Spelled(q) \in Seq(Signs)
  BY <1>1, <1>2, SpelledOut
<1>4. PICK pos \in [1 .. Len(q) + 1 -> Int] :
               /\ pos[1] = 1 /\ pos[Len(q) + 1] = Len(Spelled(q)) + 1
               /\ \A k \in 1 .. Len(q) :
                     /\ pos[k + 1] = pos[k] + Len(q[k].spelling)
                     /\ \A x \in 1 .. Len(q[k].spelling) :
                           At(Spelled(q), pos[k] + x - 1) = q[k].spelling[x]
  BY <1>1, <1>2, SpelledOut
<1>5. \A k \in 1 .. Len(q) : k \in 1 .. Len(q) + 1
  BY <1>1 DEF Signs
<1>6. ASSUME NEW k \in 1 .. Len(q)
      PROVE  ReadsItem(text, Spelled(q), q[k], pos[k], pos[k + 1])
  <2>1. q[k] \in Items /\ pos[k] \in Int
    BY <1>1, <1>4, <1>5
  <2> QED
    BY <1>1, <1>3, <1>4, <2>1, ItemIsRead
<1>7. ASSUME NEW k \in 1 .. Len(q)
      PROVE  At(Spelled(q), pos[k]) = q[k].spelling[1]
  <2>1. pos[k] \in Int /\ Len(q[k].spelling) \in Nat /\ 1 <= Len(q[k].spelling)
    BY <1>2, <1>4, <1>5
  <2>2. pos[k] + 1 - 1 = pos[k] /\ 1 \in 1 .. Len(q[k].spelling)
    BY <2>1
  <2> QED
    BY <1>4, <2>2
<1>8. Reads(text, Spelled(q), q, pos)
  BY <1>4, <1>6 DEF Reads
<1> QED
  BY <1>3, <1>4, <1>7, <1>8

\* A pattern without wildcards.
LEMMA PlainIsForm ==
  ASSUME NEW text \in Seq(Signs), NEW q, Len(q) \in Nat, DOMAIN q = 1 .. Len(q),
         NEW p \in Seq(Signs), Len(p) = Len(q),
         \A k \in 1 .. Len(q) : ~IsStar(q[k]) /\ q[k].chars = {p[k]}
  PROVE  text = p <=> HasForm(text, q)
<1> DEFINE n == Len(text)
           K == Len(q)
<1>1. HasForm(text, q) <=>
         \E cut \in [0 .. K -> 0 .. n] :
            /\ cut[0] = 0 /\ cut[K] = n
            /\ \A k \in 1 .. K : Piece(text, q, k, cut[k - 1], cut[k])
  BY Zenon DEF HasForm, Piece, IsStar
<1>2. n \in Nat /\ K \in Nat
  OBVIOUS
<1>3. ASSUME NEW k \in 1 .. K, NEW from, NEW to
      PROVE  Piece(text, q, k, from, to) <=> to = from + 1 /\ text[to] = p[k]
  BY DEF Piece
<1>4. ASSUME text = p
      PROVE  HasForm(text, q)
  <2> DEFINE cut == [x \in 0 .. K |-> x]
  <2>1. n = K
    BY <1>4
  <2>2. cut \in [0 .. K -> 0 .. n] /\ cut[0] = 0 /\ cut[K] = n
    BY <1>2, <2>1
  <2>3. ASSUME NEW k \in 1 .. K
        PROVE  Piece(text, q, k, cut[k - 1], cut[k])
    <3>1. cut[k] = k /\ cut[k - 1] = k - 1 /\ k = (k - 1) + 1
      BY <1>2
    <3> QED
      BY <1>3, <1>4, <3>1
  <2> HIDE DEF cut
  <2> QED
    BY <1>1, <2>2, <2>3
<1>5. ASSUME HasForm(text, q)
      PROVE  text = p
  <2>1. PICK cut \in [0 .. K -> 0 .. n] :
            /\ cut[0] = 0 /\ cut[K] = n
            /\ \A k \in 1 .. K : Piece(text, q, k, cut[k - 1], cut[k])
    BY <1>1, <1>5
  <2>2. \A k \in 1 .. K : cut[k] = cut[k - 1] + 1 /\ text[cut[k]] = p[k]
    BY <1>3, <2>1
  <2> DEFINE T == {k \in 0 .. K : cut[k] = k}
  <2> HIDE DEF K
  <2>3. 0 \in T
    BY <1>2, <2>1
  <2>4. ASSUME NEW k \in 0 .. K - 1, k \in T
        PROVE  k + 1 \in T
    <3>1. k + 1 \in 1 .. K /\ k + 1 \in 0 .. K /\ (k + 1) - 1 = k
      BY <1>2
    <3> QED
      BY <2>2, <2>4, <3>1
  <2>5. 0 .. K \subseteq T
    <3> HIDE DEF T
    <3> QED
      BY <1>2, <2>3, <2>4, Upwards
  <2>6. \A k \in 0 .. K : cut[k] = k
    BY <2>5
  <2>7. n = Len(p)
    BY <1>2, <2>1, <2>6 DEF K
  <2>8. \A k \in 1 .. Len(text) : text[k] = p[k]
    <3> TAKE k \in 1 .. Len(text)
    <3>1. k \in 1 .. K /\ k \in 0 .. K
      BY <1>2, <2>7 DEF K
    <3>2. text[cut[k]] = p[k] /\ cut[k] = k
      BY <2>2, <2>6, <3>1
    <3> QED
      BY <3>2
  <2> QED
    BY <2>7, <2>8, SeqEqual
<1> QED
  BY <1>4, <1>5

\* printGroups tells of a group exactly if its name has the form of the
\* pattern; it compares names when the pattern has no wildcard.
LEMMA ListedIsForm ==
  ASSUME NEW text \in Seq(Letters), NEW q \in Seq(Items)
  PROVE  Listed(text, Spelled(q)) <=> HasForm(text, q)
<1> DEFINE p == Spelled(q)
           K == Len(q)
<1>1. PICK pos : /\ Reads(text, p, q, pos)
                 /\ \A k \in 1 .. K : /\ pos[k + 1] = pos[k] + Len(q[k].spelling)
                                      /\ At(p, pos[k]) = q[k].spelling[1]
  BY PatternIsRead
<1>2. /\ K \in Nat /\ DOMAIN q = 1 .. K /\ Len(text) \in Nat
      /\ \A k \in 1 .. K : q[k] \in Items
  OBVIOUS
<1>3. p \in Seq(Signs)
  BY PatternIsRead
<1> HIDE DEF p
<1>4. CASE containsWildcards(p)
  <2>1. Listed(text, p) <=> Wld_match(text, p)
    BY <1>4 DEF Listed
  <2>2. Wld_match(text, p) <=> HasForm(text, q)
    BY <1>1, <1>2, <1>3, MatchIsForm
  <2> QED
    BY <2>1, <2>2 DEF p
<1>5. CASE ~containsWildcards(p)
  <2>1. ASSUME NEW k \in 1 .. K
        PROVE  /\ ~IsStar(q[k]) /\ q[k].chars = {"a"}
               /\ pos[k + 1] = pos[k] + 1 /\ At(p, pos[k]) = "a"
    <3>1. At(p, pos[k]) \notin {"?", "*", "[", "\\"}
      <4>1. pos[k] \in DOMAIN p \/ At(p, pos[k]) = NUL
        BY DEF At
      <4> QED
        BY <1>5, <4>1 DEF containsWildcards, NUL, At
    <3>2. q[k].spelling = <<"a">> /\ q[k].chars = {"a"} /\ ~IsStar(q[k])
      BY <1>1, <1>2, <3>1, ItemSpelling
    <3>3. Len(q[k].spelling) = 1 /\ q[k].spelling[1] = "a"
      BY <3>2
    <3> QED
      BY <1>1, <3>2, <3>3
  <2>2. pos[1] = 1 /\ pos[K + 1] = Len(p) + 1 /\ pos \in [1 .. K + 1 -> Int]
    BY <1>1 DEF Reads
  <2> HIDE DEF K
  <2> DEFINE T == {k \in 0 .. K : pos[k + 1] = k + 1}
  <2>3. 0 \in T
    BY <1>2, <2>2
  <2>4. ASSUME NEW k \in 0 .. K - 1, k \in T
        PROVE  k + 1 \in T
    <3>1. k + 1 \in 1 .. K /\ k + 1 \in 0 .. K
      BY <1>2
    <3>2. pos[(k + 1) + 1] = pos[k + 1] + 1
      BY <2>1, <3>1
    <3> QED
      BY <2>4, <3>1, <3>2
  <2>5. 0 .. K \subseteq T
    <3> HIDE DEF T
    <3> QED
      BY <1>2, <2>3, <2>4, Upwards
  <2>6. \A k \in 1 .. K : pos[k] = k
    <3> TAKE k \in 1 .. K
    <3>1. k - 1 \in 0 .. K /\ (k - 1) + 1 = k
      BY <1>2
    <3> QED
      BY <2>5, <3>1
  <2>7. Len(p) = K
    <3>1. pos[K + 1] = K + 1 /\ Len(p) \in Nat
      BY <1>2, <1>3, <2>5
    <3> QED
      BY <1>2, <2>2, <3>1
  <2>8. \A k \in 1 .. K : ~IsStar(q[k]) /\ q[k].chars = {p[k]}
    <3> TAKE k \in 1 .. K
    <3>1. At(p, k) = "a"
      BY <2>1, <2>6
    <3>2. p[k] = "a"
      BY <3>1 DEF At, NUL
    <3> QED
      BY <2>1, <3>2
  <2>9. text \in Seq(Signs)
    <3>1. text \in [1 .. Len(text) -> Letters] /\ Len(text) \in Nat
      BY LenProperties
    <3>2. \A c \in Letters : c \in Signs
      BY DEF Letters, Signs
    <3>3. text \in [1 .. Len(text) -> Signs]
      BY <3>1, <3>2
    <3> QED
      BY <3>1, <3>3
  <2>10. text = p <=> HasForm(text, q)
    BY <1>2, <1>3, <2>7, <2>8, <2>9, PlainIsForm DEF K
  <2> QED
    BY <1>5, <2>10 DEF Listed, p
<1> QED
  BY <1>4, <1>5

\* LIST tells of a group exactly when its name has the form of the pattern.
LEMMA NoneMisjudged == Misjudged = {}
<1>1. ASSUME NEW n, NEW S, NEW s \in UpTo(n, S)
      PROVE  s \in Seq(S)
  <2>1. PICK k \in 0 .. n : s \in [1 .. k -> S]
    BY DEF UpTo
  <2>2. k \in Nat
    BY <2>1
  <2> QED
    BY <2>1, <2>2
<1>2. ASSUME NEW text \in Texts, NEW q \in Patterns
      PROVE  Listed(text, Spelled(q)) = HasForm(text, q)
  <2>1. text \in Seq(Letters) /\ q \in Seq(Items)
    BY <1>1 DEF Texts, Patterns
  <2>2. Listed(text, Spelled(q)) <=> HasForm(text, q)
    BY <2>1, ListedIsForm
  <2>3. Listed(text, Spelled(q)) \in BOOLEAN /\ HasForm(text, q) \in BOOLEAN
    BY Zenon DEF Listed, Wld_match, HasForm
  <2> QED
    BY <2>2, <2>3
<1> QED
  BY <1>2 DEF Misjudged

-----------------------------------------------------------------------------
(* Forbidden names.                                                        *)

\* The items of a pattern of stars and plain characters.
Plain(p) == [k \in 1 .. Len(p) |-> IF p[k] = "*" THEN Star ELSE Item(<<p[k]>>, {p[k]})]

\* What patterns of stars and plain characters match.
LEMMA PlainMatch ==
  ASSUME NEW text, Len(text) \in Nat, NEW p \in Seq(Signs),
         \A k \in 1 .. Len(p) : p[k] = "*" \/ p[k] \notin Special
  PROVE  \E q : /\ Wld_match(text, p) <=> Fits(text, q, 1, 1)
                /\ \A i \in 1 .. Len(text) + 1 :
                      /\ Fits(text, q, Len(p) + 1, i) <=> i = Len(text) + 1
                      /\ \A k \in 1 .. Len(p) :
                            /\ p[k] = "*" => (Fits(text, q, k, i) <=>
                                  \E l \in i .. Len(text) + 1 : Fits(text, q, k + 1, l))
                            /\ p[k] # "*" => (Fits(text, q, k, i) <=>
                                  /\ i <= Len(text) /\ text[i] = p[k]
                                  /\ Fits(text, q, k + 1, i + 1))
<1> DEFINE q == Plain(p)
           K == Len(p)
           S == {q[k] : k \in 1 .. K}
           pos == [k \in 1 .. K + 1 |-> k]
<1>1. K \in Nat /\ DOMAIN p = 1 .. K
  OBVIOUS
<1>2. q \in [1 .. K -> S] /\ DOMAIN q = 1 .. K
  BY DEF Plain
<1>3. Len(q) = K
  <2> HIDE DEF q, S, K
  <2> QED
    BY <1>1, <1>2
<1>4. \A k \in 1 .. K : /\ p[k] = "*" => q[k] = Star
                        /\ p[k] # "*" => q[k] = Item(<<p[k]>>, {p[k]})
  BY DEF Plain
<1> HIDE DEF q, S
<1>5. \A k \in 1 .. K : /\ IsStar(q[k]) <=> p[k] = "*"
                        /\ p[k] # "*" => q[k].chars = {p[k]}
  <2> TAKE k \in 1 .. K
  <2>1. CASE p[k] = "*"
    BY <1>4, <2>1, StarFields
  <2>2. CASE p[k] # "*"
    <3>1. q[k] = Item(<<p[k]>>, {p[k]})
      BY <1>4, <2>2
    <3>2. /\ Item(<<p[k]>>, {p[k]}).chars = {p[k]}
          /\ ~IsStar(Item(<<p[k]>>, {p[k]}))
      BY ItemFields, Zenon
    <3> QED
      BY <2>2, <3>1, <3>2
  <2> QED
    BY <2>1, <2>2
<1>6. \A k \in 1 .. K : At(p, k) = p[k]
  BY DEF At
<1>7. ASSUME NEW k \in 1 .. K
      PROVE  ReadsItem(text, p, q[k], k, k + 1)
  <2>1. CASE p[k] = "*"
    BY <1>5, <1>6, <2>1 DEF ReadsItem
  <2>2. CASE p[k] # "*"
    <3>1. p[k] \notin Special /\ k \in Int
      BY <2>2
    <3> QED
      BY <1>5, <1>6, <2>2, <3>1, LiteralIsRead
  <2> QED
    BY <2>1, <2>2
<1>8. Reads(text, p, q, pos)
  <2>1. /\ pos \in [1 .. K + 1 -> Int] /\ pos[1] = 1 /\ pos[K + 1] = K + 1
        /\ \A k \in 1 .. K : pos[k] = k /\ pos[k + 1] = k + 1
    BY <1>1
  <2> HIDE DEF pos
  <2> QED
    BY <1>3, <1>7, <2>1 DEF Reads
<1>9. Wld_match(text, p) <=> Fits(text, q, 1, 1)
  <2>1. Wld_match(text, p) <=> HasForm(text, q)
    <3> HIDE DEF pos
    <3> QED
      BY <1>1, <1>2, <1>3, <1>8, MatchIsForm
  <2> QED
    BY <1>2, <1>3, <2>1, FormFits
<1>10. \A i \in 1 .. Len(text) + 1 : Fits(text, q, K + 1, i) <=> i = Len(text) + 1
  <2>1. \A i \in 1 .. Len(text) + 1 : Fits(text, q, Len(q) + 1, i) <=> i = Len(text) + 1
    BY <1>1, <1>3, FitsEnd
  <2> QED
    BY <1>3, <2>1
<1>11. ASSUME NEW i \in 1 .. Len(text) + 1, NEW k \in 1 .. K
       PROVE  /\ p[k] = "*" => (Fits(text, q, k, i) <=>
                                  \E l \in i .. Len(text) + 1 : Fits(text, q, k + 1, l))
              /\ p[k] # "*" => (Fits(text, q, k, i) <=>
                                  /\ i <= Len(text) /\ text[i] = p[k]
                                  /\ Fits(text, q, k + 1, i + 1))
  <2>1. Len(q) \in Nat /\ k \in 1 .. Len(q)
    BY <1>1, <1>3
  <2>2. /\ IsStar(q[k]) => (Fits(text, q, k, i) <=>
                              \E l \in i .. Len(text) + 1 : Fits(text, q, k + 1, l))
        /\ ~IsStar(q[k]) => (Fits(text, q, k, i) <=>
                              /\ i <= Len(text) /\ text[i] \in q[k].chars
                              /\ Fits(text, q, k + 1, i + 1))
    BY <2>1, FitsItem
  <2>3. p[k] # "*" => (text[i] \in q[k].chars <=> text[i] = p[k])
    BY <1>5
  <2> QED
    BY <1>5, <2>2, <2>3
<1> QED
  BY <1>9, <1>10, <1>11

\* The shapes of the patterns in forbiddenGroupNames (client.c).
LEMMA MatchAtStart ==
  ASSUME NEW text, Len(text) \in Nat, NEW a \in Signs \ Special, NEW b \in Signs \ Special
  PROVE  Wld_match(text, <<a, b, "*">>) <=>
            Len(text) >= 2 /\ text[1] = a /\ text[2] = b
<1> DEFINE p == <<a, b, "*">>
           n == Len(text)
<1>1. /\ p \in Seq(Signs) /\ Len(p) = 3 /\ p[1] = a /\ p[2] = b /\ p[3] = "*"
      /\ a # "*" /\ b # "*"
  <2>1. "*" \in Signs /\ a # "*" /\ b # "*"
    BY DEF Signs, Special
  <2> QED
    BY <2>1
<1>2. \A k \in 1 .. Len(p) : p[k] = "*" \/ p[k] \notin Special
  <2>1. \A k \in 1 .. 3 : k = 1 \/ k = 2 \/ k = 3
    OBVIOUS
  <2> HIDE DEF p
  <2> QED
    BY <1>1, <2>1
<1> HIDE DEF p
<1>3. PICK q : /\ Wld_match(text, p) <=> Fits(text, q, 1, 1)
               /\ \A i \in 1 .. n + 1 :
                      /\ Fits(text, q, 4, i) <=> i = n + 1
                      /\ Fits(text, q, 3, i) <=> \E l \in i .. n + 1 : Fits(text, q, 4, l)
                      /\ Fits(text, q, 2, i) <=>
                                  i <= n /\ text[i] = b /\ Fits(text, q, 3, i + 1)
                      /\ Fits(text, q, 1, i) <=>
                                  i <= n /\ text[i] = a /\ Fits(text, q, 2, i + 1)
  <2>1. /\ 1 \in 1 .. Len(p) /\ 2 \in 1 .. Len(p) /\ 3 \in 1 .. Len(p) /\ Len(p) + 1 = 4
        /\ 1 + 1 = 2 /\ 2 + 1 = 3 /\ 3 + 1 = 4
    BY <1>1
  <2>2. PICK q : /\ Wld_match(text, p) <=> Fits(text, q, 1, 1)
                /\ \A i \in 1 .. Len(text) + 1 :
                      /\ Fits(text, q, Len(p) + 1, i) <=> i = Len(text) + 1
                      /\ \A k \in 1 .. Len(p) :
                            /\ p[k] = "*" => (Fits(text, q, k, i) <=>
                                  \E l \in i .. Len(text) + 1 : Fits(text, q, k + 1, l))
                            /\ p[k] # "*" => (Fits(text, q, k, i) <=>
                                  /\ i <= Len(text) /\ text[i] = p[k]
                                  /\ Fits(text, q, k + 1, i + 1))
    BY <1>1, <1>2, PlainMatch
  <2> WITNESS q
  <2> QED
    BY <1>1, <2>1, <2>2
<1> DEFINE F(k, i) == Fits(text, q, k, i)
<1> HIDE DEF F
<1>4. \A i \in 1 .. n + 1 : F(3, i)
  <2>1. \A i \in 1 .. n + 1 : n + 1 \in i .. n + 1 /\ n + 1 \in 1 .. n + 1
    OBVIOUS
  <2> QED
    BY <1>3, <2>1 DEF F
<1>5. n >= 1 => 2 \in 1 .. n + 1
  OBVIOUS
<1>6. n >= 2 => 3 \in 1 .. n + 1
  OBVIOUS
<1>7. 1 \in 1 .. n + 1 /\ 1 + 1 = 2 /\ 2 + 1 = 3
  OBVIOUS
<1>8. F(1, 1) <=> 1 <= n /\ text[1] = a /\ F(2, 2)
  BY <1>3, <1>7 DEF F
<1>9. 1 <= n => (F(2, 2) <=> 2 <= n /\ text[2] = b /\ F(3, 3))
  BY <1>3, <1>5, <1>7 DEF F
<1> QED
  BY <1>3, <1>4, <1>6, <1>8, <1>9 DEF F, p

LEMMA MatchAtEnd ==
  ASSUME NEW text, Len(text) \in Nat, NEW a \in Signs \ Special, NEW b \in Signs \ Special
  PROVE  Wld_match(text, <<"*", a, b>>) <=>
            Len(text) >= 2 /\ text[Len(text) - 1] = a /\ text[Len(text)] = b
<1> DEFINE p == <<"*", a, b>>
           n == Len(text)
<1>1. /\ p \in Seq(Signs) /\ Len(p) = 3
      /\ p[1] = "*" /\ p[2] = a /\ p[3] = b
      /\ a # "*" /\ b # "*"
  <2>1. "*" \in Signs /\ a # "*" /\ b # "*"
    BY DEF Signs, Special
  <2> QED
    BY <2>1
<1>2. \A k \in 1 .. Len(p) : p[k] = "*" \/ p[k] \notin Special
  <2>1. \A k \in 1 .. 3 : k = 1 \/ k = 2 \/ k = 3
    OBVIOUS
  <2> HIDE DEF p
  <2> QED
    BY <1>1, <2>1
<1> HIDE DEF p
<1>3. PICK q : /\ Wld_match(text, p) <=> Fits(text, q, 1, 1)
               /\ \A i \in 1 .. n + 1 :
                      /\ Fits(text, q, 4, i) <=> i = n + 1
                      /\ Fits(text, q, 3, i) <=>
                                  i <= n /\ text[i] = b /\ Fits(text, q, 4, i + 1)
                      /\ Fits(text, q, 2, i) <=>
                                  i <= n /\ text[i] = a /\ Fits(text, q, 3, i + 1)
                      /\ Fits(text, q, 1, i) <=> \E l \in i .. n + 1 : Fits(text, q, 2, l)
  <2>1. /\ 1 \in 1 .. Len(p) /\ 2 \in 1 .. Len(p) /\ 3 \in 1 .. Len(p)
        /\ Len(p) + 1 = 4 /\ 1 + 1 = 2 /\ 2 + 1 = 3 /\ 3 + 1 = 4
    BY <1>1
  <2>2. PICK q : /\ Wld_match(text, p) <=> Fits(text, q, 1, 1)
                /\ \A i \in 1 .. Len(text) + 1 :
                      /\ Fits(text, q, Len(p) + 1, i) <=> i = Len(text) + 1
                      /\ \A k \in 1 .. Len(p) :
                            /\ p[k] = "*" => (Fits(text, q, k, i) <=>
                                  \E l \in i .. Len(text) + 1 : Fits(text, q, k + 1, l))
                            /\ p[k] # "*" => (Fits(text, q, k, i) <=>
                                  /\ i <= Len(text) /\ text[i] = p[k]
                                  /\ Fits(text, q, k + 1, i + 1))
    BY <1>1, <1>2, PlainMatch
  <2> WITNESS q
  <2> QED
    BY <1>1, <2>1, <2>2
<1> DEFINE F(k, i) == Fits(text, q, k, i)
<1> HIDE DEF F
<1>4. ASSUME NEW l \in 1 .. n + 1
      PROVE  F(2, l) <=> l = n - 1 /\ text[l] = a /\ text[l + 1] = b
  <2>1. F(2, l) <=> l <= n /\ text[l] = a /\ F(3, l + 1)
    BY <1>3 DEF F
  <2>2. l <= n => (F(3, l + 1) <=> l + 1 <= n /\ text[l + 1] = b /\ F(4, (l + 1) + 1))
    <3>1. l <= n => l + 1 \in 1 .. n + 1
      OBVIOUS
    <3> QED
      BY <1>3, <3>1 DEF F
  <2>3. l + 1 <= n => (F(4, (l + 1) + 1) <=> (l + 1) + 1 = n + 1)
    <3>1. l + 1 <= n => (l + 1) + 1 \in 1 .. n + 1
      OBVIOUS
    <3> QED
      BY <1>3, <3>1 DEF F
  <2>4. l = n - 1 <=> (l + 1) + 1 = n + 1 /\ l + 1 <= n /\ l <= n
    OBVIOUS
  <2> QED
    BY <2>1, <2>2, <2>3, <2>4
<1>5. F(1, 1) <=> \E l \in 1 .. n + 1 : F(2, l)
  <2>1. 1 \in 1 .. n + 1
    OBVIOUS
  <2> QED
    BY <1>3, <2>1 DEF F
<1>6. n - 1 \in 1 .. n + 1 <=> n >= 2
  OBVIOUS
<1>7. (n - 1) + 1 = n
  OBVIOUS
<1> QED
  BY <1>3, <1>4, <1>5, <1>6, <1>7 DEF F, p

LEMMA MatchAnywhere ==
  ASSUME NEW text, Len(text) \in Nat, NEW a \in Signs \ Special
  PROVE  Wld_match(text, <<"*", a, "*">>) <=>
            \E l \in 1 .. Len(text) : text[l] = a
<1> DEFINE p == <<"*", a, "*">>
           n == Len(text)
<1>1. /\ p \in Seq(Signs) /\ Len(p) = 3
      /\ p[1] = "*" /\ p[2] = a /\ p[3] = "*"
      /\ a # "*"
  <2>1. "*" \in Signs /\ a # "*"
    BY DEF Signs, Special
  <2> QED
    BY <2>1
<1>2. \A k \in 1 .. Len(p) : p[k] = "*" \/ p[k] \notin Special
  <2>1. \A k \in 1 .. 3 : k = 1 \/ k = 2 \/ k = 3
    OBVIOUS
  <2> HIDE DEF p
  <2> QED
    BY <1>1, <2>1
<1> HIDE DEF p
<1>3. PICK q : /\ Wld_match(text, p) <=> Fits(text, q, 1, 1)
               /\ \A i \in 1 .. n + 1 :
                      /\ Fits(text, q, 4, i) <=> i = n + 1
                      /\ Fits(text, q, 3, i) <=> \E l \in i .. n + 1 : Fits(text, q, 4, l)
                      /\ Fits(text, q, 2, i) <=>
                                  i <= n /\ text[i] = a /\ Fits(text, q, 3, i + 1)
                      /\ Fits(text, q, 1, i) <=> \E l \in i .. n + 1 : Fits(text, q, 2, l)
  <2>1. /\ 1 \in 1 .. Len(p) /\ 2 \in 1 .. Len(p) /\ 3 \in 1 .. Len(p)
        /\ Len(p) + 1 = 4 /\ 1 + 1 = 2 /\ 2 + 1 = 3 /\ 3 + 1 = 4
    BY <1>1
  <2>2. PICK q : /\ Wld_match(text, p) <=> Fits(text, q, 1, 1)
                /\ \A i \in 1 .. Len(text) + 1 :
                      /\ Fits(text, q, Len(p) + 1, i) <=> i = Len(text) + 1
                      /\ \A k \in 1 .. Len(p) :
                            /\ p[k] = "*" => (Fits(text, q, k, i) <=>
                                  \E l \in i .. Len(text) + 1 : Fits(text, q, k + 1, l))
                            /\ p[k] # "*" => (Fits(text, q, k, i) <=>
                                  /\ i <= Len(text) /\ text[i] = p[k]
                                  /\ Fits(text, q, k + 1, i + 1))
    BY <1>1, <1>2, PlainMatch
  <2> WITNESS q
  <2> QED
    BY <1>1, <2>1, <2>2
<1> DEFINE F(k, i) == Fits(text, q, k, i)
<1> HIDE DEF F
<1>4. \A i \in 1 .. n + 1 : F(3, i)
  <2>1. \A i \in 1 .. n + 1 : n + 1 \in i .. n + 1 /\ n + 1 \in 1 .. n + 1
    OBVIOUS
  <2> QED
    BY <1>3, <2>1 DEF F
<1>5. ASSUME NEW l \in 1 .. n + 1
      PROVE  F(2, l) <=> l \in 1 .. n /\ text[l] = a
  <2>1. F(2, l) <=> l <= n /\ text[l] = a /\ F(3, l + 1)
    BY <1>3 DEF F
  <2>2. l <= n => l + 1 \in 1 .. n + 1
    OBVIOUS
  <2>3. l \in 1 .. n <=> l <= n
    OBVIOUS
  <2> QED
    BY <1>4, <2>1, <2>2, <2>3
<1>6. F(1, 1) <=> \E l \in 1 .. n + 1 : F(2, l)
  <2>1. 1 \in 1 .. n + 1
    OBVIOUS
  <2> QED
    BY <1>3, <2>1 DEF F
<1>7. \A l \in 1 .. n : l \in 1 .. n + 1
  OBVIOUS
<1> QED
  BY <1>3, <1>5, <1>6, <1>7 DEF F, p

LEMMA MatchInside ==
  ASSUME NEW text, Len(text) \in Nat, NEW a \in Signs \ Special,
         NEW b \in Signs \ Special, NEW c \in Signs \ Special
  PROVE  Wld_match(text, <<"*", a, b, c, "*">>) <=>
            \E l \in 1 .. Len(text) - 2 :
               text[l] = a /\ text[l + 1] = b /\ text[l + 2] = c
<1> DEFINE p == <<"*", a, b, c, "*">>
           n == Len(text)
<1>1. /\ p \in Seq(Signs) /\ Len(p) = 5
      /\ p[1] = "*" /\ p[2] = a /\ p[3] = b /\ p[4] = c /\ p[5] = "*"
      /\ a # "*" /\ b # "*" /\ c # "*"
  <2>1. "*" \in Signs /\ a # "*" /\ b # "*" /\ c # "*"
    BY DEF Signs, Special
  <2> QED
    BY <2>1
<1>2. \A k \in 1 .. Len(p) : p[k] = "*" \/ p[k] \notin Special
  <2>1. \A k \in 1 .. 5 : k = 1 \/ k = 2 \/ k = 3 \/ k = 4 \/ k = 5
    OBVIOUS
  <2> HIDE DEF p
  <2> QED
    BY <1>1, <2>1
<1> HIDE DEF p
<1>3. PICK q : /\ Wld_match(text, p) <=> Fits(text, q, 1, 1)
               /\ \A i \in 1 .. n + 1 :
                      /\ Fits(text, q, 6, i) <=> i = n + 1
                      /\ Fits(text, q, 5, i) <=> \E l \in i .. n + 1 : Fits(text, q, 6, l)
                      /\ Fits(text, q, 4, i) <=>
                                  i <= n /\ text[i] = c /\ Fits(text, q, 5, i + 1)
                      /\ Fits(text, q, 3, i) <=>
                                  i <= n /\ text[i] = b /\ Fits(text, q, 4, i + 1)
                      /\ Fits(text, q, 2, i) <=>
                                  i <= n /\ text[i] = a /\ Fits(text, q, 3, i + 1)
                      /\ Fits(text, q, 1, i) <=> \E l \in i .. n + 1 : Fits(text, q, 2, l)
  <2>1. /\ 1 \in 1 .. Len(p) /\ 2 \in 1 .. Len(p) /\ 3 \in 1 .. Len(p)
        /\ 4 \in 1 .. Len(p) /\ 5 \in 1 .. Len(p)
        /\ Len(p) + 1 = 6 /\ 1 + 1 = 2 /\ 2 + 1 = 3 /\ 3 + 1 = 4 /\ 4 + 1 = 5 /\ 5 + 1 = 6
    BY <1>1
  <2>2. PICK q : /\ Wld_match(text, p) <=> Fits(text, q, 1, 1)
                /\ \A i \in 1 .. Len(text) + 1 :
                      /\ Fits(text, q, Len(p) + 1, i) <=> i = Len(text) + 1
                      /\ \A k \in 1 .. Len(p) :
                            /\ p[k] = "*" => (Fits(text, q, k, i) <=>
                                  \E l \in i .. Len(text) + 1 : Fits(text, q, k + 1, l))
                            /\ p[k] # "*" => (Fits(text, q, k, i) <=>
                                  /\ i <= Len(text) /\ text[i] = p[k]
                                  /\ Fits(text, q, k + 1, i + 1))
    BY <1>1, <1>2, PlainMatch
  <2> WITNESS q
  <2> QED
    BY <1>1, <2>1, <2>2
<1> DEFINE F(k, i) == Fits(text, q, k, i)
<1> HIDE DEF F
<1>4. \A i \in 1 .. n + 1 : F(5, i)
  <2>1. \A i \in 1 .. n + 1 : n + 1 \in i .. n + 1 /\ n + 1 \in 1 .. n + 1
    OBVIOUS
  <2> QED
    BY <1>3, <2>1 DEF F
<1>5. ASSUME NEW l \in 1 .. n + 1
      PROVE  F(2, l) <=> /\ l \in 1 .. n - 2
                         /\ text[l] = a /\ text[l + 1] = b /\ text[l + 2] = c
  <2>1. F(2, l) <=> l <= n /\ text[l] = a /\ F(3, l + 1)
    BY <1>3 DEF F
  <2>2. l <= n => (F(3, l + 1) <=> l + 1 <= n /\ text[l + 1] = b /\ F(4, (l + 1) + 1))
    <3>1. l <= n => l + 1 \in 1 .. n + 1
      OBVIOUS
    <3> QED
      BY <1>3, <3>1 DEF F
  <2>3. l + 1 <= n => (F(4, l + 2) <=> l + 2 <= n /\ text[l + 2] = c /\ F(5, (l + 2) + 1))
    <3>1. l + 1 <= n => l + 2 \in 1 .. n + 1
      OBVIOUS
    <3> QED
      BY <1>3, <3>1 DEF F
  <2>4. l + 2 <= n => F(5, (l + 2) + 1)
    <3>1. l + 2 <= n => (l + 2) + 1 \in 1 .. n + 1
      OBVIOUS
    <3> QED
      BY <1>4, <3>1
  <2>5. (l + 1) + 1 = l + 2
    OBVIOUS
  <2>6. l \in 1 .. n - 2 <=> l <= n /\ l + 1 <= n /\ l + 2 <= n
    OBVIOUS
  <2> QED
    BY <2>1, <2>2, <2>3, <2>4, <2>5, <2>6
<1>6. F(1, 1) <=> \E l \in 1 .. n + 1 : F(2, l)
  <2>1. 1 \in 1 .. n + 1
    OBVIOUS
  <2> QED
    BY <1>3, <2>1 DEF F
<1>7. \A l \in 1 .. n - 2 : l \in 1 .. n + 1
  OBVIOUS
<1> QED
  BY <1>3, <1>5, <1>6, <1>7 DEF F, p

\* The entries of forbiddenGroupNames, one by one.
LEMMA PairFields ==
  ASSUME NEW p, NEW b
  PROVE  <<p, b>>[1] = p /\ <<p, b>>[2] = b
OBVIOUS

LEMMA ForbiddenBy ==
  ASSUME NEW name
  PROVE  isForbiddenGroupName(name) <=>
            \/ ~Wld_match(name, <<"*", ".", "*">>)
            \/ Wld_match(name, <<"control", ".", "*">>)
            \/ Wld_match(name, <<"to", ".", "*">>)
            \/ Wld_match(name, <<"*", ".", "all">>)
            \/ Wld_match(name, <<"*", ".", "all", ".", "*">>)
            \/ Wld_match(name, <<"all", ".", "*">>)
            \/ Wld_match(name, <<"*", ".", "ctl">>)
            \/ Wld_match(name, <<"*", ".", "ctl", ".", "*">>)
            \/ Wld_match(name, <<"ctl", ".", "*">>)
<1> DEFINE Meets(f) == Wld_match(name, f[1]) = f[2]
<1>1. ASSUME NEW p
      PROVE  /\ Meets(<<p, TRUE>>) <=> Wld_match(name, p)
             /\ Meets(<<p, FALSE>>) <=> ~Wld_match(name, p)
  <2>1. Wld_match(name, p) \in BOOLEAN
    BY Zenon DEF Wld_match
  <2>2. /\ <<p, TRUE>>[1] = p /\ <<p, TRUE>>[2] = TRUE
        /\ <<p, FALSE>>[1] = p /\ <<p, FALSE>>[2] = FALSE
    BY PairFields, Zenon
  <2> QED
    BY <2>1, <2>2, Zenon
<1>2. isForbiddenGroupName(name) <=>
            \/ Meets(<<<<"*", ".", "*">>, FALSE>>)
            \/ Meets(<<<<"control", ".", "*">>, TRUE>>)
            \/ Meets(<<<<"to", ".", "*">>, TRUE>>)
            \/ Meets(<<<<"*", ".", "all">>, TRUE>>)
            \/ Meets(<<<<"*", ".", "all", ".", "*">>, TRUE>>)
            \/ Meets(<<<<"all", ".", "*">>, TRUE>>)
            \/ Meets(<<<<"*", ".", "ctl">>, TRUE>>)
            \/ Meets(<<<<"*", ".", "ctl", ".", "*">>, TRUE>>)
            \/ Meets(<<<<"ctl", ".", "*">>, TRUE>>)
  BY Zenon DEF isForbiddenGroupName, forbiddenGroupNames
<1> HIDE DEF Meets
<1> QED
  BY <1>1, <1>2, Zenon

\* The name of a group of these components.
NameOf(parts) == LET n == Len(parts)
                 IN  [k \in 1 .. 2 * n - 1 |->
                        IF k % 2 = 1 THEN parts[(k + 1) \div 2] ELSE "."]

\* The components of a name and the dots between them.
LEMMA NameHas ==
  ASSUME NEW n \in 1 .. 3, NEW parts \in [1 .. n -> Components]
  PROVE  LET name == NameOf(parts)
         IN  /\ Len(parts) = n /\ Len(name) = 2 * n - 1
             /\ name[1] = parts[1]
             /\ n >= 2 => name[2] = "." /\ name[3] = parts[2]
             /\ n = 3 => name[4] = "." /\ name[5] = parts[3]
<1>1. Len(parts) = n /\ n \in Nat
  OBVIOUS
<1> DEFINE name == NameOf(parts)
           L == 2 * n - 1
<1>2. name = [k \in 1 .. L |-> IF k % 2 = 1 THEN parts[(k + 1) \div 2] ELSE "."]
  BY <1>1 DEF NameOf
<1>3. L = 1 \/ L = 3 \/ L = 5
  OBVIOUS
<1>4. Len(name) = L
  <2> DEFINE S == {name[k] : k \in 1 .. L}
  <2>1. name \in [1 .. L -> S] /\ L \in Nat
    BY <1>2, <1>3
  <2> HIDE DEF name, L, S
  <2> QED
    BY <2>1
<1> HIDE DEF name
<1>5. \A k \in 1 .. L : name[k] = IF k % 2 = 1 THEN parts[(k + 1) \div 2] ELSE "."
  BY <1>2
<1>6. /\ 1 % 2 = 1 /\ (1 + 1) \div 2 = 1 /\ 2 % 2 = 0 /\ 3 % 2 = 1 /\ (3 + 1) \div 2 = 2
      /\ 4 % 2 = 0 /\ 5 % 2 = 1 /\ (5 + 1) \div 2 = 3
  OBVIOUS
<1>7. name[1] = parts[1]
  BY <1>5, <1>6
<1>8. n >= 2 => name[2] = "." /\ name[3] = parts[2]
  BY <1>5, <1>6
<1>9. n = 3 => name[4] = "." /\ name[5] = parts[3]
  BY <1>5, <1>6
<1> QED
  BY <1>1, <1>4, <1>7, <1>8, <1>9 DEF name

\* isForbiddenGroupName forbids what the comments in client.c say.
LEMMA ForbiddenRightly ==
  ASSUME NEW n \in 1 .. 3, NEW parts \in [1 .. n -> Components]
  PROVE  isForbiddenGroupName(NameOf(parts)) <=>
            \/ n = 1 \/ parts[1] \in {"control", "to"}
            \/ \E k \in 1 .. n : parts[k] \in {"all", "ctl"}
<1> DEFINE name == NameOf(parts)
           N == Len(name)
           Starts(c) == N >= 2 /\ name[1] = c /\ name[2] = "."
           Ends(c) == N >= 2 /\ name[N - 1] = "." /\ name[N] = c
           Holds(c) == \E l \in 1 .. N - 2 :
                          name[l] = "." /\ name[l + 1] = c /\ name[l + 2] = "."
           Dotted == \E l \in 1 .. N : name[l] = "."
<1>1. /\ N = 2 * n - 1 /\ name[1] = parts[1]
      /\ n >= 2 => name[2] = "." /\ name[3] = parts[2]
      /\ n = 3 => name[4] = "." /\ name[5] = parts[3]
  BY NameHas
<1>2. \A k \in 1 .. n : parts[k] # "."
  BY DEF Components
<1> HIDE DEF name, N
<1>3. N \in Nat
  BY <1>1
<1>4. isForbiddenGroupName(name) <=>
         \/ ~Dotted
         \/ Starts("control") \/ Starts("to") \/ Starts("all") \/ Starts("ctl")
         \/ Ends("all") \/ Ends("ctl") \/ Holds("all") \/ Holds("ctl")
  <2>1. /\ "." \in Signs \ Special /\ "control" \in Signs \ Special
        /\ "to" \in Signs \ Special /\ "all" \in Signs \ Special
        /\ "ctl" \in Signs \ Special
    BY DEF Signs, Special, NUL
  <2>2. Wld_match(name, <<"*", ".", "*">>) <=> Dotted
    BY <1>3, <2>1, MatchAnywhere DEF N
  <2>3. ASSUME NEW c \in Signs \ Special
        PROVE  /\ Wld_match(name, <<c, ".", "*">>) <=> Starts(c)
               /\ Wld_match(name, <<"*", ".", c>>) <=> Ends(c)
               /\ Wld_match(name, <<"*", ".", c, ".", "*">>) <=> Holds(c)
    <3>1. Wld_match(name, <<c, ".", "*">>) <=> Starts(c)
      BY <1>3, <2>1, MatchAtStart DEF N
    <3>2. Wld_match(name, <<"*", ".", c>>) <=> Ends(c)
      BY <1>3, <2>1, MatchAtEnd DEF N
    <3>3. Wld_match(name, <<"*", ".", c, ".", "*">>) <=> Holds(c)
      BY <1>3, <2>1, MatchInside DEF N
    <3> QED
      BY <3>1, <3>2, <3>3, Zenon
  <2> HIDE DEF Starts, Ends, Holds, Dotted
  <2> QED
    BY <2>1, <2>2, <2>3, ForbiddenBy
<1> DEFINE Named == \/ parts[1] \in {"control", "to"}
                    \/ \E k \in 1 .. n : parts[k] \in {"all", "ctl"}
<1>5. CASE n = 1
  <2>1. ~Dotted
    <3>1. N = 1 /\ \A l \in 1 .. 1 : l = 1
      BY <1>1, <1>5
    <3>2. name[1] # "."
      BY <1>1, <1>2, <1>5
    <3> QED
      BY <3>1, <3>2
  <2> QED
    BY <1>4, <1>5, <2>1 DEF name
<1>6. CASE n = 2
  <2>1. N = 3 /\ name[2] = "." /\ name[3] = parts[2] /\ 3 - 1 = 2 /\ 3 - 2 = 1 /\ 2 \in 1 .. 3
    BY <1>1, <1>6
  <2>2. Dotted /\ \A c : (Starts(c) <=> parts[1] = c) /\ (Ends(c) <=> parts[2] = c)
    BY <1>1, <2>1
  <2>3. \A c : ~Holds(c)
    <3>1. \A l \in 1 .. 1 : l = 1
      OBVIOUS
    <3>2. name[1] # "."
      BY <1>1, <1>2
    <3> QED
      BY <2>1, <3>1, <3>2
  <2>4. \A k : k \in 1 .. n <=> (k = 1 \/ k = 2)
    BY <1>6
  <2> HIDE DEF Starts, Ends, Holds, Dotted
  <2> QED
    BY <1>4, <1>6, <2>2, <2>3, <2>4 DEF name
<1>7. CASE n = 3
  <2>1. /\ N = 5 /\ name[2] = "." /\ name[3] = parts[2] /\ name[4] = "." /\ name[5] = parts[3]
        /\ 5 - 1 = 4 /\ 5 - 2 = 3 /\ 2 \in 1 .. 5
    BY <1>1, <1>7
  <2>2. Dotted /\ \A c : (Starts(c) <=> parts[1] = c) /\ (Ends(c) <=> parts[3] = c)
    BY <1>1, <2>1
  <2>3. \A c : Holds(c) <=> parts[2] = c
    <3>1. \A l : l \in 1 .. 3 <=> (l = 1 \/ l = 2 \/ l = 3)
      OBVIOUS
    <3>2. name[1] # "." /\ name[3] # "."
      BY <1>1, <1>2, <1>7
    <3>3. 2 + 1 = 3 /\ 2 + 2 = 4
      OBVIOUS
    <3> QED
      BY <2>1, <3>1, <3>2, <3>3
  <2>4. \A k : k \in 1 .. n <=> (k = 1 \/ k = 2 \/ k = 3)
    BY <1>7
  <2> HIDE DEF Starts, Ends, Holds, Dotted
  <2> QED
    BY <1>4, <1>7, <2>2, <2>3, <2>4 DEF name
<1> QED
  BY <1>5, <1>6, <1>7

\* No name is forbidden or let through against the comments in client.c.
LEMMA NoneMisforbidden == Misforbidden = {}
<1>1. ASSUME NEW n \in 1 .. 3, NEW parts \in [1 .. n -> Components]
      PROVE  isForbiddenGroupName(NameOf(parts)) =
                (\/ Len(parts) = 1 \/ parts[1] \in {"control", "to"}
                 \/ \E k \in 1 .. Len(parts) : parts[k] \in {"all", "ctl"})
  <2>1. isForbiddenGroupName(NameOf(parts)) \in BOOLEAN
    BY Zenon DEF isForbiddenGroupName
  <2>2. Len(parts) = n
    BY NameHas
  <2> QED
    BY <2>1, <2>2, ForbiddenRightly
<1>2. \A parts \in UNION {[1 .. n -> Components] : n \in 1 .. 3} :
         \E n \in 1 .. 3 : parts \in [1 .. n -> Components]
  BY Zenon
<1>3. Misforbidden = {parts \in UNION {[1 .. n -> Components] : n \in 1 .. 3} :
         isForbiddenGroupName(NameOf(parts)) #
                (\/ Len(parts) = 1 \/ parts[1] \in {"control", "to"}
                 \/ \E k \in 1 .. Len(parts) : parts[k] \in {"all", "ctl"})}
  BY Zenon DEF Misforbidden, NameOf
<1> QED
  BY <1>1, <1>2, <1>3, Zenon

\* No group of a remote server has a forbidden name and no other name is kept
\* out (isForbiddenGroupName in client.c), and LIST tells of it exactly when its
\* name has the form of the pattern (DoMatch in wildmat.c), however long the
\* patterns and the names are.
THEOREM NamesJudgedTruly == Spec => []NamesAreJudged
<1>1. NamesAreJudged
  BY NoneMisforbidden, NoneMisjudged DEF NamesAreJudged
<1> QED
  BY <1>1, PTL
=============================================================================
