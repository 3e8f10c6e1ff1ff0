------------------------- MODULE NewsServerProofs --------------------------
(***************************************************************************)
(* Proofs about overviews and article numbers, for any number of servers,  *)
(* groups and articles.  First, when noteInterest changes nothing (neither *)
(* auto-subscribe nor info-always-unread): groupinfo's last number is a    *)
(* watermark no number has ever been above.  Then, whatever noteInterest   *)
(* does: how contents and files are numbered (TInv), and from that what a  *)
(* reader is told.  The searches of NEXT and LAST are recursive functions, *)
(* of which least and greatest counterexamples show what they compute.     *)
(***************************************************************************)
EXTENDS Reading, SequenceTheorems, WellFoundedInduction, TLAPS

\* The overview file of g, and every pair it ever had, under the watermark.
Watermark(g) ==
    /\ first[g] \in Nat /\ last[g] \in Nat
    /\ \A n \in DOMAIN over[g] : /\ n \in first[g] .. last[g]
                                 /\ <<n, over[g][n]>> \in numbered[g]
    /\ \A p \in numbered[g] : p[1] \in 0 .. last[g]
    /\ \A p, q \in numbered[g] : p[1] = q[1] => p[2] = q[2]

\* What a server has cached was in the file, but for general infos.
CacheWasSaved(s) == \A g \in Groups : cont[s].name = g =>
    \A n \in DOMAIN cont[s].arts :
        cont[s].arts[n] = GenInfo \/ <<n, cont[s].arts[n]>> \in numbered[g]

IInv == /\ \A g \in Groups : Watermark(g)
        /\ fetchlist \subseteq Groups
        /\ DOMAIN cont = Servers
        /\ \A s \in Servers : CacheWasSaved(s)

\* A content that may be written to the file of g: it agrees with every number
\* given out, and counts on from the watermark.
Writable(c, g) ==
    /\ c = [name |-> c.name, first |-> c.first, last |-> c.last, arts |-> c.arts]
    /\ c.last \in Nat /\ last[g] <= c.last
    /\ \A n \in DOMAIN c.arts :
          /\ n \in 0 .. c.last
          /\ n <= last[g] => <<n, c.arts[n]>> \in numbered[g]

-----------------------------------------------------------------------------
(* Least elements of sets of numbers, for Min.                             *)

LessNat == {ss \in Nat \X Nat : ss[1] < ss[2]}

LEMMA LessNatWellFounded == IsWellFoundedOn(LessNat, Nat)
<1>1. OpToRel(<, Nat) = LessNat
  BY DEF OpToRel, LessNat
<1> QED
  BY <1>1, NatLessThanWellFounded, Zenon

LEMMA InLessNat ==
  ASSUME NEW i \in Nat, NEW j \in Nat, i < j
  PROVE  <<i, j>> \in LessNat
  BY DEF LessNat

LEMMA MinOfNats ==
  ASSUME NEW T, T \subseteq Nat, T # {}
  PROVE  Min(T) \in T /\ \A x \in T : Min(T) <= x
<1>1. PICK x \in T : \A y \in T : <<y, x>> \notin LessNat
  BY LessNatWellFounded, WFMin, Zenon
<1>2. ASSUME NEW y \in T
      PROVE  x <= y
  <2>1. ~(y < x)
    BY <1>1, InLessNat, Zenon
  <2> QED
    BY <2>1
<1> QED
  BY <1>2 DEF Min

LEMMA MaxWithBound ==
  ASSUME NEW T, NEW k \in Nat, \A n \in T : n \in 0 .. k
  PROVE  Max(T \cup {k}) = k
  BY DEF Max

-----------------------------------------------------------------------------
(* The operations of content.c.                                            *)

\* The content read from a file counts on from groupinfo's last number.
LEMMA FreshWritable ==
  ASSUME NEW g \in Groups, Watermark(g)
  PROVE  Writable(Fresh(g), g) /\ Fresh(g).last = last[g] /\ Fresh(g).name = g
<1>1. Max(DOMAIN over[g] \cup {last[g]}) = last[g]
  BY MaxWithBound DEF Watermark
<1>2. /\ Fresh(g).last = last[g] /\ Fresh(g).name = g
      /\ Fresh(g) = [name |-> Fresh(g).name, first |-> Fresh(g).first,
                     last |-> Fresh(g).last, arts |-> Fresh(g).arts]
      /\ DOMAIN over[g] # {} => Fresh(g).arts = over[g]
      /\ DOMAIN over[g] = {} => Fresh(g).arts = NoFile
  BY <1>1 DEF Fresh, Cont_read
<1>3. DOMAIN NoFile = {}
  BY DEF NoFile
<1> QED
  BY <1>2, <1>3 DEF Writable, Watermark

LEMMA AppWritable ==
  ASSUME NEW g \in Groups, Watermark(g), NEW c, Writable(c, g),
         NEW ids, Len(ids) \in Nat
  PROVE  /\ Writable(Cont_app(c, ids), g)
         /\ Cont_app(c, ids).last = c.last + Len(ids)
         /\ Cont_app(c, ids).name = c.name
<1> DEFINE d == Cont_app(c, ids)
           arts == [n \in DOMAIN c.arts
                            \cup (c.last + 1) .. (c.last + Len(ids)) |->
                       IF n \in DOMAIN c.arts THEN c.arts[n] ELSE ids[n - c.last]]
<1> USE DEF Writable
<1>0. d = [name |-> c.name, first |-> c.first, last |-> c.last + Len(ids),
           arts |-> arts]
  <2> HIDE DEF arts
  <2>1. d = [c EXCEPT !.last = c.last + Len(ids), !.arts = arts]
    BY DEF Cont_app, arts
  <2> HIDE DEF d
  <2> QED
    BY <2>1
<1>1. /\ d.last = c.last + Len(ids) /\ d.name = c.name
      /\ d = [name |-> d.name, first |-> d.first, last |-> d.last, arts |-> d.arts]
      /\ DOMAIN d.arts = DOMAIN c.arts \cup (c.last + 1) .. (c.last + Len(ids))
      /\ \A n \in DOMAIN c.arts : d.arts[n] = c.arts[n]
  <2> HIDE DEF d
  <2> QED
    BY <1>0
<1> HIDE DEF d, arts
<1>2. Writable(d, g)
  BY <1>1 DEF Watermark
<1> QED
  BY <1>1, <1>2 DEF d

LEMMA DeleteWritable ==
  ASSUME NEW g \in Groups, NEW c, Writable(c, g), NEW nums
  PROVE  Writable(Cont_delete(c, nums), g)
<1> DEFINE d == Cont_delete(c, nums)
           kept == {k \in DOMAIN c.arts : ~(k \in nums /\ Cont_validNumb(c, k))}
<1> USE DEF Writable
<1>1. /\ d = [name |-> d.name, first |-> d.first, last |-> d.last, arts |-> d.arts]
      /\ d.last = c.last
      /\ DOMAIN d.arts = kept
      /\ \A n \in kept : d.arts[n] = c.arts[n]
  BY DEF Cont_delete
<1>2. kept \subseteq DOMAIN c.arts
  OBVIOUS
<1> HIDE DEF d, kept
<1>3. Writable(d, g)
  BY <1>1, <1>2
<1> QED
  BY <1>3 DEF d

\* Cont_write and Grp_setFirstLast keep the watermark, and forget no number.
LEMMA SaveKeeps ==
  ASSUME \A g \in Groups : Watermark(g),
         NEW new, DOMAIN new \subseteq Groups,
         \A g \in DOMAIN new : Writable(new[g], g),
         Save(new)
  PROVE  \A g \in Groups :
            /\ Watermark(g)'
            /\ numbered[g] \subseteq numbered'[g]
            /\ g \in DOMAIN new => \A n \in Saved(new[g]) :
                                      <<n, new[g].arts[n]>> \in numbered'[g]
<1> SUFFICES ASSUME NEW g \in Groups
             PROVE  /\ Watermark(g)'
                    /\ numbered[g] \subseteq numbered'[g]
                    /\ g \in DOMAIN new => \A n \in Saved(new[g]) :
                                              <<n, new[g].arts[n]>> \in numbered'[g]
  OBVIOUS
<1>1. CASE g \notin DOMAIN new
  BY <1>1 DEF Save, Watermark
<1>2. CASE g \in DOMAIN new
  <2> DEFINE c == new[g]
             S == Saved(c)
             added == {<<n, c.arts[n]>> : n \in S}
  <2>1. /\ over'[g] = [n \in S |-> c.arts[n]]
        /\ first'[g] = ContWritten(c).first
        /\ last'[g] = c.last
        /\ numbered'[g] = numbered[g] \cup added
    BY <1>2 DEF Save, Cont_write
  <2>2. S \subseteq DOMAIN c.arts
    BY DEF Saved
  <2>3. Writable(c, g) /\ Watermark(g)
    BY <1>2
  <2>4. ContWritten(c).first = IF S = {} THEN c.last + 1 ELSE Min(S)
    BY <2>3 DEF ContWritten, Writable
  <2> HIDE DEF c, S
  <2>5. /\ first'[g] \in Nat
        /\ \A n \in S : n \in Nat /\ first'[g] <= n /\ n <= c.last
    <3>1. S \subseteq Nat /\ \A n \in S : n <= c.last
      <4>1. c.last \in Nat /\ \A n \in DOMAIN c.arts : n \in 0 .. c.last
        BY <2>3 DEF Writable
      <4> QED
        BY <4>1, <2>2
    <3>2. CASE S = {}
      BY <3>2, <2>1, <2>3, <2>4 DEF Writable
    <3>3. CASE S # {}
      <4>1. Min(S) \in S /\ \A n \in S : Min(S) <= n
        BY <3>1, <3>3, MinOfNats
      <4>2. first'[g] = Min(S)
        BY <3>3, <2>1, <2>4
      <4> QED
        BY <3>1, <4>1, <4>2
    <3> QED
      BY <3>2, <3>3
  <2>6. \A p \in numbered'[g] : p[1] \in 0 .. c.last
    BY <2>1, <2>3, <2>5 DEF Writable, Watermark
  <2>7. \A p, q \in numbered'[g] : p[1] = q[1] => p[2] = q[2]
    <3>1. \A p \in added : \/ p \in numbered[g]
                           \/ p[1] > last[g]
      BY <2>2, <2>3, <2>5 DEF Writable, Watermark
    <3>2. \A p, q \in added : p[1] = q[1] => p[2] = q[2]
      OBVIOUS
    <3> HIDE DEF added
    <3> QED
      BY <3>1, <3>2, <2>1, <2>3 DEF Watermark
  <2>8. \A n \in S : /\ n \in DOMAIN over'[g] /\ over'[g][n] = c.arts[n]
                     /\ <<n, c.arts[n]>> \in numbered'[g]
    BY <2>1
  <2>9. Watermark(g)'
    BY <2>1, <2>3, <2>5, <2>6, <2>7, <2>8 DEF Watermark, Writable
  <2> QED
    BY <2>1, <2>8, <2>9 DEF c, S
<1> QED
  BY <1>1, <1>2

\* What readCont caches is the file, and perhaps a general info behind it.
LEMMA ReadContCaches ==
  ASSUME NEW g, NEW file, NEW k \in Nat, \A n \in DOMAIN file : n \in 0 .. k
  PROVE  /\ ReadCont(g, file, k).name = g
         /\ \A n \in DOMAIN ReadCont(g, file, k).arts :
               \/ ReadCont(g, file, k).arts[n] = GenInfo
               \/ n \in DOMAIN file /\ ReadCont(g, file, k).arts[n] = file[n]
<1> DEFINE c == Cont_read(g, file, k)
           d == Cont_app(c, <<GenInfo>>)
<1>1. Max(DOMAIN file \cup {k}) = k
  BY MaxWithBound
<1>2. /\ c = [name |-> c.name, first |-> c.first, last |-> c.last, arts |-> c.arts]
      /\ c.name = g /\ c.last = k
      /\ c.arts = IF DOMAIN file = {} THEN NoFile ELSE file
  BY <1>1 DEF Cont_read
<1>3. DOMAIN NoFile = {}
  BY DEF NoFile
<1> HIDE DEF c
<1>4. /\ d.name = g
      /\ d.arts = [n \in DOMAIN c.arts \cup (k + 1) .. (k + Len(<<GenInfo>>)) |->
                      IF n \in DOMAIN c.arts THEN c.arts[n]
                                             ELSE <<GenInfo>>[n - k]]
  <2> DEFINE arts == [n \in DOMAIN c.arts \cup (k + 1) .. (k + Len(<<GenInfo>>)) |->
                         IF n \in DOMAIN c.arts THEN c.arts[n]
                                                ELSE <<GenInfo>>[n - k]]
  <2>1. d = [c EXCEPT !.last = k + Len(<<GenInfo>>), !.arts = arts]
    BY <1>2 DEF Cont_app
  <2> HIDE DEF arts, d
  <2>2. d.name = g /\ d.arts = arts
    BY <2>1, <1>2
  <2> QED
    BY <2>2 DEF arts
<1>5. Len(<<GenInfo>>) = 1 /\ <<GenInfo>>[1] = GenInfo
  OBVIOUS
<1>6. \A n \in DOMAIN d.arts : \/ n \in DOMAIN c.arts /\ d.arts[n] = c.arts[n]
                               \/ n = k + 1 /\ d.arts[n] = GenInfo
  BY <1>4, <1>5
<1> HIDE DEF d
<1>7. ReadCont(g, file, k) = c \/ ReadCont(g, file, k) = d
  BY DEF ReadCont, c, d
<1> QED
  BY <1>2, <1>3, <1>4, <1>6, <1>7

LEMMA NewsHasLength ==
  ASSUME NEW g \in Groups, NEW ids \in News(g)
  PROVE  Len(ids) \in Nat
<1>1. PICK k \in 0 .. MaxNew : ids \in [1 .. k -> Arts \cup FreshNotices]
  BY DEF News
<1>2. ids \in Seq(Arts \cup FreshNotices)
  BY <1>1, NewsAssumption, SeqDef
<1> QED
  BY <1>2, LenProperties, Zenon

-----------------------------------------------------------------------------
(* Steps.                                                                  *)

LEMMA InitIInv == Init => IInv
  BY DEF Init, IInv, Watermark, CacheWasSaved, NoFile, NoContent

\* Nothing but the numbers and what is cached is in the invariant.
LEMMA UnchangedKeeps ==
  ASSUME IInv, UNCHANGED <<over, first, last, numbered, cont>>,
         fetchlist' \subseteq Groups
  PROVE  IInv'
  BY DEF IInv, Watermark, CacheWasSaved

\* A step that saves contents and caches only what has been saved.
LEMMA SaveStep ==
  ASSUME IInv,
         \A g \in Groups : Watermark(g)' /\ numbered[g] \subseteq numbered'[g],
         DOMAIN cont' = Servers, fetchlist' \subseteq Groups,
         \A s \in Servers : cont'[s] = cont[s] \/ CacheWasSaved(s)'
  PROVE  IInv'
<1>1. ASSUME NEW s \in Servers
      PROVE  CacheWasSaved(s)'
  BY <1>1 DEF IInv, CacheWasSaved
<1> QED
  BY <1>1 DEF IInv

LEMMA FetchedKeeps ==
  ASSUME \A g \in Groups : Watermark(g),
         NEW new, DOMAIN new \subseteq Groups,
         \A g \in DOMAIN new : new[g] \in News(g),
         Fetched(new)
  PROVE  \A g \in Groups : Watermark(g)' /\ numbered[g] \subseteq numbered'[g]
<1> DEFINE contents == [g \in DOMAIN new |-> Cont_app(Fresh(g), new[g])]
<1>1. \A g \in DOMAIN contents : Writable(contents[g], g)
  BY FreshWritable, AppWritable, NewsHasLength
<1>2. Save(contents) /\ DOMAIN contents \subseteq Groups
  BY DEF Fetched
<1> HIDE DEF contents
<1> QED
  BY <1>1, <1>2, SaveKeeps

LEMMA SelectGroupKeeps ==
  ASSUME IInv, NEW s \in Servers, NEW g \in Groups, SelectGroup(s, g)
  PROVE  IInv'
<1>1. \A h \in Groups : Watermark(h)' /\ numbered[h] \subseteq numbered'[h]
  <2>1. CASE UNCHANGED <<spool, db>>
    BY <2>1 DEF IInv, Watermark, spool
  <2>2. CASE \E ids \in News(g) : Fetched([h \in {g} |-> ids])
    BY <2>2, FetchedKeeps DEF IInv
  <2> QED
    BY <2>1, <2>2 DEF SelectGroup, CheckNewArts
<1>2. cont' = [cont EXCEPT ![s] = ReadCont(g, over'[g], last'[g])]
  BY DEF SelectGroup
<1>3. /\ last'[g] \in Nat
      /\ \A n \in DOMAIN over'[g] : /\ n \in 0 .. last'[g]
                                    /\ <<n, over'[g][n]>> \in numbered'[g]
  BY <1>1 DEF Watermark
<1>4. CacheWasSaved(s)'
  <2>1. cont'[s] = ReadCont(g, over'[g], last'[g])
    BY <1>2 DEF IInv
  <2>2. /\ cont'[s].name = g
        /\ \A n \in DOMAIN cont'[s].arts :
              \/ cont'[s].arts[n] = GenInfo
              \/ n \in DOMAIN over'[g] /\ cont'[s].arts[n] = over'[g][n]
    <3>1. PICK file, k : file = over'[g] /\ k = last'[g]
      OBVIOUS
    <3>2. k \in Nat /\ \A n \in DOMAIN file : n \in 0 .. k
      BY <3>1, <1>3
    <3>3. /\ ReadCont(g, file, k).name = g
          /\ \A n \in DOMAIN ReadCont(g, file, k).arts :
                \/ ReadCont(g, file, k).arts[n] = GenInfo
                \/ n \in DOMAIN file /\ ReadCont(g, file, k).arts[n] = file[n]
      BY <3>2, ReadContCaches
    <3> QED
      BY <2>1, <3>1, <3>3
  <2> QED
    BY <2>2, <1>3 DEF CacheWasSaved
<1>5. DOMAIN cont' = Servers /\ fetchlist' = fetchlist /\ \A t \in Servers : t # s => cont'[t] = cont[t]
  BY <1>2 DEF IInv, SelectGroup
<1> QED
  BY <1>1, <1>4, <1>5, SaveStep DEF IInv

LEMMA PostKeeps ==
  ASSUME IInv, NEW s \in Servers, NEW m, NEW gs, Post(s, m, gs)
  PROVE  IInv'
<1> DEFINE locals == gs \cap Local
           new == [g \in locals |-> Cont_app(Fresh(g), <<m>>)]
<1>1. DOMAIN new \subseteq Groups /\ Save(new)
  BY NewsAssumption DEF Post
<1>2. \A g \in DOMAIN new : Writable(new[g], g) /\ new[g].name = g
  <2>1. Len(<<m>>) \in Nat
    OBVIOUS
  <2>2. ASSUME NEW g \in locals
        PROVE  /\ Writable(Cont_app(Fresh(g), <<m>>), g)
               /\ Cont_app(Fresh(g), <<m>>).name = g
    <3>1. g \in Groups /\ Watermark(g)
      BY <1>1 DEF IInv
    <3>2. Writable(Fresh(g), g) /\ Fresh(g).name = g
      BY <3>1, FreshWritable
    <3> QED
      BY <2>1, <3>1, <3>2, AppWritable
  <2> QED
    BY <2>2
<1>3. PICK h \in locals : cont' = [cont EXCEPT ![s] = ContWritten(new[h])]
  BY DEF Post
<1> HIDE DEF new
<1>4. h \in DOMAIN new /\ DOMAIN new = locals
  BY DEF new
<1>5. \A g \in Groups :
         /\ Watermark(g)'
         /\ numbered[g] \subseteq numbered'[g]
         /\ g \in DOMAIN new => \A n \in Saved(new[g]) :
                                   <<n, new[g].arts[n]>> \in numbered'[g]
  BY <1>1, <1>2, SaveKeeps DEF IInv
<1>6. cont'[s].name = h /\ cont'[s].arts = new[h].arts
  <2>1. cont'[s] = ContWritten(new[h])
    BY <1>3 DEF IInv
  <2> QED
    BY <2>1, <1>2, <1>4 DEF ContWritten, Writable
<1>7. CacheWasSaved(s)'
  BY <1>1, <1>4, <1>5, <1>6 DEF CacheWasSaved, Saved
<1>8. DOMAIN cont' = Servers /\ fetchlist' = fetchlist /\ \A t \in Servers : t # s => cont'[t] = cont[t]
  BY <1>3 DEF IInv, Post
<1> QED
  BY <1>5, <1>7, <1>8, SaveStep DEF IInv

LEMMA ExpireKeeps ==
  ASSUME IInv, Expire
  PROVE  IInv'
<1>1. PICK old \in SUBSET db, idle \in SUBSET ((Filed \cap fetchlist) \ Local) :
         \E note \in [idle -> FreshNotices] :
            /\ Save([g \in Filed |->
                        IF g \in idle
                          THEN Cont_app(Expired(g, old), <<note[g]>>)
                          ELSE Expired(g, old)])
            /\ fetchlist' = fetchlist \ idle
  BY ZenonT(40) DEF Expire
<1>2. PICK note \in [idle -> FreshNotices] :
         /\ Save([g \in Filed |->
                     IF g \in idle
                       THEN Cont_app(Expired(g, old), <<note[g]>>)
                       ELSE Expired(g, old)])
         /\ fetchlist' = fetchlist \ idle
  BY <1>1
<1> DEFINE new == [g \in Filed |-> IF g \in idle
                                     THEN Cont_app(Expired(g, old), <<note[g]>>)
                                     ELSE Expired(g, old)]
<1>3. ASSUME NEW g \in Filed
      PROVE  Writable(new[g], g)
  <2>1. g \in Groups /\ Watermark(g)
    BY DEF Filed, IInv
  <2>2. Writable(Expired(g, old), g)
    BY <2>1, FreshWritable, DeleteWritable DEF Expired
  <2>3. Len(<<note[g]>>) \in Nat
    OBVIOUS
  <2>4. Writable(Cont_app(Expired(g, old), <<note[g]>>), g)
    BY <2>1, <2>2, <2>3, AppWritable
  <2> QED
    BY <2>2, <2>4
<1>4. Save(new) /\ DOMAIN new \subseteq Groups /\ DOMAIN new = Filed
  BY <1>2 DEF Filed
<1>5. cont' = cont
  BY DEF Expire, Tool, session
<1> HIDE DEF new
<1>6. \A g \in Groups : Watermark(g)' /\ numbered[g] \subseteq numbered'[g]
  BY <1>3, <1>4, SaveKeeps DEF IInv
<1> QED
  BY <1>2, <1>5, <1>6, SaveStep DEF IInv

LEMMA FetchKeeps ==
  ASSUME IInv, Fetch
  PROVE  IInv'
<1>1. PICK answered \in SUBSET (fetchlist \ Local) :
         \E new \in [answered -> UNION {News(g) : g \in answered}] :
            (\A g \in answered : new[g] \in News(g)) /\ Fetched(new)
  BY Zenon DEF Fetch
<1>2. PICK new \in [answered -> UNION {News(g) : g \in answered}] :
         (\A g \in answered : new[g] \in News(g)) /\ Fetched(new)
  BY <1>1
<1>3. DOMAIN new \subseteq Groups /\ \A g \in DOMAIN new : new[g] \in News(g)
  BY <1>2 DEF IInv
<1>4. \A g \in Groups : Watermark(g)' /\ numbered[g] \subseteq numbered'[g]
  BY <1>2, <1>3, FetchedKeeps DEF IInv
<1>5. cont' = cont /\ fetchlist' = fetchlist
  BY DEF Fetch, Tool, session
<1> QED
  BY <1>4, <1>5, SaveStep DEF IInv

LEMMA LeaveKeeps ==
  ASSUME IInv, NEW s \in Servers, Leave(s)
  PROVE  IInv'
  BY NewsAssumption DEF IInv, Leave, NoContent, Watermark, CacheWasSaved, spool

LEMMA NextKeeps ==
  ASSUME "subscribe" \notin Reactions, "info" \notin Reactions, IInv, [Next]_vars
  PROVE  IInv'
<1>1. ASSUME NEW s \in Servers, ServerNext(s)
      PROVE  IInv'
  <2>1. ASSUME NEW g \in Groups, SelectGroup(s, g)
        PROVE  IInv'
    BY <2>1, SelectGroupKeeps
  <2>2. CASE Read(s)
    <3>1. UNCHANGED <<spool, fetchlist, db, cont>>
      BY <2>2 DEF Read, NoteInterest, AutoSubscribe, InfoAlways
    <3> QED
      BY <3>1, UnchangedKeeps DEF spool, IInv
  <2>3. ASSUME NEW m \in Arts, NEW gs \in SUBSET Groups, Post(s, m, gs)
        PROVE  IInv'
    BY <2>3, PostKeeps
  <2>4. ASSUME NEW m \in db, PostCancel(s, m)
        PROVE  IInv'
    BY <2>4, UnchangedKeeps DEF PostCancel, Ctrl_cancel, spool, session, IInv
  <2>5. CASE Idle(s)
    BY <2>5, UnchangedKeeps DEF Idle, spool, session, IInv
  <2>6. CASE Leave(s)
    BY <2>6, LeaveKeeps
  <2> QED
    BY <1>1, <2>1, <2>2, <2>3, <2>4, <2>5, <2>6 DEF ServerNext
<1>2. CASE ToolNext
  <2>1. CASE Fetch
    BY <2>1, FetchKeeps
  <2>2. CASE Expire
    BY <2>2, ExpireKeeps
  <2>3. CASE Online_set
    BY <2>3, UnchangedKeeps DEF Online_set, Tool, spool, session, IInv
  <2>4. ASSUME NEW g \in Groups, Subscribe(g) \/ Unsubscribe(g)
        PROVE  IInv'
    <3>1. fetchlist' \subseteq Groups /\ UNCHANGED <<spool, session>>
      BY <2>4 DEF Subscribe, Unsubscribe, Tool, IInv, Fetchlist_write,
                  Fetchlist_add, Fetchlist_remove
    <3> QED
      BY <3>1, UnchangedKeeps DEF spool, session
  <2>5. ASSUME NEW m \in db, Cancel(m)
        PROVE  IInv'
    BY <2>5, UnchangedKeeps DEF Cancel, Ctrl_cancel, spool, session, IInv
  <2> QED
    BY <1>2, <2>1, <2>2, <2>3, <2>4, <2>5 DEF ToolNext
<1>3. CASE UNCHANGED vars
  BY <1>3, UnchangedKeeps DEF vars, spool, session, IInv
<1> QED
  BY <1>1, <1>2, <1>3 DEF Next

\* The watermark is an invariant of the server, however many processes run.
THEOREM Invariance ==
  ASSUME "subscribe" \notin Reactions, "info" \notin Reactions
  PROVE  Spec => []IInv
<1>1. IInv /\ [Next]_vars => IInv'
  BY NextKeeps
<1> QED
  BY InitIInv, <1>1, PTL DEF Spec

\* No article number is ever given to two articles of a group, when
\* noteInterest leaves groupinfo and overviews alone (content.c:169-177).
THEOREM NumbersAreUnique ==
  ASSUME "subscribe" \notin Reactions, "info" \notin Reactions
  PROVE  Spec => []UniqueNumbers
<1>1. IInv => UniqueNumbers
  BY DEF IInv, Watermark, UniqueNumbers
<1> QED
  BY Invariance, <1>1, PTL

\* The first and last number of groupinfo enclose every overview file.
THEOREM GrpInfoCovers ==
  ASSUME "subscribe" \notin Reactions, "info" \notin Reactions
  PROVE  Spec => []GrpInfoCoversOverviews
<1>1. IInv => GrpInfoCoversOverviews
  BY DEF IInv, Watermark, GrpInfoCoversOverviews
<1> QED
  BY Invariance, <1>1, PTL

\* What a server has cached of a group agrees with the file, whatever others
\* have written since (server.c:readCont).
THEOREM CachesAgree ==
  ASSUME "subscribe" \notin Reactions, "info" \notin Reactions
  PROVE  Spec => []CacheAgrees
<1>1. ASSUME IInv, NEW s \in Servers, NEW g \in Groups, cont[s].name = g,
             NEW n \in DOMAIN cont[s].arts \cap DOMAIN over[g]
      PROVE  cont[s].arts[n] \in {GenInfo, over[g][n]}
  <2> DEFINE m == cont[s].arts[n]
  <2>1. m = GenInfo \/ <<n, m>> \in numbered[g]
    BY <1>1 DEF IInv, CacheWasSaved
  <2>2. <<n, over[g][n]>> \in numbered[g]
    BY <1>1 DEF IInv, Watermark
  <2>3. \A p, q \in numbered[g] : p[1] = q[1] => p[2] = q[2]
    BY <1>1 DEF IInv, Watermark
  <2> HIDE DEF m
  <2>4. m = GenInfo \/ m = over[g][n]
    BY <2>1, <2>2, <2>3
  <2> QED
    BY <2>4 DEF m
<1>2. IInv => CacheAgrees
  BY <1>1 DEF CacheAgrees
<1> QED
  BY Invariance, <1>2, PTL

-----------------------------------------------------------------------------
(* No overview is lost while its article is there.                         *)

KInv == IInv /\ db \subseteq Arts \cup Notices

\* The overviews of g's file that have an article after this step are in c.
KeepsThose(c, g) == \A n \in DOMAIN over[g] : over[g][n] \in db' =>
                        n \in DOMAIN c.arts /\ c.arts[n] = over[g][n]

LEMMA SaveKeepsThose ==
  ASSUME NEW new, Save(new), db' \subseteq Arts \cup Notices,
         \A g \in Groups \cap DOMAIN new : KeepsThose(new[g], g),
         NEW g \in Groups, NEW n \in DOMAIN over[g], over[g][n] \in db'
  PROVE  n \in DOMAIN over'[g] /\ over'[g][n] = over[g][n]
<1>1. over[g][n] # GenInfo
  BY NewsAssumption
<1>2. over'[g] = IF g \in DOMAIN new THEN Cont_write(new[g]) ELSE over[g]
  BY DEF Save
<1>3. CASE g \in DOMAIN new
  <2> DEFINE c == new[g]
  <2>1. n \in DOMAIN c.arts /\ c.arts[n] = over[g][n]
    BY <1>3 DEF KeepsThose
  <2>2. over'[g] = [k \in Saved(c) |-> c.arts[k]]
    BY <1>2, <1>3 DEF Cont_write
  <2>3. n \in Saved(c)
    BY <1>1, <2>1 DEF Saved
  <2> QED
    BY <2>1, <2>2, <2>3
<1> QED
  BY <1>2, <1>3

LEMMA FreshKeepsThose ==
  ASSUME NEW g \in Groups, Watermark(g)
  PROVE  KeepsThose(Fresh(g), g)
<1>1. DOMAIN over[g] # {} => Fresh(g).arts = over[g]
  BY DEF Fresh, Cont_read
<1> QED
  BY <1>1 DEF KeepsThose

LEMMA AppKeepsThose ==
  ASSUME NEW g \in Groups, NEW c, Writable(c, g), KeepsThose(c, g), NEW ids, Len(ids) \in Nat
  PROVE  KeepsThose(Cont_app(c, ids), g)
<1> DEFINE arts == [n \in DOMAIN c.arts
                            \cup (c.last + 1) .. (c.last + Len(ids)) |->
                       IF n \in DOMAIN c.arts THEN c.arts[n] ELSE ids[n - c.last]]
           d == Cont_app(c, ids)
<1>1. d = [c EXCEPT !.last = c.last + Len(ids), !.arts = arts]
  BY DEF Cont_app
<1>2. \A n \in DOMAIN c.arts : n \in DOMAIN arts /\ arts[n] = c.arts[n]
  OBVIOUS
<1> HIDE DEF arts, d
<1>3. d.arts = arts
  BY <1>1 DEF Writable
<1>4. KeepsThose(d, g)
  BY <1>2, <1>3 DEF KeepsThose
<1> QED
  BY <1>4 DEF d

LEMMA FetchedKeepsThose ==
  ASSUME KInv, NEW new, DOMAIN new \subseteq Groups,
         \A g \in DOMAIN new : new[g] \in News(g),
         Fetched(new)
  PROVE  /\ db' \subseteq Arts \cup Notices
         /\ \A g \in Groups : \A n \in DOMAIN over[g] : over[g][n] \in db' =>
                n \in DOMAIN over'[g] /\ over'[g][n] = over[g][n]
<1> DEFINE contents == [g \in DOMAIN new |-> Cont_app(Fresh(g), new[g])]
<1>1. ASSUME NEW g \in DOMAIN new
      PROVE  KeepsThose(contents[g], g)
  <2>1. g \in Groups /\ Watermark(g)
    BY DEF KInv, IInv
  <2>2. Len(new[g]) \in Nat
    BY <2>1, NewsHasLength
  <2>3. Writable(Fresh(g), g) /\ KeepsThose(Fresh(g), g)
    BY <2>1, FreshWritable, FreshKeepsThose
  <2>4. KeepsThose(Cont_app(Fresh(g), new[g]), g)
    BY <2>1, <2>2, <2>3, AppKeepsThose
  <2> QED
    BY <2>4
<1>2. db' \subseteq Arts \cup Notices
  <2>1. ASSUME NEW g \in DOMAIN new
        PROVE  IdsOf(new[g]) \subseteq Arts \cup Notices
    <3>1. PICK k \in 0 .. MaxNew : new[g] \in [1 .. k -> Arts \cup FreshNotices]
      BY DEF News
    <3> QED
      BY <3>1 DEF IdsOf, FreshNotices
  <2> QED
    BY <2>1 DEF Fetched, KInv
<1>3. Save(contents) /\ DOMAIN contents = DOMAIN new
  BY DEF Fetched
<1> HIDE DEF contents
<1> QED
  BY <1>1, <1>2, <1>3, SaveKeepsThose

\* Expire takes overviews whose article goes in the same step only: a notice is
\* not the article of any of them.
LEMMA ExpireKeepsThose ==
  ASSUME KInv, Expire
  PROVE  /\ db' \subseteq Arts \cup Notices
         /\ \A g \in Groups : \A n \in DOMAIN over[g] : over[g][n] \in db' =>
                n \in DOMAIN over'[g] /\ over'[g][n] = over[g][n]
<1>1. PICK old \in SUBSET db, idle \in SUBSET ((Filed \cap fetchlist) \ Local) :
         \E note \in [idle -> FreshNotices] :
            /\ Save([g \in Filed |->
                        IF g \in idle
                          THEN Cont_app(Expired(g, old), <<note[g]>>)
                          ELSE Expired(g, old)])
            /\ db' = (db \ old) \cup {note[g] : g \in idle}
  BY ZenonT(40) DEF Expire
<1>2. PICK note \in [idle -> FreshNotices] :
         /\ Save([g \in Filed |->
                     IF g \in idle
                       THEN Cont_app(Expired(g, old), <<note[g]>>)
                       ELSE Expired(g, old)])
         /\ db' = (db \ old) \cup {note[g] : g \in idle}
  BY <1>1
<1> DEFINE new == [g \in Filed |-> IF g \in idle
                                     THEN Cont_app(Expired(g, old), <<note[g]>>)
                                     ELSE Expired(g, old)]
<1>3. db' \subseteq Arts \cup Notices
  BY <1>2 DEF KInv, FreshNotices
<1>4. ASSUME NEW g \in Groups, NEW n \in DOMAIN over[g], over[g][n] \in db'
      PROVE  over[g][n] \in db \ old
  <2>1. <<n, over[g][n]>> \in numbered[g]
    BY DEF KInv, IInv, Watermark
  <2>2. over[g][n] \notin FreshNotices
    BY <2>1 DEF FreshNotices
  <2> QED
    BY <1>2, <1>4, <2>2
<1>5. ASSUME NEW g \in Filed
      PROVE  KeepsThose(new[g], g)
  <2>1. g \in Groups /\ Watermark(g)
    BY DEF Filed, KInv, IInv
  <2> DEFINE nums == {n \in DOMAIN over[g] : over[g][n] \notin db \ old}
             c == Fresh(g)
             d == Cont_delete(c, nums)
             kept == {k \in DOMAIN c.arts : ~(k \in nums /\ Cont_validNumb(c, k))}
  <2>2. Expired(g, old) = d
    BY DEF Expired
  <2>3. Writable(c, g) /\ KeepsThose(c, g)
    BY <2>1, FreshWritable, FreshKeepsThose
  <2>4. Writable(d, g)
    BY <2>1, <2>3, DeleteWritable
  <2> HIDE DEF nums, c
  <2>5. d.arts = [k \in kept |-> c.arts[k]]
    BY <2>3 DEF Cont_delete, Writable
  <2>6. ASSUME NEW n \in DOMAIN over[g], over[g][n] \in db'
        PROVE  n \notin nums
    BY <1>4, <2>1, <2>6 DEF nums
  <2> HIDE DEF d
  <2>7. KeepsThose(d, g)
    BY <2>3, <2>5, <2>6 DEF KeepsThose
  <2>8. Len(<<note[g]>>) \in Nat
    OBVIOUS
  <2>9. KeepsThose(Cont_app(d, <<note[g]>>), g)
    BY <2>1, <2>4, <2>7, <2>8, AppKeepsThose
  <2> QED
    BY <2>2, <2>7, <2>9
<1>6. Save(new) /\ DOMAIN new = Filed
  BY <1>2
<1> HIDE DEF new
<1> QED
  BY <1>3, <1>5, <1>6, SaveKeepsThose

LEMMA PostKeepsThose ==
  ASSUME KInv, NEW s \in Servers, NEW m \in Arts, NEW gs, Post(s, m, gs)
  PROVE  /\ db' \subseteq Arts \cup Notices
         /\ \A g \in Groups : \A n \in DOMAIN over[g] : over[g][n] \in db' =>
                n \in DOMAIN over'[g] /\ over'[g][n] = over[g][n]
<1> DEFINE locals == gs \cap Local
           new == [g \in locals |-> Cont_app(Fresh(g), <<m>>)]
<1>1. Save(new) /\ DOMAIN new = locals /\ locals \subseteq Groups
  BY NewsAssumption DEF Post
<1>2. db' \subseteq Arts \cup Notices
  BY DEF Post, KInv
<1>3. ASSUME NEW g \in locals
      PROVE  KeepsThose(new[g], g)
  <2>1. g \in Groups /\ Watermark(g)
    BY <1>1 DEF KInv, IInv
  <2>2. Len(<<m>>) \in Nat
    OBVIOUS
  <2>3. Writable(Fresh(g), g) /\ KeepsThose(Fresh(g), g)
    BY <2>1, FreshWritable, FreshKeepsThose
  <2>4. KeepsThose(Cont_app(Fresh(g), <<m>>), g)
    BY <2>1, <2>2, <2>3, AppKeepsThose
  <2> QED
    BY <2>4
<1> HIDE DEF new, locals
<1> QED
  BY <1>1, <1>2, <1>3, SaveKeepsThose

\* What holds of a step: nothing is lost, and the database stays what it is.
Kept == \A g \in Groups : \A n \in DOMAIN over[g] :
            over[g][n] \in db' => n \in DOMAIN over'[g] /\ over'[g][n] = over[g][n]

LEMMA StepKeepsThose ==
  ASSUME "subscribe" \notin Reactions, "info" \notin Reactions, KInv, [Next]_vars
  PROVE  Kept /\ db' \subseteq Arts \cup Notices
<1>1. ASSUME over' = over, db' \subseteq db
      PROVE  Kept /\ db' \subseteq Arts \cup Notices
  BY <1>1 DEF Kept, KInv
<1>2. ASSUME NEW s \in Servers, ServerNext(s)
      PROVE  Kept /\ db' \subseteq Arts \cup Notices
  <2>1. ASSUME NEW g \in Groups, SelectGroup(s, g)
        PROVE  Kept /\ db' \subseteq Arts \cup Notices
    <3>1. CASE UNCHANGED <<spool, db>>
      BY <1>1, <3>1 DEF spool
    <3>2. CASE \E ids \in News(g) : Fetched([h \in {g} |-> ids])
      BY <3>2, FetchedKeepsThose DEF Kept
    <3> QED
      BY <2>1, <3>1, <3>2 DEF SelectGroup, CheckNewArts
  <2>2. CASE Read(s)
    BY <1>1, <2>2 DEF Read, NoteInterest, AutoSubscribe, InfoAlways, spool
  <2>3. ASSUME NEW m \in Arts, NEW gs \in SUBSET Groups, Post(s, m, gs)
        PROVE  Kept /\ db' \subseteq Arts \cup Notices
    BY <2>3, PostKeepsThose DEF Kept
  <2>4. ASSUME NEW m \in db, PostCancel(s, m)
        PROVE  Kept /\ db' \subseteq Arts \cup Notices
    BY <1>1, <2>4 DEF PostCancel, Ctrl_cancel, spool
  <2>5. CASE Idle(s) \/ Leave(s)
    BY <1>1, <2>5 DEF Idle, Leave, spool
  <2> QED
    BY <1>2, <2>1, <2>2, <2>3, <2>4, <2>5 DEF ServerNext
<1>3. CASE ToolNext
  <2>1. CASE Fetch
    <3>1. PICK answered \in SUBSET (fetchlist \ Local) :
             \E new \in [answered -> UNION {News(g) : g \in answered}] :
                (\A g \in answered : new[g] \in News(g)) /\ Fetched(new)
      BY <2>1, Zenon DEF Fetch
    <3>2. PICK new \in [answered -> UNION {News(g) : g \in answered}] :
             (\A g \in answered : new[g] \in News(g)) /\ Fetched(new)
      BY <3>1
    <3>3. DOMAIN new \subseteq Groups /\ \A g \in DOMAIN new : new[g] \in News(g)
      BY <3>2 DEF KInv, IInv
    <3> QED
      BY <3>2, <3>3, FetchedKeepsThose DEF Kept
  <2>2. CASE Expire
    BY <2>2, ExpireKeepsThose DEF Kept
  <2>3. CASE Online_set
    BY <1>1, <2>3 DEF Online_set, spool
  <2>4. ASSUME NEW g \in Groups, Subscribe(g) \/ Unsubscribe(g)
        PROVE  Kept /\ db' \subseteq Arts \cup Notices
    BY <1>1, <2>4 DEF Subscribe, Unsubscribe, spool
  <2>5. ASSUME NEW m \in db, Cancel(m)
        PROVE  Kept /\ db' \subseteq Arts \cup Notices
    BY <1>1, <2>5 DEF Cancel, Ctrl_cancel, spool
  <2> QED
    BY <1>3, <2>1, <2>2, <2>3, <2>4, <2>5 DEF ToolNext
<1>4. CASE UNCHANGED vars
  BY <1>1, <1>4 DEF vars, spool
<1> QED
  BY <1>2, <1>3, <1>4 DEF Next

\* No step of any process takes the overview of an article that stays, or gives
\* it another number: what expireContents deletes has lost its article, and
\* all others write contents that they have just read (content.c, expire.c).
THEOREM NoOverviewIsLost ==
  ASSUME "subscribe" \notin Reactions, "info" \notin Reactions
  PROVE  Spec => OverviewsKept
<1>1. Init => KInv
  BY InitIInv DEF Init, KInv
<1>2. KInv /\ [Next]_vars => KInv'
  BY NextKeeps, StepKeepsThose DEF KInv
<1>3. KInv /\ [Next]_vars =>
        [\A g \in Groups : \A n \in DOMAIN over[g] :
                       over[g][n] \in db' =>
                           n \in DOMAIN over'[g] /\ over'[g][n] = over[g][n]]_vars
  BY StepKeepsThose DEF Kept
<1> QED
  BY <1>1, <1>2, <1>3, PTL DEF Spec, OverviewsKept

-----------------------------------------------------------------------------
(* Contents and files, whatever noteInterest does.                         *)

\* A file: finitely many lines, with numbers from 1.
Lines(f) == /\ f = [n \in DOMAIN f |-> f[n]]
            /\ \A n \in DOMAIN f : n \in Nat \ {0} /\ f[n] \in Ids
            /\ \E k \in Nat : \A n \in DOMAIN f : n <= k

\* A content: its elements are numbered from 1 to last, and first is not
\* behind the end.
Counted(c) ==
    /\ c = [name |-> c.name, first |-> c.first, last |-> c.last, arts |-> c.arts]
    /\ c.name \in Groups \cup {NoGroup}
    /\ c.first \in Nat /\ c.last \in Nat /\ c.first <= c.last + 1
    /\ c.arts = [n \in DOMAIN c.arts |-> c.arts[n]]
    /\ \A n \in DOMAIN c.arts : n \in 1 .. c.last /\ c.arts[n] \in Ids

\* Its first number is that of an element, if it has any.
Tight(c) == Existing(c) # {} => c.first \in Existing(c)

LEMMA MaxOfBounded ==
  ASSUME NEW T, T \subseteq Nat, T # {}, NEW k \in Nat, \A x \in T : x <= k
  PROVE  Max(T) \in T /\ \A x \in T : x <= Max(T)
<1> DEFINE U == {i \in Nat : \A x \in T : x <= i}
           m == Min(U)
<1>1. U \subseteq Nat /\ k \in U
  OBVIOUS
<1>2. m \in U /\ \A i \in U : m <= i
  <2> HIDE DEF U
  <2> QED
    BY <1>1, MinOfNats
<1>3. m \in T
  <2>1. SUFFICES ASSUME m \notin T PROVE FALSE
    OBVIOUS
  <2> HIDE DEF m
  <2>2. m \in Nat /\ \A x \in T : x <= m /\ x # m
    BY <1>2, <2>1
  <2>3. m - 1 \in U
    <3>1. PICK x \in T : x \in Nat /\ x <= m /\ x # m
      BY <2>2
    <3>2. m - 1 \in Nat
      BY <2>2, <3>1
    <3>3. \A y \in T : y <= m - 1
      BY <2>2, <3>2
    <3> QED
      BY <3>2, <3>3
  <2> QED
    BY <1>2, <2>2, <2>3
<1> HIDE DEF m
<1>4. \A x \in T : m >= x
  BY <1>2, <1>3
<1> QED
  BY <1>3, <1>4 DEF Max

LEMMA ReadNothing ==
  ASSUME NEW g, NEW file, NEW k, DOMAIN file = {}
  PROVE  /\ Cont_read(g, file, k).first = k + 1
         /\ Cont_read(g, file, k).last = k
         /\ DOMAIN Cont_read(g, file, k).arts = {}
  BY DEF Cont_read, NoFile

LEMMA ReadCounted ==
  ASSUME NEW g \in Groups, NEW file, Lines(file), NEW k \in Nat
  PROVE  /\ Counted(Cont_read(g, file, k)) /\ Tight(Cont_read(g, file, k))
         /\ Cont_read(g, file, k).name = g
<1> DEFINE c == Cont_read(g, file, k)
<1>1. CASE DOMAIN file = {}
  <2>1. c = [name |-> g, first |-> k + 1, last |-> k, arts |-> NoFile]
    BY <1>1 DEF Cont_read
  <2>2. DOMAIN NoFile = {} /\ NoFile = [n \in DOMAIN NoFile |-> NoFile[n]]
    BY DEF NoFile
  <2> HIDE DEF c
  <2>3. Counted(c)
    BY <2>1, <2>2 DEF Counted
  <2>4. Existing(c) = {}
    BY <2>1, <2>2 DEF Existing
  <2>5. c.name = g /\ c.first = k + 1 /\ c.last = k /\ DOMAIN c.arts = {}
    BY <2>1, <2>2
  <2> QED
    BY <1>1, <2>3, <2>4, <2>5 DEF c, Tight
<1>2. CASE DOMAIN file # {}
  <2> DEFINE D == DOMAIN file
             a == Min(D)
             z == Max(D \cup {k})
  <2>1. c = [name |-> g, first |-> a, last |-> z, arts |-> file]
    BY <1>2 DEF Cont_read
  <2>2. PICK b \in Nat : \A n \in D : n <= b
    BY DEF Lines
  <2>3. D \subseteq Nat /\ D \cup {k} \subseteq Nat /\ D \cup {k} # {} /\ D # {}
    BY <1>2 DEF Lines
  <2>4. b + k \in Nat /\ \A n \in D \cup {k} : n <= b + k
    BY <2>2, <2>3
  <2> HIDE DEF D
  <2>5. a \in D /\ \A n \in D : a <= n
    BY <2>3, MinOfNats
  <2>6. z \in D \cup {k} /\ \A n \in D \cup {k} : n <= z
    BY <2>3, <2>4, MaxOfBounded
  <2> HIDE DEF a, z, c
  <2>7. \A n \in D : n \in Nat \ {0} /\ file[n] \in Ids
    BY DEF Lines, D
  <2>8. c.name = g /\ c.first = a /\ c.last = z /\ c.arts = file
        /\ c = [name |-> c.name, first |-> c.first, last |-> c.last, arts |-> c.arts]
    BY <2>1
  <2>9. file = [n \in D |-> file[n]]
    BY DEF Lines, D
  <2>10. a \in Nat \ {0} /\ z \in Nat /\ a <= z /\ \A n \in D : n \in 1 .. z
    BY <2>3, <2>5, <2>6, <2>7
  <2>11. Counted(c)
    BY <2>7, <2>8, <2>9, <2>10 DEF Counted, D
  <2>12. a \in Existing(c)
    BY <2>5, <2>8, <2>10 DEF Existing, Cont_validNumb, D
  <2> QED
    BY <1>2, <2>8, <2>11, <2>12 DEF Tight, c, a, z, D
<1> QED
  BY <1>1, <1>2

LEMMA AppCounted ==
  ASSUME NEW c, Counted(c), NEW ids, Len(ids) \in Nat,
         \A i \in 1 .. Len(ids) : ids[i] \in Ids
  PROVE  /\ Counted(Cont_app(c, ids))
         /\ Cont_app(c, ids).name = c.name /\ Cont_app(c, ids).first = c.first
         /\ Cont_app(c, ids).last = c.last + Len(ids)
         /\ DOMAIN Cont_app(c, ids).arts = DOMAIN c.arts \cup (c.last + 1) .. (c.last + Len(ids))
         /\ \A n \in (c.last + 1) .. (c.last + Len(ids)) :
               Cont_app(c, ids).arts[n] = ids[n - c.last]
<1> DEFINE arts == [n \in DOMAIN c.arts
                            \cup (c.last + 1) .. (c.last + Len(ids)) |->
                       IF n \in DOMAIN c.arts THEN c.arts[n] ELSE ids[n - c.last]]
           d == Cont_app(c, ids)
<1>1. d = [c EXCEPT !.last = c.last + Len(ids), !.arts = arts]
  BY DEF Cont_app
<1>2. \A n \in DOMAIN c.arts : n \in 1 .. c.last /\ c.arts[n] \in Ids
  BY DEF Counted
<1>3. c.last \in Nat /\ c.first \in Nat /\ c.first <= c.last + 1
  BY DEF Counted
<1>4. \A n \in DOMAIN arts : n \in 1 .. c.last + Len(ids) /\ arts[n] \in Ids
  <2>1. ASSUME NEW n \in (c.last + 1) .. (c.last + Len(ids))
        PROVE  n - c.last \in 1 .. Len(ids) /\ n \in 1 .. c.last + Len(ids)
    BY <1>3
  <2> QED
    BY <1>2, <1>3, <2>1
<1>5. /\ DOMAIN arts = DOMAIN c.arts \cup (c.last + 1) .. (c.last + Len(ids))
      /\ arts = [n \in DOMAIN arts |-> arts[n]]
      /\ \A n \in (c.last + 1) .. (c.last + Len(ids)) : arts[n] = ids[n - c.last]
  BY <1>2, <1>3
<1> HIDE DEF arts, d
<1>6. /\ d = [name |-> c.name, first |-> c.first, last |-> c.last + Len(ids), arts |-> arts]
  BY <1>1 DEF Counted
<1>7. Counted(d)
  BY <1>3, <1>4, <1>5, <1>6 DEF Counted
<1> QED
  BY <1>5, <1>6, <1>7 DEF d

LEMMA DeleteCounted ==
  ASSUME NEW c, Counted(c), NEW nums
  PROVE  Counted(Cont_delete(c, nums)) /\ Cont_delete(c, nums).name = c.name
<1> DEFINE arts == [n \in {k \in DOMAIN c.arts : ~(k \in nums /\ Cont_validNumb(c, k))} |->
                       c.arts[n]]
           d == Cont_delete(c, nums)
<1>1. d = [c EXCEPT !.arts = arts]
  BY DEF Cont_delete
<1>2. /\ arts = [n \in DOMAIN arts |-> arts[n]]
      /\ \A n \in DOMAIN arts : n \in DOMAIN c.arts /\ arts[n] = c.arts[n]
  OBVIOUS
<1> HIDE DEF arts, d
<1>3. d = [name |-> c.name, first |-> c.first, last |-> c.last, arts |-> arts]
  BY <1>1 DEF Counted
<1>4. Counted(d) /\ d.name = c.name
  BY <1>2, <1>3 DEF Counted
<1> QED
  BY <1>4 DEF d

LEMMA SavedNumbers ==
  ASSUME NEW c, Counted(c), Saved(c) # {}
  PROVE  Min(Saved(c)) \in Saved(c) /\ \A n \in Saved(c) : Min(Saved(c)) <= n
<1>1. Saved(c) \subseteq Nat
  BY DEF Counted, Saved
<1> QED
  BY <1>1, MinOfNats

\* After Cont_write first is the number of an element that was saved.
LEMMA WrittenCounted ==
  ASSUME NEW c, Counted(c)
  PROVE  /\ Counted(ContWritten(c)) /\ Tight(ContWritten(c))
         /\ ContWritten(c).name = c.name /\ ContWritten(c).last = c.last
         /\ ContWritten(c).arts = c.arts
         /\ ContWritten(c).first = IF Saved(c) = {} THEN c.last + 1 ELSE Min(Saved(c))
<1> DEFINE a == IF Saved(c) = {} THEN c.last + 1 ELSE Min(Saved(c))
           d == ContWritten(c)
<1>1. Saved(c) \subseteq DOMAIN c.arts
  BY DEF Saved
<1>2. Saved(c) # {} => a \in DOMAIN c.arts
  BY <1>1, SavedNumbers
<1>3. a \in Nat /\ a <= c.last + 1
  BY <1>2 DEF Counted
<1>4. d = [c EXCEPT !.first = a]
  BY DEF ContWritten
<1>5. Saved(c) = {} => a = c.last + 1
  OBVIOUS
<1> HIDE DEF a, d
<1>6. d = [name |-> c.name, first |-> a, last |-> c.last, arts |-> c.arts]
  BY <1>4 DEF Counted
<1>7. Counted(d)
  BY <1>3, <1>6 DEF Counted
<1>8. Tight(d)
  <2>1. CASE Saved(c) = {}
    <3>1. \A n \in DOMAIN d.arts : n \notin d.first .. d.last
      BY <1>5, <1>6, <2>1 DEF Counted
    <3>2. Existing(d) = {}
      BY <3>1 DEF Existing, Cont_validNumb
    <3> QED
      BY <3>2 DEF Tight
  <2>2. CASE Saved(c) # {}
    <3>1. a \in DOMAIN c.arts /\ a \in 1 .. c.last
      BY <1>2, <2>2 DEF Counted
    <3>2. a \in Existing(d) /\ d.first = a
      BY <1>6, <3>1 DEF Existing, Cont_validNumb
    <3> QED
      BY <3>2 DEF Tight
  <2> QED
    BY <2>1, <2>2
<1>9. d.name = c.name /\ d.last = c.last /\ d.arts = c.arts /\ d.first = a
  BY <1>6
<1> QED
  BY <1>7, <1>8, <1>9 DEF d, a

-----------------------------------------------------------------------------
(* Types, and the order of what groupinfo and the contents say.            *)

SpoolInv == /\ DOMAIN over = Groups /\ \A g \in Groups : Lines(over[g])
            /\ first \in [Groups -> Nat] /\ last \in [Groups -> Nat]
            /\ \A g \in Groups : first[g] <= last[g] + 1
            /\ numbered \in [Groups -> SUBSET (Nat \X Ids)]

CacheInv == /\ DOMAIN cont = Servers
            /\ grp \in [Servers -> Groups \cup {NoGroup}]
            /\ \A s \in Servers : /\ Counted(cont[s]) /\ Tight(cont[s])
                                  /\ grp[s] # NoGroup => cont[s].name # NoGroup

RestInv == /\ lock \in Servers \cup {NoServer}
           /\ fetchlist \subseteq Groups
           /\ online \in BOOLEAN
           /\ db \subseteq Arts \cup Notices

TInv == SpoolInv /\ CacheInv /\ RestInv

LEMMA FreshCounted ==
  ASSUME SpoolInv, NEW g \in Groups
  PROVE  Counted(Fresh(g)) /\ Fresh(g).name = g
<1>1. last[g] \in Nat /\ Lines(over[g])
  BY DEF SpoolInv
<1> QED
  BY <1>1, ReadCounted DEF Fresh

\* Cont_write and Grp_setFirstLast, for contents that count rightly.
LEMMA SaveCounted ==
  ASSUME SpoolInv, NEW new, DOMAIN new \subseteq Groups,
         \A g \in DOMAIN new : Counted(new[g]),
         Save(new)
  PROVE  SpoolInv'
<1>1. DOMAIN over' = Groups
  BY DEF Save
<1>2. ASSUME NEW g \in Groups
      PROVE  /\ Lines(over'[g])
             /\ first'[g] \in Nat /\ last'[g] \in Nat /\ first'[g] <= last'[g] + 1
             /\ numbered'[g] \in SUBSET (Nat \X Ids)
  <2>1. CASE g \notin DOMAIN new
    BY <2>1 DEF Save, SpoolInv
  <2>2. CASE g \in DOMAIN new
    <3> DEFINE c == new[g]
               f == [n \in Saved(c) |-> c.arts[n]]
               added == {<<n, c.arts[n]>> : n \in Saved(c)}
    <3>1. /\ over'[g] = f
          /\ first'[g] = ContWritten(c).first
          /\ last'[g] = c.last
          /\ numbered'[g] = numbered[g] \cup added
      BY <2>2 DEF Save, Cont_write
    <3>2. Counted(c) /\ Counted(ContWritten(c)) /\ ContWritten(c).last = c.last
      BY <2>2, WrittenCounted
    <3>3. \A n \in Saved(c) : n \in Nat \ {0} /\ n <= c.last /\ c.arts[n] \in Ids
      BY <3>2 DEF Saved, Counted
    <3>4. c.last \in Nat
      BY <3>2 DEF Counted
    <3>5. Lines(f)
      <4>1. /\ f = [n \in DOMAIN f |-> f[n]]
            /\ \A n \in DOMAIN f : n \in Nat \ {0} /\ n <= c.last /\ f[n] \in Ids
        BY <3>3
      <4> HIDE DEF f, c
      <4> QED
        BY <3>4, <4>1 DEF Lines
    <3>6. numbered'[g] \in SUBSET (Nat \X Ids)
      <4>1. added \subseteq Nat \X Ids
        BY <3>3
      <4> QED
        BY <3>1, <4>1 DEF SpoolInv
    <3>7. first'[g] \in Nat /\ last'[g] \in Nat /\ first'[g] <= last'[g] + 1
      BY <3>1, <3>2 DEF Counted
    <3> QED
      BY <3>1, <3>5, <3>6, <3>7
  <2> QED
    BY <2>1, <2>2
<1>3. /\ first' = [g \in Groups |-> first'[g]]
      /\ last' = [g \in Groups |-> last'[g]]
      /\ numbered' = [g \in Groups |-> numbered'[g]]
  BY DEF Save
<1> QED
  BY <1>1, <1>2, <1>3 DEF SpoolInv

LEMMA ReadContCounted ==
  ASSUME NEW g \in Groups, NEW file, Lines(file), NEW k \in Nat
  PROVE  /\ Counted(ReadCont(g, file, k)) /\ Tight(ReadCont(g, file, k))
         /\ ReadCont(g, file, k).name = g
<1> DEFINE c == Cont_read(g, file, k)
           d == Cont_app(c, <<GenInfo>>)
<1>1. Counted(c) /\ Tight(c) /\ c.name = g
  BY ReadCounted
<1>2. Len(<<GenInfo>>) = 1 /\ \A i \in 1 .. Len(<<GenInfo>>) : <<GenInfo>>[i] \in Ids
  BY DEF Ids
<1>3. /\ Counted(d) /\ d.name = g /\ d.first = c.first /\ d.last = c.last + 1
      /\ DOMAIN d.arts = DOMAIN c.arts \cup (c.last + 1) .. (c.last + 1)
  <2> HIDE DEF c
  <2> QED
    BY <1>1, <1>2, AppCounted
<1>4. Tight(d)
  <2>1. c.first \in Nat /\ c.last \in Nat
    BY <1>1 DEF Counted
  <2>2. CASE DOMAIN file = {}
    <3>1. c.first = k + 1 /\ c.last = k
      BY <2>2, ReadNothing
    <3> HIDE DEF c, d
    <3>2. d.first \in Existing(d)
      BY <1>3, <2>1, <3>1 DEF Existing, Cont_validNumb
    <3> QED
      BY <3>2 DEF Tight
  <2>3. CASE DOMAIN file # {}
    <3>1. c.first \in DOMAIN c.arts
      <4>1. c.first = Min(DOMAIN file) /\ c.arts = file
        BY <2>3 DEF Cont_read
      <4>2. DOMAIN file \subseteq Nat
        BY DEF Lines
      <4> QED
        BY <2>3, <4>1, <4>2, MinOfNats
    <3> HIDE DEF c, d
    <3>2. c.first \in 1 .. c.last
      BY <1>1, <3>1 DEF Counted
    <3>3. d.first \in Existing(d)
      BY <1>3, <2>1, <3>1, <3>2 DEF Existing, Cont_validNumb
    <3> QED
      BY <3>3 DEF Tight
  <2> QED
    BY <2>2, <2>3
<1>5. ReadCont(g, file, k) = c \/ ReadCont(g, file, k) = d
  BY DEF ReadCont
<1> HIDE DEF c, d
<1> QED
  BY <1>1, <1>3, <1>4, <1>5

LEMMA NewsCounts ==
  ASSUME NEW g \in Groups, NEW ids \in News(g)
  PROVE  Len(ids) \in Nat /\ \A i \in 1 .. Len(ids) : ids[i] \in Ids
<1>1. PICK k \in 0 .. MaxNew : ids \in [1 .. k -> Arts \cup FreshNotices]
  BY DEF News
<1>2. k \in Nat
  BY NewsAssumption
<1>3. ids \in Seq(Arts \cup FreshNotices)
  BY <1>1, <1>2, SeqDef
<1>4. Len(ids) \in Nat /\ DOMAIN ids = 1 .. Len(ids)
  BY <1>3, LenProperties, Zenon
<1>5. DOMAIN ids = 1 .. k
  BY <1>1
<1>6. \A i \in 1 .. k : ids[i] \in Ids
  BY <1>1 DEF Ids, FreshNotices
<1> QED
  BY <1>4, <1>5, <1>6

LEMMA FetchedCounted ==
  ASSUME SpoolInv, db \subseteq Arts \cup Notices, NEW new, DOMAIN new \subseteq Groups,
         \A g \in DOMAIN new : new[g] \in News(g),
         Fetched(new)
  PROVE  SpoolInv' /\ db' \subseteq Arts \cup Notices
<1> DEFINE contents == [g \in DOMAIN new |-> Cont_app(Fresh(g), new[g])]
<1>1. ASSUME NEW g \in DOMAIN new
      PROVE  Counted(contents[g])
  <2>1. g \in Groups
    OBVIOUS
  <2>2. Len(new[g]) \in Nat /\ \A i \in 1 .. Len(new[g]) : new[g][i] \in Ids
    BY <2>1, NewsCounts
  <2>3. Counted(Fresh(g))
    BY <2>1, FreshCounted
  <2>4. Counted(Cont_app(Fresh(g), new[g]))
    BY <2>2, <2>3, AppCounted
  <2> QED
    BY <2>4
<1>2. db' \subseteq Arts \cup Notices
  <2>1. ASSUME NEW g \in DOMAIN new
        PROVE  IdsOf(new[g]) \subseteq Arts \cup Notices
    <3>1. PICK k \in 0 .. MaxNew : new[g] \in [1 .. k -> Arts \cup FreshNotices]
      BY DEF News
    <3> QED
      BY <3>1 DEF IdsOf, FreshNotices
  <2> QED
    BY <2>1 DEF Fetched
<1>3. Save(contents) /\ DOMAIN contents = DOMAIN new
  BY DEF Fetched
<1> HIDE DEF contents
<1> QED
  BY <1>1, <1>2, <1>3, SaveCounted

LEMMA InitTyped == Init => TInv
<1> SUFFICES ASSUME Init PROVE TInv
  OBVIOUS
<1>1. DOMAIN NoFile = {} /\ NoFile = [n \in DOMAIN NoFile |-> NoFile[n]]
  BY DEF NoFile
<1>2. Lines(NoFile)
  BY <1>1 DEF Lines
<1>3. Counted(NoContent(NoGroup)) /\ Tight(NoContent(NoGroup))
  BY <1>1 DEF Counted, Tight, NoContent, Existing, Cont_validNumb
<1>4. SpoolInv
  BY <1>2 DEF Init, SpoolInv
<1>5. CacheInv
  BY <1>3 DEF Init, CacheInv
<1>6. RestInv
  BY DEF Init, RestInv
<1> QED
  BY <1>4, <1>5, <1>6 DEF TInv

\* What one server caches changes.
LEMMA CacheStep ==
  ASSUME CacheInv, NEW s \in Servers, DOMAIN cont' = Servers,
         grp' \in [Servers -> Groups \cup {NoGroup}],
         \A t \in Servers : t # s => cont'[t] = cont[t] /\ grp'[t] = grp[t],
         Counted(cont'[s]), Tight(cont'[s]),
         grp'[s] # NoGroup => cont'[s].name # NoGroup
  PROVE  CacheInv'
  BY DEF CacheInv

LEMMA SelectGroupTyped ==
  ASSUME TInv, NEW s \in Servers, NEW g \in Groups, SelectGroup(s, g)
  PROVE  TInv'
<1>1. SpoolInv' /\ db' \subseteq Arts \cup Notices
  <2>1. CASE UNCHANGED <<spool, db>>
    BY <2>1 DEF TInv, SpoolInv, RestInv, spool
  <2>2. CASE \E ids \in News(g) : Fetched([h \in {g} |-> ids])
    BY <2>2, FetchedCounted DEF TInv, RestInv
  <2> QED
    BY <2>1, <2>2 DEF SelectGroup, CheckNewArts
<1>2. cont' = [cont EXCEPT ![s] = ReadCont(g, over'[g], last'[g])]
  BY DEF SelectGroup
<1>3. cont'[s] = ReadCont(g, over'[g], last'[g])
  BY <1>2 DEF TInv, CacheInv
<1>4. Counted(cont'[s]) /\ Tight(cont'[s]) /\ cont'[s].name = g
  <2>1. PICK file, k : file = over'[g] /\ k = last'[g]
    OBVIOUS
  <2>2. Lines(file) /\ k \in Nat
    BY <1>1, <2>1 DEF SpoolInv
  <2>3. /\ Counted(ReadCont(g, file, k)) /\ Tight(ReadCont(g, file, k))
        /\ ReadCont(g, file, k).name = g
    BY <2>2, ReadContCounted
  <2> QED
    BY <1>3, <2>1, <2>3
<1>5. /\ DOMAIN cont' = Servers
      /\ grp' \in [Servers -> Groups \cup {NoGroup}]
      /\ \A t \in Servers : t # s => cont'[t] = cont[t] /\ grp'[t] = grp[t]
  BY <1>2 DEF SelectGroup, TInv, CacheInv
<1>6. CacheInv'
  BY <1>4, <1>5, CacheStep, NewsAssumption DEF TInv
<1>7. RestInv'
  BY <1>1 DEF SelectGroup, Command, TInv, RestInv
<1> QED
  BY <1>1, <1>6, <1>7 DEF TInv

LEMMA PostTyped ==
  ASSUME TInv, NEW s \in Servers, NEW m \in Arts, NEW gs, Post(s, m, gs)
  PROVE  TInv'
<1> DEFINE locals == gs \cap Local
           new == [g \in locals |-> Cont_app(Fresh(g), <<m>>)]
<1>1. Save(new) /\ DOMAIN new = locals /\ locals \subseteq Groups
  BY NewsAssumption DEF Post
<1>2. ASSUME NEW g \in locals
      PROVE  Counted(new[g]) /\ new[g].name = g
  <2>1. Counted(Fresh(g)) /\ Fresh(g).name = g
    BY <1>1, FreshCounted DEF TInv
  <2>2. Len(<<m>>) \in Nat /\ \A i \in 1 .. Len(<<m>>) : <<m>>[i] \in Ids
    BY DEF Ids
  <2> DEFINE c == Fresh(g)
             ids == <<m>>
  <2> HIDE DEF c, ids
  <2>3. Counted(Cont_app(c, ids)) /\ Cont_app(c, ids).name = c.name
    BY <2>1, <2>2, AppCounted DEF c, ids
  <2>4. new[g] = Cont_app(c, ids)
    BY DEF c, ids
  <2> QED
    BY <2>1, <2>3, <2>4 DEF c
<1>3. PICK h \in locals : cont' = [cont EXCEPT ![s] = ContWritten(new[h])]
  BY DEF Post
<1> HIDE DEF new, locals
<1>4. SpoolInv'
  BY <1>1, <1>2, SaveCounted DEF TInv
<1>5. cont'[s] = ContWritten(new[h])
  BY <1>3 DEF TInv, CacheInv
<1>6. Counted(cont'[s]) /\ Tight(cont'[s]) /\ cont'[s].name # NoGroup
  BY <1>1, <1>2, <1>5, WrittenCounted, NewsAssumption
<1>7. CacheInv'
  BY <1>3, <1>6, CacheStep DEF Post, TInv, CacheInv
<1>8. RestInv'
  BY DEF Post, Command, TInv, RestInv
<1> QED
  BY <1>4, <1>7, <1>8 DEF TInv

LEMMA ExpireTyped ==
  ASSUME TInv, Expire
  PROVE  TInv'
<1>1. PICK old \in SUBSET db, idle \in SUBSET ((Filed \cap fetchlist) \ Local) :
         \E note \in [idle -> FreshNotices] :
            /\ Save([g \in Filed |->
                        IF g \in idle
                          THEN Cont_app(Expired(g, old), <<note[g]>>)
                          ELSE Expired(g, old)])
            /\ db' = (db \ old) \cup {note[g] : g \in idle}
            /\ fetchlist' = fetchlist \ idle
  BY ZenonT(40) DEF Expire
<1>2. PICK note \in [idle -> FreshNotices] :
         /\ Save([g \in Filed |->
                     IF g \in idle
                       THEN Cont_app(Expired(g, old), <<note[g]>>)
                       ELSE Expired(g, old)])
         /\ db' = (db \ old) \cup {note[g] : g \in idle}
         /\ fetchlist' = fetchlist \ idle
  BY <1>1
<1> DEFINE new == [g \in Filed |-> IF g \in idle
                                     THEN Cont_app(Expired(g, old), <<note[g]>>)
                                     ELSE Expired(g, old)]
<1>3. ASSUME NEW g \in Filed
      PROVE  Counted(new[g])
  <2>1. g \in Groups
    BY DEF Filed
  <2>2. Counted(Expired(g, old))
    BY <2>1, FreshCounted, DeleteCounted DEF Expired, TInv
  <2>3. CASE g \in idle
    <3>1. note[g] \in Ids
      BY <2>3 DEF FreshNotices, Ids
    <3> DEFINE c == Expired(g, old)
               ids == <<note[g]>>
    <3>2. Len(ids) \in Nat /\ \A i \in 1 .. Len(ids) : ids[i] \in Ids
      BY <3>1
    <3> HIDE DEF c, ids
    <3>3. Counted(Cont_app(c, ids))
      BY <2>2, <3>2, AppCounted DEF c
    <3> QED
      BY <2>3, <3>3 DEF c, ids
  <2> QED
    BY <2>2, <2>3
<1>4. Save(new) /\ DOMAIN new \subseteq Groups /\ DOMAIN new = Filed
  BY <1>2 DEF Filed
<1>5. UNCHANGED <<lock, cont, grp, online>>
  BY DEF Expire, Tool, session
<1> HIDE DEF new
<1>6. SpoolInv'
  BY <1>3, <1>4, SaveCounted DEF TInv
<1>7. CacheInv'
  BY <1>5 DEF TInv, CacheInv
<1>8. RestInv'
  BY <1>2, <1>5 DEF TInv, RestInv, FreshNotices
<1> QED
  BY <1>6, <1>7, <1>8 DEF TInv

LEMMA FetchTyped ==
  ASSUME TInv, Fetch
  PROVE  TInv'
<1>1. PICK answered \in SUBSET (fetchlist \ Local) :
         \E new \in [answered -> UNION {News(g) : g \in answered}] :
            (\A g \in answered : new[g] \in News(g)) /\ Fetched(new)
  BY Zenon DEF Fetch
<1>2. PICK new \in [answered -> UNION {News(g) : g \in answered}] :
         (\A g \in answered : new[g] \in News(g)) /\ Fetched(new)
  BY <1>1
<1>3. DOMAIN new \subseteq Groups /\ \A g \in DOMAIN new : new[g] \in News(g)
  BY <1>2 DEF TInv, RestInv
<1>4. SpoolInv' /\ db' \subseteq Arts \cup Notices
  BY <1>2, <1>3, FetchedCounted DEF TInv, RestInv
<1>5. UNCHANGED <<lock, cont, grp, online, fetchlist>>
  BY DEF Fetch, Tool, session
<1>6. CacheInv' /\ RestInv'
  BY <1>4, <1>5 DEF TInv, CacheInv, RestInv
<1> QED
  BY <1>4, <1>6 DEF TInv

\* auto-subscribe: the content with the notice behind it.
LEMMA AutoSubscribeCounts ==
  ASSUME TInv, NEW s \in Servers, cont[s].name # NoGroup, NEW m \in FreshNotices
  PROVE  LET new == Cont_app(cont[s], <<m>>)
         IN  /\ Counted(new) /\ new.name = cont[s].name /\ new.name \in Groups
             /\ new.last = cont[s].last + 1 /\ new.last \in Saved(new)
             /\ new.arts[new.last] = m
<1> DEFINE c == cont[s]
           ids == <<m>>
           new == Cont_app(c, ids)
<1>1. Counted(c) /\ c.name \in Groups /\ c.last \in Nat
  BY DEF TInv, CacheInv, Counted
<1>2. Len(ids) = 1 /\ ids[1] = m /\ \A i \in 1 .. Len(ids) : ids[i] \in Ids
  BY DEF FreshNotices, Ids
<1> HIDE DEF c, ids
<1>3. /\ Counted(new) /\ new.name = c.name /\ new.last = c.last + 1
      /\ DOMAIN new.arts = DOMAIN c.arts \cup (c.last + 1) .. (c.last + 1)
      /\ \A n \in (c.last + 1) .. (c.last + 1) : new.arts[n] = ids[n - c.last]
  <2>1. /\ Counted(new) /\ new.name = c.name /\ new.last = c.last + Len(ids)
        /\ DOMAIN new.arts = DOMAIN c.arts \cup (c.last + 1) .. (c.last + Len(ids))
        /\ \A n \in (c.last + 1) .. (c.last + Len(ids)) : new.arts[n] = ids[n - c.last]
    <3>1. Len(ids) \in Nat
      BY <1>2
    <3> QED
      BY <1>1, <1>2, <3>1, AppCounted
  <2> QED
    BY <1>2, <2>1
<1> HIDE DEF new
<1>4. new.last \in DOMAIN new.arts /\ new.arts[new.last] = m
  BY <1>1, <1>2, <1>3
<1>5. m # GenInfo
  BY NewsAssumption DEF FreshNotices
<1>6. new.last \in Saved(new)
  BY <1>4, <1>5 DEF Saved
<1> QED
  BY <1>1, <1>3, <1>4, <1>6 DEF new, c, ids

LEMMA NoticeTyped ==
  ASSUME TInv, NEW s \in Servers, cont[s].name # NoGroup, NEW m \in FreshNotices,
         Save([h \in {Cont_app(cont[s], <<m>>).name} |-> Cont_app(cont[s], <<m>>)]),
         cont' = [cont EXCEPT ![s] = ContWritten(Cont_app(cont[s], <<m>>))],
         grp' = grp
  PROVE  SpoolInv' /\ CacheInv'
<1> DEFINE new == Cont_app(cont[s], <<m>>)
           saved == [h \in {new.name} |-> new]
<1>1. Save(saved) /\ cont' = [cont EXCEPT ![s] = ContWritten(new)]
  OBVIOUS
<1>2. Counted(new) /\ new.name \in Groups
  BY AutoSubscribeCounts
<1> HIDE DEF new
<1>3. DOMAIN saved \subseteq Groups /\ \A g \in DOMAIN saved : Counted(saved[g])
  BY <1>2
<1> HIDE DEF saved
<1>4. SpoolInv'
  BY <1>1, <1>3, SaveCounted DEF TInv
<1>5. cont'[s] = ContWritten(new)
  BY <1>1 DEF TInv, CacheInv
<1>6. Counted(cont'[s]) /\ Tight(cont'[s]) /\ cont'[s].name # NoGroup
  BY <1>2, <1>5, WrittenCounted, NewsAssumption
<1> QED
  BY <1>1, <1>4, <1>6, CacheStep DEF TInv, CacheInv

LEMMA AutoSubscribeTyped ==
  ASSUME TInv, NEW s \in Servers, AutoSubscribe(s),
         UNCHANGED <<online, grp>>, lock' = s
  PROVE  TInv'
<1>1. PICK m \in FreshNotices :
         LET new == Cont_app(cont[s], <<m>>)
         IN  /\ db' = db \cup {m}
             /\ \/ UNCHANGED <<spool, cont>>
                \/ /\ new.name # NoGroup
                   /\ Save([h \in {new.name} |-> new])
                   /\ cont' = [cont EXCEPT ![s] = ContWritten(new)]
  BY Zenon DEF AutoSubscribe, Pseudo_autoSubscribed
<1>2. SpoolInv' /\ CacheInv'
  <2>1. CASE UNCHANGED <<spool, cont>>
    BY <2>1 DEF TInv, SpoolInv, CacheInv, spool
  <2>2. CASE /\ Cont_app(cont[s], <<m>>).name # NoGroup
             /\ Save([h \in {Cont_app(cont[s], <<m>>).name} |->
                         Cont_app(cont[s], <<m>>)])
             /\ cont' = [cont EXCEPT ![s] = ContWritten(Cont_app(cont[s], <<m>>))]
    <3>1. cont[s].name # NoGroup
      BY <2>2 DEF Cont_app
    <3> QED
      BY <2>2, <3>1, NoticeTyped, Zenon
  <2> QED
    BY <1>1, <2>1, <2>2, Zenon
<1>3. fetchlist' \subseteq Groups
  BY DEF AutoSubscribe, Fetchlist_write
<1>4. db' \subseteq Arts \cup Notices
  BY <1>1 DEF TInv, RestInv, FreshNotices
<1>5. RestInv'
  BY <1>3, <1>4 DEF TInv, RestInv
<1> QED
  BY <1>2, <1>5 DEF TInv

LEMMA InfoAlwaysTyped ==
  ASSUME TInv, NEW s \in Servers, InfoAlways(s),
         UNCHANGED <<online, grp>>, lock' = s
  PROVE  TInv'
<1> DEFINE c == cont[s]
           a == IF c.first = c.last THEN c.last + 1 ELSE c.first
<1>1. /\ first' = [first EXCEPT ![c.name] = a]
      /\ last' = [last EXCEPT ![c.name] = c.last]
      /\ UNCHANGED <<over, numbered, fetchlist, db, cont>>
  BY DEF InfoAlways
<1>2. c.name \in Groups /\ c.first \in Nat /\ c.last \in Nat /\ c.first <= c.last + 1
  BY DEF InfoAlways, TInv, CacheInv, Counted
<1>3. a \in Nat /\ a <= c.last + 1
  BY <1>2
<1> HIDE DEF c, a
<1>4. SpoolInv'
  BY <1>1, <1>2, <1>3 DEF TInv, SpoolInv
<1>5. CacheInv' /\ RestInv'
  BY <1>1 DEF TInv, CacheInv, RestInv
<1> QED
  BY <1>4, <1>5 DEF TInv

LEMMA LeaveTyped ==
  ASSUME TInv, NEW s \in Servers, Leave(s)
  PROVE  TInv'
<1>1. DOMAIN NoFile = {} /\ NoFile = [n \in DOMAIN NoFile |-> NoFile[n]]
  BY DEF NoFile
<1>2. Counted(NoContent(NoGroup)) /\ Tight(NoContent(NoGroup))
  BY <1>1 DEF Counted, Tight, NoContent, Existing, Cont_validNumb
<1>3. CacheInv'
  <2>1. /\ DOMAIN cont' = Servers
        /\ grp' \in [Servers -> Groups \cup {NoGroup}]
        /\ \A t \in Servers : t # s => cont'[t] = cont[t] /\ grp'[t] = grp[t]
        /\ cont'[s] = NoContent(NoGroup) /\ grp'[s] = NoGroup
    BY DEF Leave, TInv, CacheInv
  <2> QED
    BY <1>2, <2>1, CacheStep DEF TInv
<1>4. SpoolInv' /\ RestInv'
  BY DEF Leave, TInv, SpoolInv, RestInv, spool
<1> QED
  BY <1>3, <1>4 DEF TInv

\* Steps that leave files, contents and selected groups alone.
LEMMA RestTyped ==
  ASSUME TInv, UNCHANGED <<spool, session>>, lock' \in Servers \cup {NoServer},
         fetchlist' \subseteq Groups, online' \in BOOLEAN, db' \subseteq db
  PROVE  TInv'
<1>1. SpoolInv' /\ CacheInv'
  BY DEF TInv, SpoolInv, CacheInv, spool, session
<1>2. RestInv'
  BY DEF TInv, RestInv
<1> QED
  BY <1>1, <1>2 DEF TInv

LEMMA ReadTyped ==
  ASSUME TInv, NEW s \in Servers, Read(s)
  PROVE  TInv'
<1>1. UNCHANGED <<online, grp>> /\ lock' = s
  BY DEF Read, Command
<1>2. \/ AutoSubscribe(s) \/ InfoAlways(s)
      \/ UNCHANGED <<spool, fetchlist, db, cont>>
  BY DEF Read, NoteInterest
<1>3. CASE UNCHANGED <<spool, fetchlist, db, cont>>
  BY <1>1, <1>3, RestTyped DEF TInv, RestInv, session
<1> QED
  BY <1>1, <1>2, <1>3, AutoSubscribeTyped, InfoAlwaysTyped

\* PostCancel and Idle.
LEMMA QuietTyped ==
  ASSUME TInv, NEW s \in Servers, Idle(s) \/ \E m \in db : PostCancel(s, m)
  PROVE  TInv'
<1>1. UNCHANGED <<spool, session, fetchlist, online>> /\ db' \subseteq db
  BY DEF Idle, PostCancel, Ctrl_cancel
<1>2. lock' \in Servers \cup {NoServer}
  BY DEF Idle, PostCancel, Command
<1> QED
  BY <1>1, <1>2, RestTyped DEF TInv, RestInv

LEMMA ToolTyped ==
  ASSUME TInv, ToolNext
  PROVE  TInv'
<1>1. CASE Fetch
  BY <1>1, FetchTyped
<1>2. CASE Expire
  BY <1>2, ExpireTyped
<1>3. CASE Online_set
  <2>1. UNCHANGED <<spool, session, lock, fetchlist, db>> /\ online' \in BOOLEAN
    BY <1>3, Zenon DEF Online_set, Tool
  <2> QED
    BY <2>1, RestTyped DEF TInv, RestInv
<1>4. ASSUME NEW g \in Groups, Subscribe(g) \/ Unsubscribe(g)
      PROVE  TInv'
  <2>1. UNCHANGED <<spool, session, lock, online, db>> /\ fetchlist' \subseteq Groups
    BY <1>4 DEF Subscribe, Unsubscribe, Tool, TInv, RestInv, Fetchlist_write,
                Fetchlist_add, Fetchlist_remove
  <2> QED
    BY <2>1, RestTyped DEF TInv, RestInv
<1>5. ASSUME NEW m \in db, Cancel(m)
      PROVE  TInv'
  <2>1. UNCHANGED <<spool, session, lock, online, fetchlist>> /\ db' \subseteq db
    BY <1>5 DEF Cancel, Ctrl_cancel, Tool
  <2> QED
    BY <2>1, RestTyped DEF TInv, RestInv
<1> QED
  BY <1>1, <1>2, <1>3, <1>4, <1>5 DEF ToolNext

LEMMA NextTyped ==
  ASSUME TInv, [Next]_vars
  PROVE  TInv'
<1>1. ASSUME NEW s \in Servers, ServerNext(s)
      PROVE  TInv'
  BY <1>1, SelectGroupTyped, ReadTyped, PostTyped, QuietTyped, LeaveTyped DEF ServerNext
<1>2. CASE UNCHANGED vars
  BY <1>2, RestTyped DEF vars, TInv, RestInv
<1> QED
  BY <1>1, <1>2, ToolTyped DEF Next

LEMMA TInvIsTyped == TInv => TypeOK
<1> SUFFICES ASSUME TInv PROVE TypeOK
  OBVIOUS
<1>1. \A g \in Groups : IsFile(over[g])
  BY DEF TInv, SpoolInv, Lines, IsFile
<1>2. \A s \in Servers : IsContent(cont[s])
  <2>1. ASSUME NEW c, Counted(c)
        PROVE  IsContent(c)
    BY <2>1 DEF Counted, IsContent, IsFile
  <2> QED
    BY <2>1 DEF TInv, CacheInv
<1> QED
  BY <1>1, <1>2 DEF TInv, SpoolInv, CacheInv, RestInv, TypeOK

\* Every variable keeps its type, whatever noteInterest does.
THEOREM TypeCorrect == Spec => []TypeOK
<1>1. TInv /\ [Next]_vars => TInv'
  BY NextTyped
<1> QED
  BY InitTyped, <1>1, TInvIsTyped, PTL DEF Spec

-----------------------------------------------------------------------------
(* The same with readers.                                                  *)

RInv == TInv /\ artPtr \in [Servers -> Nat]

LEMMA ExistingNumbers ==
  ASSUME NEW c, Counted(c)
  PROVE  \A n \in Existing(c) : /\ n \in DOMAIN c.arts /\ n \in 1 .. c.last /\ n \in Nat
                                /\ c.first <= n
<1>1. ASSUME NEW n \in Existing(c)
      PROVE  n \in DOMAIN c.arts /\ n \in 1 .. c.last /\ n \in Nat /\ c.first <= n
  <2>1. n \in DOMAIN c.arts /\ n \in c.first .. c.last
    BY DEF Existing, Cont_validNumb
  <2>2. c.first \in Nat /\ c.last \in Nat /\ n \in 1 .. c.last
    BY <2>1 DEF Counted
  <2> QED
    BY <2>1, <2>2
<1> QED
  BY <1>1

LEMMA WhichIdNumbers ==
  ASSUME RInv, NEW s \in Servers
  PROVE  Existing(cont[s]) \subseteq Nat /\ WhichId(s) \subseteq Nat
<1>1. Counted(cont[s]) /\ artPtr[s] \in Nat
  BY DEF RInv, TInv, CacheInv
<1>2. Existing(cont[s]) \subseteq Nat
  BY <1>1, ExistingNumbers
<1> QED
  BY <1>1, <1>2 DEF WhichId

\* The step of a reader that only gets an answer.
LEMMA AnswersTyped ==
  ASSUME RInv, NEW s \in Servers, Answers(s)
  PROVE  RInv'
<1>1. UNCHANGED <<spool, session, fetchlist, online, db>> /\ lock' = s
  BY DEF Answers, Command
<1>2. TInv'
  BY <1>1, RestTyped DEF RInv, TInv, RestInv
<1>3. Existing(cont[s]) \subseteq Nat
  BY WhichIdNumbers
<1>4. \A n \in Nat : PointTo(s, n) => artPtr' \in [Servers -> Nat]
  BY DEF PointTo, RInv
<1>5. After(cont[s], artPtr[s]) \subseteq Existing(cont[s])
      /\ Before(cont[s], artPtr[s]) \subseteq Existing(cont[s])
  BY DEF After, Before, Step
<1>6. WhichId(s) \subseteq Nat
  BY WhichIdNumbers
<1>7. CASE DoNext(s) \/ DoLast(s)
  BY <1>2, <1>3, <1>4, <1>5, <1>7 DEF DoNext, DoLast, RInv
<1>8. CASE HeadOrStat(s) \/ NoSuchArticle(s)
  BY <1>2, <1>3, <1>4, <1>6, <1>8 DEF HeadOrStat, NoSuchArticle, RInv
<1>9. CASE UNCHANGED artPtr
  BY <1>2, <1>9 DEF RInv
<1> QED
  BY <1>7, <1>8, <1>9 DEF Answers

LEMMA ReadingNextTyped ==
  ASSUME RInv, [ReadingNext]_readingVars
  PROVE  RInv'
<1>1. \A s \in Servers, n \in Nat : PointTo(s, n) => artPtr' \in [Servers -> Nat]
  BY DEF PointTo, RInv
<1>2. ASSUME NEW s \in Servers, NEW g \in Groups, ChangeToGrp(s, g)
      PROVE  RInv'
  <2>1. TInv' /\ PointTo(s, cont'[s].first)
    BY <1>2, SelectGroupTyped DEF ChangeToGrp, RInv
  <2>2. cont'[s].first \in Nat
    BY <2>1 DEF TInv, CacheInv, Counted
  <2>3. artPtr' \in [Servers -> Nat]
    BY <2>1, <2>2 DEF PointTo, RInv
  <2> QED
    BY <2>1, <2>3 DEF RInv
<1>3. ASSUME NEW s \in Servers, ReadArticle(s)
      PROVE  RInv'
  <2>1. TInv' /\ \E n \in WhichId(s) : PointTo(s, n)
    BY <1>3, ReadTyped DEF ReadArticle, RInv
  <2>2. WhichId(s) \subseteq Nat
    BY WhichIdNumbers
  <2> QED
    BY <1>1, <2>1, <2>2 DEF RInv
<1>4. ASSUME NEW s \in Servers, Answers(s)
      PROVE  RInv'
  BY <1>4, AnswersTyped
<1>5. ASSUME NEW s \in Servers, Others(s), UNCHANGED artPtr
      PROVE  RInv'
  BY <1>5, PostTyped, QuietTyped DEF Others, RInv
<1>6. ASSUME NEW s \in Servers, Leave(s), PointTo(s, 0)
      PROVE  RInv'
  BY <1>1, <1>6, LeaveTyped DEF RInv
<1>7. CASE ToolNext /\ UNCHANGED artPtr
  BY <1>7, ToolTyped DEF RInv
<1>8. CASE UNCHANGED readingVars
  <2>1. UNCHANGED vars /\ UNCHANGED artPtr
    BY <1>8 DEF readingVars
  <2> QED
    BY <2>1, NextTyped DEF RInv
<1> QED
  BY <1>2, <1>3, <1>4, <1>5, <1>6, <1>7, <1>8 DEF ReadingNext, ReaderNext

LEMMA ReadersTyped == ReadingSpec => []RInv
<1>1. ReadingInit => RInv
  BY InitTyped DEF ReadingInit, RInv
<1>2. RInv /\ [ReadingNext]_readingVars => RInv'
  BY ReadingNextTyped
<1> QED
  BY <1>1, <1>2, PTL DEF ReadingSpec

-----------------------------------------------------------------------------
(* What XOVER, XHDR and XPAT, and LIST, tell.                              *)

LEMMA MaxOfTwo ==
  ASSUME NEW x \in Int, NEW y \in Int
  PROVE  Max({x, y}) = IF x >= y THEN x ELSE y
  BY DEF Max

LEMMA MinOfTwo ==
  ASSUME NEW x \in Int, NEW y \in Int
  PROVE  Min({x, y}) = IF x <= y THEN x ELSE y
  BY DEF Min

LEMMA RangeFields ==
  ASSUME NEW q \in Ranges
  PROVE  q.kind \in {"none", "one", "from", "span"} /\ q.a \in Nat /\ q.b \in Nat
<1>1. 0 .. MaxNew + 2 \subseteq Nat
  BY NewsAssumption
<1> QED
  BY <1>1 DEF Ranges

LEMMA RangeIsAsked ==
  ASSUME NEW c, Counted(c), NEW ptr \in Nat, NEW q \in Ranges
  PROVE  InRange(c, ptr, q) = Asked(c, ptr, q)
<1> DEFINE begin == IF q.kind = "none" THEN ptr ELSE q.a
           end == CASE q.kind = "none" -> ptr [] q.kind = "one"  -> q.a
                    [] q.kind = "from" -> c.last [] q.kind = "span" -> q.b
           f == Max({begin, c.first})
           l == Min({end, c.last})
           upTo == IF f > c.last \/ l < c.first THEN f - 1 ELSE l
<1>1. /\ q.kind \in {"none", "one", "from", "span"} /\ q.a \in Nat /\ q.b \in Nat
      /\ c.first \in Nat /\ c.last \in Nat
  BY RangeFields DEF Counted
<1>2. begin \in Nat /\ end \in Nat
  BY <1>1
<1>3. /\ f = IF begin >= c.first THEN begin ELSE c.first
      /\ l = IF end <= c.last THEN end ELSE c.last
  <2> HIDE DEF begin, end
  <2> QED
    BY <1>1, <1>2, MaxOfTwo, MinOfTwo
<1>4. InRange(c, ptr, q) = Existing(c) \cap (f .. upTo)
  BY DEF InRange, Bounds
<1> HIDE DEF f, l
<1>5. ASSUME NEW n \in Existing(c)
      PROVE  n \in f .. upTo <=> n \in begin .. end
  <2>1. n \in Nat /\ c.first <= n /\ n <= c.last
    BY <1>1, ExistingNumbers
  <2> HIDE DEF begin, end
  <2> QED
    BY <1>1, <1>2, <1>3, <2>1
<1>6. ASSUME NEW n \in Existing(c)
      PROVE  n \in begin .. end <=>
                CASE q.kind = "none" -> n = ptr
                  [] q.kind = "one"  -> n = q.a
                  [] q.kind = "from" -> n >= q.a
                  [] q.kind = "span" -> n \in q.a .. q.b
  <2>1. n \in Nat /\ n <= c.last
    BY <1>1, ExistingNumbers
  <2>2. CASE q.kind = "none"
    BY <1>1, <2>1, <2>2
  <2>3. CASE q.kind = "one"
    BY <1>1, <2>1, <2>3
  <2>4. CASE q.kind = "from"
    BY <1>1, <2>1, <2>4
  <2>5. CASE q.kind = "span"
    BY <1>1, <2>1, <2>5
  <2> QED
    BY <1>1, <2>2, <2>3, <2>4, <2>5
<1> HIDE DEF begin, end, upTo
<1> QED
  BY <1>4, <1>5, <1>6 DEF Asked

\* XHDR and XOVER tell of the articles that were asked for, of all of them and
\* of no others, whatever has been expired or cancelled (server.c:parseRange).
THEOREM RangesTellAll == ReadingSpec => []RangesAreTold
<1>1. ASSUME RInv, NEW s \in Servers, NEW q \in Ranges
      PROVE  InRange(cont[s], artPtr[s], q) = Asked(cont[s], artPtr[s], q)
  BY <1>1, RangeIsAsked DEF RInv, TInv, CacheInv
<1>2. RInv => RangesAreTold
  BY <1>1 DEF RangesAreTold, XHdr, XOver
<1> QED
  BY ReadersTyped, <1>2, PTL

LEMMA ListTells ==
  ASSUME SpoolInv, NEW g \in Groups, DOMAIN over[g] \subseteq first[g] .. last[g],
         GroupAnswer(ReadCont(g, over[g], last[g]))[1] > 0
  PROVE  /\ GroupAnswer(ReadCont(g, over[g], last[g]))[3] = ListedLast(g)
         /\ first[g] <= GroupAnswer(ReadCont(g, over[g], last[g]))[2]
<1> DEFINE D == DOMAIN over[g]
           c == Cont_read(g, over[g], last[g])
           d == Cont_app(c, <<GenInfo>>)
           r == ReadCont(g, over[g], last[g])
<1>1. /\ first[g] \in Nat /\ last[g] \in Nat /\ first[g] <= last[g] + 1
      /\ Lines(over[g])
  BY DEF SpoolInv
<1>2. /\ c.last = last[g] /\ c.first \in Nat /\ first[g] <= c.first
      /\ D = {} => c.first = last[g] + 1
  <2>1. CASE D = {}
    <3>1. c.first = last[g] + 1 /\ c.last = last[g]
      BY <2>1 DEF Cont_read
    <3> QED
      BY <1>1, <3>1
  <2>2. CASE D # {}
    <3>1. c.first = Min(D) /\ c.last = Max(D \cup {last[g]})
      BY <2>2 DEF Cont_read
    <3>2. D \subseteq Nat /\ \A n \in D : n \in 0 .. last[g] /\ first[g] <= n
      BY <1>1
    <3> HIDE DEF D, c
    <3>3. Max(D \cup {last[g]}) = last[g]
      BY <1>1, <3>2, MaxWithBound
    <3>4. Min(D) \in D
      BY <2>2, <3>2, MinOfNats
    <3> QED
      BY <2>2, <3>1, <3>2, <3>3, <3>4
  <2> QED
    BY <2>1, <2>2
<1>3. Counted(c)
  BY <1>1, ReadCounted
<1>4. d.first = c.first /\ d.last = c.last + 1
  <2>1. Len(<<GenInfo>>) = 1 /\ \A i \in 1 .. Len(<<GenInfo>>) : <<GenInfo>>[i] \in Ids
    BY DEF Ids
  <2>2. d.first = c.first /\ d.last = c.last + Len(<<GenInfo>>)
    <3> HIDE DEF c
    <3> QED
      BY <1>3, <2>1, AppCounted
  <2> QED
    BY <2>1, <2>2
<1>5. r = IF NeedsGenInfo(g) THEN d ELSE c
  BY DEF ReadCont, NeedsGenInfo
<1>6. ListedLast(g) = IF NeedsGenInfo(g) THEN last[g] + 1 ELSE last[g]
  BY DEF ListedLast
<1> HIDE DEF c, d, r
<1>7. r.last = ListedLast(g) /\ r.first = c.first
  BY <1>2, <1>4, <1>5, <1>6
<1>8. GroupAnswer(r)[1] > 0
  BY DEF r
<1>9. GroupAnswer(r) = <<r.last - r.first + 1, r.first, r.last>>
  BY <1>8 DEF GroupAnswer
<1>10. GroupAnswer(r)[3] = ListedLast(g) /\ first[g] <= GroupAnswer(r)[2]
  BY <1>2, <1>7, <1>9
<1> QED
  BY <1>10 DEF r

\* The last number that LIST ACTIVE names is the one that GROUP names when it
\* reads the group, the general info that will be waiting counted with it, and
\* its first is not behind that of GROUP (server.c, printActive).
THEOREM ListAgreesWithGroup == ReadingSpec => []ListTellsGroup
<1>1. RInv => ListTellsGroup
  BY ListTells DEF RInv, TInv, ListTellsGroup
<1> QED
  BY ReadersTyped, <1>1, PTL

-----------------------------------------------------------------------------
(* Subscriptions by reading.                                               *)

LEMMA SubscriptionTold ==
  ASSUME RInv, NEW s \in Servers, ReadArticle(s), NEW g \in fetchlist' \ fetchlist,
         NEW t \in Servers, lock' = t, cont[t].name = grp[t]
  PROVE  \E n \in DOMAIN over'[g] : /\ over'[g][n] \in Notices \cap db'
                                    /\ <<n, over'[g][n]>> \notin numbered[g]
<1>1. t = s /\ NoteInterest(s)
  BY DEF ReadArticle, Read, Command
<1>2. AutoSubscribe(s)
  BY <1>1 DEF NoteInterest, InfoAlways
<1>3. g = grp[s] /\ g \in Groups
  BY <1>2 DEF AutoSubscribe, Fetchlist_write, Fetchlist_add
<1>4. cont[s].name = g /\ g # NoGroup
  BY <1>1, <1>3, NewsAssumption
<1>5. PICK m \in FreshNotices :
         LET new == Cont_app(cont[s], <<m>>)
         IN  /\ db' = db \cup {m}
             /\ new.name # NoGroup => Save([h \in {new.name} |-> new])
  BY <1>2, Zenon DEF AutoSubscribe, Pseudo_autoSubscribed
<1> DEFINE new == Cont_app(cont[s], <<m>>)
           n == new.last
<1>6. new.name = g /\ n \in Saved(new) /\ new.arts[n] = m
  BY <1>4, AutoSubscribeCounts DEF RInv
<1>7. db' = db \cup {m} /\ Save([h \in {new.name} |-> new])
  BY <1>4, <1>5, <1>6, Zenon
<1> HIDE DEF new
<1>8. over'[g] = Cont_write(new)
  BY <1>3, <1>6, <1>7 DEF Save
<1>9. n \in DOMAIN over'[g] /\ over'[g][n] = m
  BY <1>6, <1>8 DEF Cont_write
<1>10. m \in Notices /\ <<n, m>> \notin numbered[g]
  BY <1>3 DEF FreshNotices
<1> QED
  BY <1>7, <1>9, <1>10

\* Whoever reads an article of a group that is not on the fetch list finds the
\* notice of the subscription in the same group (noteInterest, Pseudo_autoSubscribed).
THEOREM SubscriptionsAreTold == ReadingSpec => SubscriptionConfirmed
<1>1. ASSUME RInv, ReadingNext, NEW t \in Servers, NEW g \in fetchlist' \ fetchlist,
             lock' = t, cont[t].name = grp[t]
      PROVE  \E n \in DOMAIN over'[g] : /\ over'[g][n] \in Notices \cap db'
                                        /\ <<n, over'[g][n]>> \notin numbered[g]
  <2>1. ASSUME NEW s \in Servers, ReaderNext(s)
        PROVE  ReadArticle(s)
    BY <1>1, <2>1 DEF ReaderNext, ChangeToGrp, SelectGroup, Answers, Others, Post,
         PostCancel, Ctrl_cancel, Idle, Leave
  <2>2. ~ToolNext
    <3>1. ToolNext => lock' = NoServer
      BY DEF ToolNext, Fetch, Expire, Online_set, Subscribe, Unsubscribe, Cancel, Tool
    <3> QED
      BY <1>1, <3>1, NewsAssumption
  <2>3. PICK s \in Servers : ReaderNext(s)
    BY <1>1, <2>2 DEF ReadingNext
  <2> QED
    BY <1>1, <2>1, <2>3, SubscriptionTold
<1>2. RInv /\ [ReadingNext]_readingVars =>
        [\A s \in Servers : \A g \in fetchlist' \ fetchlist :
          lock' = s /\ cont[s].name = grp[s] =>
              \E n \in DOMAIN over'[g] : /\ over'[g][n] \in Notices \cap db'
                                         /\ <<n, over'[g][n]>> \notin numbered[g]]_vars
  BY <1>1 DEF readingVars
<1> QED
  BY ReadersTyped, <1>2, PTL DEF ReadingSpec, SubscriptionConfirmed

-----------------------------------------------------------------------------
(* NEXT and LAST: searches among the numbers E of the elements, from a to L. *)

\* What is in T for L + 1, and with each number for the one below, is in T.
LEMMA DownTo ==
  ASSUME NEW top \in Nat, NEW T, top \in T, \A k \in 0 .. top - 1 : k + 1 \in T => k \in T
  PROVE  0 .. top \subseteq T
<1> DEFINE Bad == {k \in 0 .. top : k \notin T}
<1>1. SUFFICES ASSUME Bad # {} PROVE FALSE
  OBVIOUS
<1>2. Bad \subseteq Nat /\ \A x \in Bad : x <= top
  OBVIOUS
<1>3. Max(Bad) \in Bad /\ \A x \in Bad : x <= Max(Bad)
  <2> HIDE DEF Bad
  <2> QED
    BY <1>1, <1>2, MaxOfBounded
<1>4. PICK k \in Bad : \A x \in Bad : x <= k
  BY <1>3
<1>5. k \in 0 .. top - 1
  BY <1>4
<1>6. k + 1 \in T
  BY <1>4, <1>5
<1> QED
  BY <1>4, <1>5, <1>6

UpStep(E, L, f) == [k \in 0 .. L + 1 |-> IF k \in E \/ k > L THEN k ELSE f[k + 1]]

LEMMA UpExists ==
  ASSUME NEW L \in Nat, NEW E, E \subseteq 1 .. L
  PROVE  \E f : f = UpStep(E, L, f)
<1> DEFINE From(k) == {e \in E \cup {L + 1} : e >= k}
           h == [k \in 0 .. L + 1 |-> Min(From(k))]
<1>1. ASSUME NEW k \in 0 .. L + 1
      PROVE  h[k] = IF k \in E \/ k > L THEN k ELSE h[k + 1]
  <2>0. \A e \in E : e \in Nat /\ e <= L
    OBVIOUS
  <2>1. From(k) \subseteq Nat /\ From(k) # {}
    <3>1. L + 1 \in From(k) /\ L + 1 \in Nat
      OBVIOUS
    <3>2. ASSUME NEW e \in From(k)
          PROVE  e \in Nat
      BY <2>0, <3>1, <3>2
    <3> HIDE DEF From
    <3> QED
      BY <3>1, <3>2
  <2>2. CASE k \in E \/ k > L
    <3>1. k \in From(k) /\ \A e \in From(k) : k <= e
      BY <2>2
    <3> HIDE DEF From
    <3>2. Min(From(k)) \in From(k) /\ \A e \in From(k) : Min(From(k)) <= e
      BY <2>1, MinOfNats
    <3>3. Min(From(k)) = k
      BY <2>1, <3>1, <3>2
    <3> QED
      BY <2>2, <3>3
  <2>3. CASE ~(k \in E \/ k > L)
    <3>1. From(k) = From(k + 1) /\ k + 1 \in 0 .. L + 1
      <4>1. k \in Int /\ k + 1 \in 0 .. L + 1
        BY <2>3
      <4>2. \A e \in E \cup {L + 1} : e \in Int /\ e # k
        BY <2>0, <2>3
      <4>3. \A e \in E \cup {L + 1} : e >= k <=> e >= k + 1
        BY <4>1, <4>2
      <4> QED
        BY <4>1, <4>3
    <3> HIDE DEF From
    <3> QED
      BY <2>3, <3>1
  <2> QED
    BY <2>2, <2>3
<1>2. h = UpStep(E, L, h)
  <2>1. h = [k \in 0 .. L + 1 |-> h[k]]
    OBVIOUS
  <2> HIDE DEF h
  <2> QED
    BY <1>1, <2>1 DEF UpStep
<1> HIDE DEF h
<1> QED
  BY <1>2

LEMMA UpFinds ==
  ASSUME NEW L \in Nat, NEW E, E \subseteq 1 .. L, NEW f, f = UpStep(E, L, f),
         NEW n \in 0 .. L + 1
  PROVE  /\ f[n] \in n .. L + 1
         /\ f[n] <= L => f[n] \in E
         /\ \A e \in E : e < n \/ f[n] <= e
<1> DEFINE P(k) == /\ f[k] \in k .. L + 1
                   /\ f[k] <= L => f[k] \in E
                   /\ \A e \in E : e < k \/ f[k] <= e
           T == {k \in 0 .. L + 1 : P(k)}
<1>1. \A k \in 0 .. L + 1 : f[k] = IF k \in E \/ k > L THEN k ELSE f[k + 1]
  BY DEF UpStep
<1>2. \A e \in E : e \in Nat /\ e <= L
  OBVIOUS
<1>3. L + 1 \in T
  BY <1>1, <1>2
<1>4. ASSUME NEW k \in 0 .. (L + 1) - 1, k + 1 \in T
      PROVE  k \in T
  <2>1. CASE k \in E \/ k > L
    BY <1>1, <1>2, <2>1
  <2>2. CASE ~(k \in E \/ k > L)
    <3>1. f[k] = f[k + 1] /\ P(k + 1)
      BY <1>1, <1>4, <2>2
    <3>2. \A e \in E : e < k \/ f[k] <= e
      BY <1>2, <2>2, <3>1
    <3> QED
      BY <3>1, <3>2
  <2> QED
    BY <2>1, <2>2
<1> HIDE DEF T
<1>5. 0 .. L + 1 \subseteq T
  BY <1>3, <1>4, DownTo
<1> QED
  BY <1>5 DEF T

DownStep(E, a, L, f) == [k \in -1 .. L |-> IF k \in E \/ k < a THEN k ELSE f[k - 1]]

LEMMA DownExists ==
  ASSUME NEW L \in Nat, NEW a \in Nat, NEW E, E \subseteq a .. L
  PROVE  \E f : f = DownStep(E, a, L, f)
<1> DEFINE To(k) == {e \in E : e <= k}
           h == [k \in -1 .. L |-> IF k < a THEN k
                                   ELSE IF To(k) = {} THEN a - 1 ELSE Max(To(k))]
<1>1. ASSUME NEW k \in -1 .. L
      PROVE  h[k] = IF k \in E \/ k < a THEN k ELSE h[k - 1]
  <2>0. \A e \in E : e \in Nat /\ a <= e /\ e <= L
    OBVIOUS
  <2>1. CASE k < a
    BY <2>1
  <2>2. CASE k >= a /\ k \in E
    <3>1. To(k) \subseteq Nat /\ k \in To(k) /\ \A e \in To(k) : e <= k
      <4>1. ASSUME NEW e \in To(k)
            PROVE  e \in Nat /\ e <= k
        BY <2>0
      <4>2. k \in To(k)
        BY <2>0, <2>2
      <4> HIDE DEF To
      <4> QED
        BY <4>1, <4>2
    <3>2. k \in Nat
      BY <2>2
    <3> HIDE DEF To
    <3>3. Max(To(k)) \in To(k) /\ \A e \in To(k) : e <= Max(To(k))
      BY <3>1, <3>2, MaxOfBounded
    <3>4. Max(To(k)) = k
      BY <3>1, <3>2, <3>3
    <3> QED
      BY <2>2, <3>1, <3>4
  <2>3. CASE k >= a /\ k \notin E
    <3>1. To(k) = To(k - 1) /\ k - 1 \in -1 .. L
      <4>1. k \in Int /\ k - 1 \in -1 .. L
        BY <2>3
      <4>2. \A e \in E : e # k
        BY <2>3
      <4>3. \A e \in E : e <= k <=> e <= k - 1
        BY <2>0, <4>1, <4>2
      <4> QED
        BY <4>1, <4>3
    <3>2. k - 1 < a => To(k) = {} /\ k - 1 = a - 1
      <4>1. ASSUME k - 1 < a
            PROVE  k = a /\ \A e \in E : ~(e <= k)
        BY <2>0, <2>3, <4>1
      <4> QED
        BY <4>1
    <3> HIDE DEF To
    <3> QED
      BY <2>3, <3>1, <3>2
  <2> QED
    BY <2>1, <2>2, <2>3
<1>2. h = DownStep(E, a, L, h)
  <2>1. h = [k \in -1 .. L |-> h[k]]
    OBVIOUS
  <2> HIDE DEF h
  <2> QED
    BY <1>1, <2>1 DEF DownStep
<1> HIDE DEF h
<1> QED
  BY <1>2

LEMMA DownFinds ==
  ASSUME NEW L \in Nat, NEW a \in Nat, NEW E, E \subseteq a .. L,
         NEW f, f = DownStep(E, a, L, f), NEW n \in 0 .. L
  PROVE  /\ f[n] \in -1 .. n
         /\ f[n] >= a => f[n] \in E
         /\ \A e \in E : n < e \/ e <= f[n]
<1> DEFINE P(k) == /\ f[k] \in -1 .. k
                   /\ f[k] >= a => f[k] \in E
                   /\ \A e \in E : k < e \/ e <= f[k]
           T == {i \in 0 .. L : P(L - i)}
<1>1. \A k \in -1 .. L : f[k] = IF k \in E \/ k < a THEN k ELSE f[k - 1]
  BY DEF DownStep
<1>2. \A e \in E : e \in Nat /\ a <= e /\ e <= L
  OBVIOUS
<1>3. ASSUME NEW k \in 0 .. L, k \in E \/ k < a \/ k = 0 \/ P(k - 1)
      PROVE  P(k)
  <2>1. CASE k \in E \/ k < a
    BY <1>1, <1>2, <2>1
  <2>2. CASE ~(k \in E \/ k < a) /\ k = 0
    <3>1. f[k] = -1
      <4>1. f[k] = f[k - 1]
        BY <1>1, <2>2
      <4>2. k - 1 = -1 /\ f[-1] = -1
        BY <1>1, <2>2
      <4> QED
        BY <4>1, <4>2
    <3>2. \A e \in E : k < e
      BY <1>2, <2>2
    <3> QED
      BY <2>2, <3>1, <3>2
  <2>3. CASE ~(k \in E \/ k < a) /\ P(k - 1)
    <3>1. f[k] = f[k - 1]
      BY <1>1, <2>3
    <3>2. \A e \in E : k < e \/ e <= f[k]
      BY <1>2, <2>3, <3>1
    <3> QED
      BY <2>3, <3>1, <3>2
  <2> QED
    BY <1>3, <2>1, <2>2, <2>3
<1> HIDE DEF P
<1>4. L \in T
  <2>1. L - L = 0 /\ P(0)
    BY <1>3
  <2> QED
    BY <2>1
<1>5. ASSUME NEW i \in 0 .. L - 1, i + 1 \in T
      PROVE  i \in T
  <2>1. P((L - i) - 1)
    BY <1>5
  <2> QED
    BY <1>3, <2>1
<1>6. 0 .. L \subseteq T
  <2> HIDE DEF T
  <2> QED
    BY <1>4, <1>5, DownTo
<1>7. P(L - (L - n)) /\ L - (L - n) = n
  BY <1>6
<1> QED
  BY <1>7 DEF P


\* The numbers of the elements, for those searches.
LEMMA Elements ==
  ASSUME NEW c, Counted(c)
  PROVE  /\ c.first \in Nat /\ c.last \in Nat
         /\ Existing(c) \subseteq 1 .. c.last
         /\ Existing(c) \subseteq c.first .. c.last
         /\ \A k : Cont_validNumb(c, k) <=> k \in Existing(c)
<1>1. c.first \in Nat /\ c.last \in Nat
  BY DEF Counted
<1>2. \A n \in Existing(c) : n \in 1 .. c.last /\ n \in Nat /\ c.first <= n
  BY ExistingNumbers
<1>3. \A k : Cont_validNumb(c, k) <=> k \in Existing(c)
  BY DEF Existing, Cont_validNumb
<1> QED
  BY <1>1, <1>2, <1>3

\* doNext stops at the first element behind n, or behind the last one.
LEMMA ForwardFinds ==
  ASSUME NEW c, Counted(c), NEW n \in Existing(c)
  PROVE  /\ Forward(c, n) \in n + 1 .. c.last + 1
         /\ Forward(c, n) <= c.last => Forward(c, n) \in Existing(c)
         /\ \A e \in Existing(c) : e < n + 1 \/ Forward(c, n) <= e
<1> DEFINE E == Existing(c)
           L == c.last
           Body(r, k) == IF Cont_validNumb(c, k) \/ k > L THEN k ELSE r[k + 1]
           from[k \in 0 .. L + 1] == IF Cont_validNumb(c, k) \/ k > L THEN k ELSE from[k + 1]
<1>1. L \in Nat /\ E \subseteq 1 .. L /\ \A k : Cont_validNumb(c, k) <=> k \in E
  BY Elements
<1>2. PICK f : f = UpStep(E, L, f)
  <2> HIDE DEF E, L
  <2> QED
    BY <1>1, UpExists
<1>3. f = [k \in 0 .. L + 1 |-> Body(f, k)]
  BY <1>1, <1>2 DEF UpStep
<1>4. from = [k \in 0 .. L + 1 |-> Body(from, k)]
  BY <1>3
<1>5. from = UpStep(E, L, from)
  <2> HIDE DEF from
  <2> QED
    BY <1>1, <1>4 DEF UpStep
<1>6. Forward(c, n) = from[n + 1]
  BY DEF Forward
<1>7. n + 1 \in 0 .. L + 1
  BY <1>1
<1> HIDE DEF from, E, L
<1>8. /\ from[n + 1] \in n + 1 .. L + 1
      /\ from[n + 1] <= L => from[n + 1] \in E
      /\ \A e \in E : e < n + 1 \/ from[n + 1] <= e
  BY <1>1, <1>5, <1>7, UpFinds
<1> QED
  BY <1>6, <1>8 DEF E, L

\* doLast stops at the first element before n, or before the first one.
LEMMA BackwardFinds ==
  ASSUME NEW c, Counted(c), NEW n \in Existing(c)
  PROVE  /\ Backward(c, n) \in -1 .. n - 1
         /\ Backward(c, n) >= c.first => Backward(c, n) \in Existing(c)
         /\ \A e \in Existing(c) : n - 1 < e \/ e <= Backward(c, n)
<1> DEFINE E == Existing(c)
           a == c.first
           L == c.last
           m == n - 1
           Body(r, k) == IF Cont_validNumb(c, k) \/ k < a THEN k ELSE r[k - 1]
           from[k \in -1 .. L] == IF Cont_validNumb(c, k) \/ k < a THEN k ELSE from[k - 1]
<1>1. a \in Nat /\ L \in Nat /\ E \subseteq 1 .. L /\ E \subseteq a .. L
      /\ \A k : Cont_validNumb(c, k) <=> k \in E
  BY Elements
<1>2. PICK f : f = DownStep(E, a, L, f)
  <2> HIDE DEF E, L, a
  <2> QED
    BY <1>1, DownExists
<1>3. f = [k \in -1 .. L |-> Body(f, k)]
  BY <1>1, <1>2 DEF DownStep
<1>4. from = [k \in -1 .. L |-> Body(from, k)]
  BY <1>3
<1>5. from = DownStep(E, a, L, from)
  <2> HIDE DEF from
  <2> QED
    BY <1>1, <1>4 DEF DownStep
<1>6. Backward(c, n) = from[m]
  BY DEF Backward
<1>7. m \in 0 .. L
  BY <1>1
<1> HIDE DEF from, E, L, a, m
<1>8. /\ from[m] \in -1 .. m
      /\ from[m] >= a => from[m] \in E
      /\ \A e \in E : m < e \/ e <= from[m]
  BY <1>1, <1>5, <1>7, DownFinds
<1> QED
  BY <1>6, <1>8 DEF E, L, a, m

\* NEXT leads to the next element, if there is one.
LEMMA AfterIsNext ==
  ASSUME NEW c, Counted(c), NEW k
  PROVE  /\ k \notin Existing(c) => After(c, k) = {}
         /\ \A m \in After(c, k) : /\ m \in Existing(c) /\ k < m
                                   /\ \A e \in Existing(c) : e <= k \/ m <= e
         /\ After(c, k) = {} => \A e \in Existing(c) : k \in Existing(c) => e <= k
<1>1. c.last \in Nat /\ Existing(c) \subseteq 1 .. c.last
      /\ \A i : Cont_validNumb(c, i) <=> i \in Existing(c)
  BY Elements
<1>2. CASE k \notin Existing(c)
  BY <1>1, <1>2 DEF After, Step
<1>3. CASE k \in Existing(c)
  <2> DEFINE m == Forward(c, k)
  <2>1. After(c, k) = {m} \cap Existing(c)
    BY <1>1, <1>3 DEF After, Step
  <2>2. /\ m \in k + 1 .. c.last + 1
        /\ m <= c.last => m \in Existing(c)
        /\ \A e \in Existing(c) : e < k + 1 \/ m <= e
    BY <1>3, ForwardFinds
  <2> HIDE DEF m
  <2>3. k \in Nat /\ m \in Nat /\ k < m /\ \A e \in Existing(c) : e \in Nat /\ e <= c.last
    BY <1>1, <1>3, <2>2
  <2>4. \A e \in Existing(c) : e <= k \/ m <= e
    BY <2>2, <2>3
  <2>5. m \notin Existing(c) => \A e \in Existing(c) : e <= k
    BY <1>1, <2>2, <2>3, <2>4
  <2>6. CASE m \in Existing(c)
    <3>1. After(c, k) = {m}
      BY <2>1, <2>6
    <3> QED
      BY <1>3, <2>3, <2>4, <2>6, <3>1
  <2>7. CASE m \notin Existing(c)
    <3>1. After(c, k) = {}
      BY <2>1, <2>7
    <3> QED
      BY <1>3, <2>5, <2>7, <3>1
  <2> QED
    BY <2>6, <2>7
<1> QED
  BY <1>2, <1>3

\* The way back.
LEMMA BeforeIsBack ==
  ASSUME NEW c, Counted(c), NEW n \in Existing(c), NEW m \in After(c, n)
  PROVE  Before(c, m) = {n}
<1> DEFINE b == Backward(c, m)
<1>1. c.first \in Nat /\ c.last \in Nat /\ Existing(c) \subseteq 1 .. c.last
      /\ Existing(c) \subseteq c.first .. c.last
      /\ \A i : Cont_validNumb(c, i) <=> i \in Existing(c)
  BY Elements
<1>2. m \in Existing(c) /\ n < m /\ \A e \in Existing(c) : e <= n \/ m <= e
  BY AfterIsNext
<1>3. /\ b \in -1 .. m - 1
      /\ b >= c.first => b \in Existing(c)
      /\ \A e \in Existing(c) : m - 1 < e \/ e <= b
  BY <1>2, BackwardFinds
<1>4. Before(c, m) = {b} \cap Existing(c)
  BY <1>1, <1>2 DEF Before, Step
<1> HIDE DEF b
<1>5. m \in Nat /\ n \in Nat /\ c.first <= n /\ b \in Int
  BY <1>1, <1>2, <1>3
<1>6. n <= b
  BY <1>2, <1>3, <1>5
<1>7. b \in Existing(c) /\ b < m
  BY <1>1, <1>3, <1>5, <1>6
<1>8. b = n
  BY <1>2, <1>5, <1>6, <1>7
<1> QED
  BY <1>4, <1>8

-----------------------------------------------------------------------------
(* The walk of NEXT from the first element to the last.                    *)

Onward(E, k) == IF k \in E THEN {e \in E : e >= k} ELSE {}

LEMMA OnwardStep ==
  ASSUME NEW c, Counted(c), NEW k \in 0 .. c.last, NEW r,
         \A j \in k + 1 .. c.last : r[j] = Onward(Existing(c), j)
  PROVE  (IF After(c, k) = {} THEN {k} \cap Existing(c)
          ELSE {k} \cup r[CHOOSE m \in After(c, k) : TRUE]) = Onward(Existing(c), k)
<1> DEFINE E == Existing(c)
           m == CHOOSE i \in After(c, k) : TRUE
<1>1. c.last \in Nat /\ E \subseteq 1 .. c.last
  BY Elements
<1>2. \A e \in E : e \in Nat /\ e <= c.last
  BY <1>1
<1>3. CASE After(c, k) = {}
  <2>1. k \in E => \A e \in E : e <= k
    BY <1>3, AfterIsNext
  <2>2. {k} \cap E = Onward(E, k)
    <3> HIDE DEF E
    <3>1. CASE k \in E
      <4>1. \A e \in E : e >= k <=> e = k
        BY <1>2, <2>1, <3>1
      <4> QED
        BY <3>1, <4>1 DEF Onward
    <3>2. CASE k \notin E
      BY <3>2 DEF Onward
    <3> QED
      BY <3>1, <3>2
  <2> QED
    BY <1>3, <2>2
<1>4. CASE After(c, k) # {}
  <2>1. m \in After(c, k)
    BY <1>4
  <2> HIDE DEF m
  <2>2. k \in E /\ m \in E /\ k < m /\ \A e \in E : e <= k \/ m <= e
    BY <1>4, <2>1, AfterIsNext
  <2>3. r[m] = Onward(E, m)
    BY <1>1, <1>2, <2>2
  <2>4. {k} \cup Onward(E, m) = Onward(E, k)
    <3> HIDE DEF E
    <3>1. \A e \in E : e >= k <=> e = k \/ e >= m
      BY <1>2, <2>2
    <3>2. Onward(E, m) = {e \in E : e >= m} /\ Onward(E, k) = {e \in E : e >= k}
      BY <2>2 DEF Onward
    <3> QED
      BY <2>2, <3>1, <3>2
  <2> QED
    BY <1>4, <2>3, <2>4 DEF m
<1> QED
  BY <1>3, <1>4

LEMMA WalkIsOnward ==
  ASSUME NEW c, Counted(c), NEW n \in 0 .. c.last
  PROVE  Walk(c, n) = Onward(Existing(c), n)
<1> DEFINE L == c.last
           E == Existing(c)
           Body(r, k) == IF After(c, k) = {} THEN {k} \cap Existing(c)
                         ELSE {k} \cup r[CHOOSE m \in After(c, k) : TRUE]
           from[k \in 0 .. L] == IF After(c, k) = {} THEN {k} \cap Existing(c)
                                 ELSE {k} \cup from[CHOOSE m \in After(c, k) : TRUE]
           h == [k \in 0 .. L |-> Onward(E, k)]
<1>1. L \in Nat
  BY Elements
<1>2. ASSUME NEW r, NEW k \in 0 .. L, \A j \in k + 1 .. L : r[j] = Onward(E, j)
      PROVE  Body(r, k) = Onward(E, k)
  BY <1>2, OnwardStep
<1>3. h = [k \in 0 .. L |-> Body(h, k)]
  <2>1. \A k \in 0 .. L : h[k] = Onward(E, k)
    OBVIOUS
  <2>2. ASSUME NEW k \in 0 .. L
        PROVE  Body(h, k) = Onward(E, k)
    <3>1. \A j \in k + 1 .. L : h[j] = Onward(E, j)
      BY <1>1, <2>1
    <3> HIDE DEF h, Body
    <3> QED
      BY <1>2, <3>1
  <2> HIDE DEF Body, E
  <2> QED
    BY <2>2
<1>4. from = [k \in 0 .. L |-> Body(from, k)]
  <2> HIDE DEF h
  <2> QED
    BY <1>3
<1>5. Walk(c, n) = from[n]
  BY DEF Walk
<1> HIDE DEF from, Body, h, L, E
<1> DEFINE T == {i \in 0 .. L : \A k \in i .. L : from[k] = Onward(E, k)}
<1>6. \A k \in 0 .. L : from[k] = Body(from, k)
  BY <1>4
<1>7. L \in T
  <2>1. \A k \in L .. L : k = L
    BY <1>1
  <2>2. Body(from, L) = Onward(E, L)
    BY <1>1, <1>2
  <2> QED
    BY <1>1, <1>6, <2>1, <2>2
<1>8. ASSUME NEW i \in 0 .. L - 1, i + 1 \in T
      PROVE  i \in T
  <2>1. i \in 0 .. L /\ \A j \in i + 1 .. L : from[j] = Onward(E, j)
    BY <1>1, <1>8
  <2>2. from[i] = Onward(E, i)
    BY <1>2, <1>6, <2>1
  <2>3. \A k \in i .. L : k = i \/ k \in i + 1 .. L
    BY <1>1
  <2> QED
    BY <2>1, <2>2, <2>3
<1>9. 0 .. L \subseteq T
  <2> HIDE DEF T
  <2> QED
    BY <1>1, <1>7, <1>8, DownTo
<1>10. n \in T /\ n \in n .. L
  BY <1>1, <1>9 DEF L
<1> QED
  BY <1>5, <1>10 DEF E

\* NEXT leads from the article that GROUP selects to every article of the
\* content, and LAST leads back the same way, whatever has been cancelled or
\* expired in between (server.c, doNext and doLast).
THEOREM NextReaches == ReadingSpec => []NextReachesAll
<1>1. ASSUME NEW c, Counted(c), Tight(c), Existing(c) # {}
      PROVE  Walk(c, c.first) = Existing(c)
  <2>1. c.first \in Existing(c)
    BY <1>1 DEF Tight
  <2>2. c.last \in Nat /\ Existing(c) \subseteq 1 .. c.last
        /\ Existing(c) \subseteq c.first .. c.last
    BY <1>1, Elements
  <2>3. c.first \in 0 .. c.last /\ \A e \in Existing(c) : e >= c.first
    BY <2>1, <2>2
  <2>4. Onward(Existing(c), c.first) = Existing(c)
    BY <2>1, <2>3 DEF Onward
  <2> QED
    BY <1>1, <2>3, <2>4, WalkIsOnward
<1>2. RInv => \A s \in Servers : Counted(cont[s]) /\ Tight(cont[s])
  BY DEF RInv, TInv, CacheInv
<1>3. RInv => NextReachesAll
  BY <1>1, <1>2, BeforeIsBack DEF NextReachesAll
<1> QED
  BY ReadersTyped, <1>3, PTL
=============================================================================
