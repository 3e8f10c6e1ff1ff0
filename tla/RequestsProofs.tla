--------------------------- MODULE RequestsProofs ---------------------------
(***************************************************************************)
(* Proofs about the articles that are marked for download, for any number  *)
(* of servers, fetching processes and articles and any batch size.  The    *)
(* inductive invariant relates the file to the lists in memory (Copies),   *)
(* the phase of a turn to what it has open (Turns), and the fetch's        *)
(* bookkeeping to the database (Answers).                                  *)
(***************************************************************************)
EXTENDS Requests, TLAPS

\* What the lock's owner is doing, and what it has in its hands.
Turns ==
  /\ lock = NoProc <=> phase = "off"
  /\ phase = "commands" => lock \in Servers
  /\ phase \in {"overviews", "requests", "replies", "failing"}
       => lock \in Fetchers
  /\ phase \in {"requests", "replies", "failing", "writing"}
       => cache[lock].loaded
  /\ phase = "writing" => cache[lock].dirty
  /\ phase \notin {"replies", "failing"} => sent = {}
  /\ phase # "failing" => failing = NoArt

\* The lists in memory and the one on disk; it takes mtimes that tell every
\* write from the one before it.
Copies ==
  /\ \A p \in Procs : p # lock => ~cache[p].dirty
  /\ \A p \in Procs : cache[p].dirty => cache[p].loaded
  /\ \A t \in Fetchers : t # lock => ~cache[t].loaded
  /\ \A p \in Procs : p # lock /\ cache[p].loaded /\ cache[p].current
                       => cache[p].ids = file
  /\ CopyIsFile

\* What is owed is still to be downloaded, and asked for in its batch.
Answers ==
  /\ \A a \in owed : Pending(art[a])
  /\ \A a \in sent : Pending(art[a])
  /\ phase \in {"replies", "failing"} /\ connected
       => batch \cap (owed \ cut) \subseteq sent
  /\ phase = "failing" => /\ failing \in Arts \ owed
                          /\ "notDownloaded" \in oldFlags
                          /\ art[failing].text = "failure"
  /\ FailedIsPending

IInv == TypeOK /\ Turns /\ Copies /\ Answers /\ ForgottenOnlyWhenCut

-----------------------------------------------------------------------------
(* What the operators return *)

LEMMA GetreqservIsList ==
  ASSUME TypeOK, NEW p \in Procs, NEW rs \in Getreqserv(p)
  PROVE  /\ rs \in Reqserv
         /\ rs.loaded
         /\ cache[p].loaded => rs = cache[p]
         /\ ~cache[p].loaded => rs.ids = file /\ ~rs.dirty
<1>1. cache[p] \in Reqserv /\ file \in SUBSET Arts
  BY DEF TypeOK
<1>2. CASE cache[p].loaded
  BY <1>1, <1>2 DEF Getreqserv
<1>3. CASE ~cache[p].loaded
  <2>1. PICK c \in BOOLEAN :
          rs = [loaded |-> TRUE, ids |-> file, dirty |-> FALSE, current |-> c]
    BY <1>3 DEF Getreqserv
  <2> QED
    BY <1>1, <1>3, <2>1 DEF Reqserv
<1> QED
  BY <1>2, <1>3

LEMMA Req_addType ==
  ASSUME NEW rs \in Reqserv, NEW a \in Arts
  PROVE  Req_add(rs, a) \in Reqserv
  BY DEF Req_add, Reqserv

LEMMA Req_removeType ==
  ASSUME NEW rs \in Reqserv, NEW as \in SUBSET Arts
  PROVE  Req_remove(rs, as) \in Reqserv
  BY DEF Req_remove, Reqserv

LEMMA OthersOutdatedType ==
  ASSUME TypeOK, NEW p \in Procs, NEW mine \in Reqserv, NEW keep
  PROVE  OthersOutdated(p, mine, keep) \in [Procs -> Reqserv]
  BY DEF TypeOK, OthersOutdated, Outdated, Reqserv

LEMMA EntryTypes ==
  ASSUME NEW e \in Entry
  PROVE  /\ \A text \in {"body", "empty", "failure"} :
              StoreArt(e, text) \in Entry
         /\ \A flags \in SUBSET Flags : SetStatus(e, flags) \in Entry
         /\ PrepareEntry \in Entry
         /\ RetrievingFailed(e) \in Entry
         /\ \A r \in Retrieved(e) : r \in Entry
<1>1. ASSUME NEW text \in {"body", "empty", "failure"}
      PROVE  StoreArt(e, text) \in Entry
  BY DEF StoreArt, Entry, Flags, Texts
<1>2. ASSUME NEW f \in Entry, NEW flags \in SUBSET Flags
      PROVE  SetStatus(f, flags) \in Entry
  BY DEF SetStatus, Entry, Flags, Texts
<1>3. PrepareEntry \in Entry
  BY DEF PrepareEntry, Entry, Flags, Texts
<1>4. RetrievingFailed(e) \in Entry
  BY <1>1, <1>2 DEF RetrievingFailed, Entry, Flags
<1>5. ASSUME NEW r \in Retrieved(e) PROVE r \in Entry
  BY <1>1, <1>4, <1>5 DEF Retrieved
<1> QED
  BY <1>1, <1>2, <1>3, <1>4, <1>5

LEMMA RetrievedFailure ==
  ASSUME NEW e \in Entry, NEW r \in Retrieved(e),
         "failed" \in e.flags => Pending(e),
         "failed" \in r.flags
  PROVE  Pending(r)
  BY DEF Retrieved, RetrievingFailed, StoreArt, SetStatus, Pending, Contains,
         Entry, Flags, Texts

LEMMA StoreFailureFacts ==
  ASSUME TypeOK, NEW a \in Arts, Pending(art[a]), StoreFailure(a)
  PROVE  /\ failing' = a
         /\ oldFlags' = art[a].flags
         /\ owed' = owed \ {a}
         /\ phase' = "failing"
         /\ art'[a] = [flags |-> {}, text |-> "failure"]
         /\ \A b \in Arts : b # a => art'[b] = art[b]
  BY DEF TypeOK, StoreFailure, StoreArt

LEMMA MalformedFacts ==
  ASSUME TypeOK, NEW a \in Arts, ShowMalformed(a)
  PROVE  /\ art' \in [Arts -> Entry] /\ cache' = cache /\ cut' = cut
         /\ owed' \subseteq owed
         /\ \A b \in Arts : \/ art'[b] = art[b]
                           \/ /\ art'[b] = [flags |-> {}, text |-> "empty"]
                              /\ b \notin owed'
<1> DEFINE none == [flags |-> {}, text |-> "empty"]
<1>1. none \in Entry
  BY DEF Entry, Flags, Texts
<1>2. CASE art' = art
  <2>1. owed' = owed /\ cache' = cache /\ cut' = cut
    BY <1>2, Zenon DEF ShowMalformed
  <2> QED BY <1>2, <2>1 DEF TypeOK
<1>3. CASE art' = [art EXCEPT ![a] = none] /\ art' # art
  <2>3. owed' = owed \ {a} /\ cache' = cache /\ cut' = cut
    BY <1>3, Zenon DEF ShowMalformed
  <2> HIDE DEF none
  <2>1. art' \in [Arts -> Entry]
    BY <1>1, <1>3 DEF TypeOK
  <2>2. \A b \in Arts : art'[b] = art[b] \/ (b = a /\ art'[b] = none)
    BY <1>3 DEF TypeOK
  <2> QED BY <2>1, <2>2, <2>3 DEF none
<1> QED BY <1>2, <1>3, Zenon DEF ShowMalformed

LEMMA RetrievedText ==
  ASSUME NEW e \in Entry, NEW r \in Retrieved(e),
         e.text = "failure" => Pending(e),
         r.text = "failure"
  PROVE  Pending(r)
  BY DEF Retrieved, RetrievingFailed, StoreArt, SetStatus, Pending, Contains,
         Entry, Flags, Texts

-----------------------------------------------------------------------------
(* Types *)

LEMMA TypeNext ==
  ASSUME TypeOK, [Next]_vars
  PROVE  TypeOK'
<1>1. ASSUME NEW s \in Servers, Open(s) PROVE TypeOK'
  BY <1>1
     DEF Open, TypeOK, fetchVars, Phases, Procs, Cleaned, NoReqserv, Reqserv
<1>2. ASSUME NEW s \in Servers, ReadBody(s) PROVE TypeOK'
  <2> SUFFICES ASSUME \A b \in Arts : ~ShowMalformed(b)
               PROVE  TypeOK'
    <3>1. ASSUME NEW b \in Arts, ShowMalformed(b)
          PROVE  TypeOK'
      BY <1>2, <3>1, MalformedFacts DEF ReadBody, TypeOK, fetchVars
    <3> QED BY <3>1
  <2>1. PICK a \in Arts : \E e \in Retrieved(art[a]) :
          ShowFailure(a, e) \/ MarkForDownload(s, a, e) \/ ShowBody(a, e)
    BY <1>2 DEF ReadBody
  <2>2. PICK e \in Retrieved(art[a]) :
          ShowFailure(a, e) \/ MarkForDownload(s, a, e) \/ ShowBody(a, e)
    BY <2>1
  <2>3. e \in Entry
    BY EntryTypes DEF TypeOK
  <2>4. SetStatus(e, e.flags \ {"failed"}) \in Entry
    BY EntryTypes, <2>3 DEF Entry
  <2>5. /\ art' \in [Arts -> Entry]
        /\ owed' \in SUBSET Arts /\ cut' \in SUBSET Arts
    BY <2>2, <2>3, <2>4 DEF TypeOK, ShowFailure, MarkForDownload, ShowBody
  <2>6. cache' \in [Procs -> Reqserv]
    BY <2>2, GetreqservIsList, Req_addType, SMTT(30)
       DEF TypeOK, ShowFailure, MarkForDownload, ShowBody, Procs
  <2> QED
    BY <1>2, <2>5, <2>6 DEF ReadBody, TypeOK, fetchVars
<1>3. ASSUME NEW t \in Fetchers, FetchOpen(t) PROVE TypeOK'
  BY <1>3 DEF FetchOpen, TypeOK, Phases, Procs
<1>4. ASSUME NEW t \in Fetchers, GetOver(t) PROVE TypeOK'
  <2>1. cache' \in [Procs -> Reqserv]
    BY <1>4, GetreqservIsList, Req_addType, SMTT(30)
       DEF GetOver, TypeOK, Procs
  <2>2. art' \in [Arts -> Entry]
    BY <1>4, EntryTypes DEF GetOver, TypeOK
  <2> QED
    BY <1>4, <2>1, <2>2 DEF GetOver, TypeOK, fetchVars
<1>5. ASSUME NEW t \in Fetchers, BreakInOver(t) PROVE TypeOK'
  BY <1>5 DEF BreakInOver, TypeOK
<1>6. ASSUME NEW t \in Fetchers, Req_first(t) PROVE TypeOK'
  <2>1. cache' \in [Procs -> Reqserv] /\ todo' \in SUBSET Arts
    BY <1>6, GetreqservIsList DEF Req_first, TypeOK, Procs, Reqserv
  <2> QED
    BY <1>6, <2>1 DEF Req_first, TypeOK, Phases
<1>7. ASSUME NEW t \in Fetchers, RetrieveArtList(t) PROVE TypeOK'
  BY <1>7 DEF RetrieveArtList, TypeOK, Phases, TakeBatch, Batches, Wanted
<1>8. ASSUME NEW t \in Fetchers, BreakInSending(t) PROVE TypeOK'
  <2>1. PICK a \in Arts : StoreFailure(a)
    BY <1>8 DEF BreakInSending, TypeOK, Wanted, Batches
  <2>2. /\ art' \in [Arts -> Entry] /\ failing' \in Arts
        /\ oldFlags' \in SUBSET Flags /\ owed' \in SUBSET Arts
    BY <2>1, EntryTypes DEF StoreFailure, TypeOK, Entry
  <2>3. phase' \in Phases
    BY <2>1 DEF StoreFailure, Phases
  <2> QED
    BY <1>8, <2>2, <2>3 DEF BreakInSending, TypeOK, TakeBatch, Batches
<1>9. ASSUME NEW t \in Fetchers, ReceiveArt(t) PROVE TypeOK'
  <2>1. art' \in [Arts -> Entry]
    BY <1>9, EntryTypes DEF ReceiveArt, TypeOK
  <2> QED
    BY <1>9, <2>1 DEF ReceiveArt, TypeOK
<1>10. ASSUME NEW t \in Fetchers, RefuseArt(t) PROVE TypeOK'
  <2>1. PICK a \in Arts : StoreFailure(a)
    BY <1>10 DEF RefuseArt, TypeOK
  <2>2. /\ art' \in [Arts -> Entry] /\ failing' \in Arts
        /\ oldFlags' \in SUBSET Flags /\ owed' \in SUBSET Arts
    BY <2>1, EntryTypes DEF StoreFailure, TypeOK, Entry
  <2>3. phase' \in Phases
    BY <2>1 DEF StoreFailure, Phases
  <2> QED
    BY <1>10, <2>2, <2>3 DEF RefuseArt, TypeOK
<1>11. ASSUME NEW t \in Fetchers, FinishFailure(t) PROVE TypeOK'
  <2>1. art' \in [Arts -> Entry]
    BY <1>11, EntryTypes DEF FinishFailure, TypeOK, Flags
  <2> QED
    BY <1>11, <2>1 DEF FinishFailure, TypeOK, Phases
<1>12. ASSUME NEW t \in Fetchers, BreakInStat(t) PROVE TypeOK'
  BY <1>12 DEF BreakInStat, TypeOK
<1>13. ASSUME NEW t \in Fetchers, BreakInText(t) PROVE TypeOK'
  <2>1. PICK a \in Arts : StoreFailure(a)
    BY <1>13 DEF BreakInText, TypeOK
  <2>2. /\ art' \in [Arts -> Entry] /\ failing' \in Arts
        /\ oldFlags' \in SUBSET Flags /\ owed' \in SUBSET Arts
    BY <2>1, EntryTypes DEF StoreFailure, TypeOK, Entry
  <2>3. phase' \in Phases
    BY <2>1 DEF StoreFailure, Phases
  <2> QED
    BY <1>13, <2>2, <2>3 DEF BreakInText, TypeOK
<1>14. ASSUME NEW t \in Fetchers, RemoveBatch(t) PROVE TypeOK'
  <2>1. cache' \in [Procs -> Reqserv]
    BY <1>14, Req_removeType DEF RemoveBatch, TypeOK, Procs
  <2> QED
    BY <1>14, <2>1 DEF RemoveBatch, TypeOK, Phases
<1>15. ASSUME NEW p \in Procs, CloseClean(p) PROVE TypeOK'
  BY <1>15 DEF CloseClean, TypeOK, Phases, NoReqserv, Reqserv
<1>16. ASSUME NEW p \in Procs, OpenForWriting(p) PROVE TypeOK'
  <2>1. cache' \in [Procs -> Reqserv]
    BY <1>16, OthersOutdatedType DEF OpenForWriting, TypeOK
  <2> QED
    BY <1>16, <2>1 DEF OpenForWriting, TypeOK, Phases
<1>17. ASSUME NEW p \in Procs, CloseWritten(p) PROVE TypeOK'
  <2>1. cache[p].ids \in SUBSET Arts
    BY DEF TypeOK, Reqserv
  <2>2. /\ NoReqserv \in Reqserv
        /\ [loaded |-> TRUE, ids |-> cache[p].ids, dirty |-> FALSE,
            current |-> TRUE] \in Reqserv
    BY <2>1 DEF NoReqserv, Reqserv
  <2>3. PICK mine \in Reqserv, keep \in SavedNow :
          cache' = OthersOutdated(p, mine, keep)
    BY <1>17, <2>2 DEF CloseWritten
  <2>4. cache' \in [Procs -> Reqserv]
    BY <2>3, OthersOutdatedType
  <2> QED
    BY <1>17, <2>1, <2>4 DEF CloseWritten, TypeOK, Phases, fetchVars
<1>18. ASSUME NEW p \in Procs, Die(p) PROVE TypeOK'
  BY <1>18 DEF Die, TypeOK, Phases, NoReqserv, Reqserv, fetchVars
<1>19. CASE Expire
  <2>1. art' \in [Arts -> Entry] /\ owed' \in SUBSET Arts
    BY <1>19 DEF Expire, TypeOK, Entry, Flags, Texts
  <2> QED
    BY <1>19, <2>1 DEF Expire, TypeOK, fetchVars
<1>21. ASSUME NEW t \in Fetchers, ReceiveMalformed(t) PROVE TypeOK'
  BY <1>21 DEF ReceiveMalformed, TypeOK
<1>20. CASE UNCHANGED vars
  BY <1>20 DEF vars, fetchVars, TypeOK
<1> QED
  BY <1>1, <1>2, <1>3, <1>4, <1>5, <1>6, <1>7, <1>8, <1>9, <1>10,
     <1>11, <1>12, <1>13, <1>14, <1>15, <1>16, <1>17, <1>18, <1>19,
     <1>20, <1>21 DEF Next, Fetch, EndTurn

-----------------------------------------------------------------------------
(* The phases of a turn *)

LEMMA TurnsNext ==
  ASSUME TypeOK, Turns, Copies, [Next]_vars
  PROVE  Turns'
<1> USE RequestsAssumption DEF Procs, Turns, TypeOK
<1>1. ASSUME NEW s \in Servers, Open(s) PROVE Turns'
  BY <1>1 DEF Open, fetchVars
<1>2. ASSUME NEW s \in Servers, ReadBody(s) PROVE Turns'
  BY <1>2 DEF ReadBody, fetchVars
<1>3. ASSUME NEW t \in Fetchers, FetchOpen(t) PROVE Turns'
  BY <1>3 DEF FetchOpen
<1>4. ASSUME NEW t \in Fetchers, GetOver(t) PROVE Turns'
  BY <1>4 DEF GetOver, fetchVars
<1>5. ASSUME NEW t \in Fetchers, BreakInOver(t) PROVE Turns'
  BY <1>5 DEF BreakInOver
<1>6. ASSUME NEW t \in Fetchers, Req_first(t) PROVE Turns'
  <2>1. cache'[t].loaded
    BY <1>6, GetreqservIsList DEF Req_first
  <2> QED
    BY <1>6, <2>1 DEF Req_first
<1>7. ASSUME NEW t \in Fetchers, RetrieveArtList(t) PROVE Turns'
  BY <1>7 DEF RetrieveArtList
<1>8. ASSUME NEW t \in Fetchers, BreakInSending(t) PROVE Turns'
  BY <1>8 DEF BreakInSending, StoreFailure
<1>9. ASSUME NEW t \in Fetchers, ReceiveArt(t) PROVE Turns'
  BY <1>9 DEF ReceiveArt
<1>10. ASSUME NEW t \in Fetchers, RefuseArt(t) PROVE Turns'
  BY <1>10 DEF RefuseArt, StoreFailure
<1>11. ASSUME NEW t \in Fetchers, FinishFailure(t) PROVE Turns'
  BY <1>11 DEF FinishFailure
<1>12. ASSUME NEW t \in Fetchers, BreakInStat(t) PROVE Turns'
  BY <1>12 DEF BreakInStat
<1>13. ASSUME NEW t \in Fetchers, BreakInText(t) PROVE Turns'
  BY <1>13 DEF BreakInText, StoreFailure
<1>14. ASSUME NEW t \in Fetchers, RemoveBatch(t) PROVE Turns'
  <2>1. cache'[t].loaded
    BY <1>14 DEF RemoveBatch, Req_remove
  <2> QED
    BY <1>14, <2>1 DEF RemoveBatch
<1>15. ASSUME NEW p \in Procs, CloseClean(p) PROVE Turns'
  BY <1>15 DEF CloseClean
<1>16. ASSUME NEW p \in Procs, OpenForWriting(p) PROVE Turns'
  <2>1. cache'[p].loaded /\ cache'[p].dirty
    BY <1>16 DEF OpenForWriting, OthersOutdated, Copies
  <2> QED
    BY <1>16, <2>1 DEF OpenForWriting
<1>17. ASSUME NEW p \in Procs, CloseWritten(p) PROVE Turns'
  BY <1>17 DEF CloseWritten, fetchVars
<1>18. ASSUME NEW p \in Procs, Die(p) PROVE Turns'
  BY <1>18 DEF Die, fetchVars
<1>19. CASE Expire
  BY <1>19 DEF Expire, fetchVars
<1>21. ASSUME NEW t \in Fetchers, ReceiveMalformed(t) PROVE Turns'
  BY <1>21 DEF ReceiveMalformed
<1>20. CASE UNCHANGED vars
  BY <1>20 DEF vars, fetchVars
<1> QED
  BY <1>1, <1>2, <1>3, <1>4, <1>5, <1>6, <1>7, <1>8, <1>9, <1>10,
     <1>11, <1>12, <1>13, <1>14, <1>15, <1>16, <1>17, <1>18, <1>19,
     <1>20, <1>21 DEF Next, Fetch, EndTurn

-----------------------------------------------------------------------------
(* The lists in memory *)

LEMMA CopiesNext ==
  ASSUME TypeOK, Turns, Copies, ~MaySameSecond, [Next]_vars
  PROVE  Copies'
<1> USE RequestsAssumption DEF Procs, TypeOK, Copies, CopyIsFile
<1>1. ASSUME NEW s \in Servers, Open(s) PROVE Copies'
  BY <1>1 DEF Open, Cleaned, NoReqserv
<1>2. ASSUME NEW s \in Servers, ReadBody(s) PROVE Copies'
  <2>1. CASE cache' = cache
    BY <1>2, <2>1 DEF ReadBody
  <2>2. ASSUME NEW a \in Arts, NEW rs \in Getreqserv(s),
               cache' = [cache EXCEPT ![s] = Req_add(rs, a)]
        PROVE  Copies'
    <3>1. cache'[s] = Req_add(rs, a) /\ rs \in Reqserv
      BY <2>2, GetreqservIsList
    <3> QED
      BY <1>2, <2>2, <3>1, GetreqservIsList DEF ReadBody, Req_add, Reqserv
  <2> QED
    BY <1>2, <2>1, <2>2
       DEF ReadBody, ShowFailure, MarkForDownload, ShowBody, ShowMalformed
<1>3. ASSUME NEW t \in Fetchers, FetchOpen(t) PROVE Copies'
  BY <1>3 DEF FetchOpen
<1>4. ASSUME NEW t \in Fetchers, GetOver(t) PROVE Copies'
  <2>1. CASE cache' = cache
    BY <1>4, <2>1 DEF GetOver
  <2>2. ASSUME NEW a \in Arts, NEW rs \in Getreqserv(t),
               cache' = [cache EXCEPT ![t] = Req_add(rs, a)]
        PROVE  Copies'
    <3>1. cache'[t] = Req_add(rs, a) /\ rs \in Reqserv
      BY <2>2, GetreqservIsList
    <3> QED
      BY <1>4, <2>2, <3>1, GetreqservIsList DEF GetOver, Req_add, Reqserv
  <2> QED
    BY <1>4, <2>1, <2>2 DEF GetOver
<1>5. ASSUME NEW t \in Fetchers, BreakInOver(t) PROVE Copies'
  BY <1>5 DEF BreakInOver
<1>6. ASSUME NEW t \in Fetchers, Req_first(t) PROVE Copies'
  BY <1>6, GetreqservIsList DEF Req_first
<1>7. ASSUME NEW t \in Fetchers, RetrieveArtList(t) PROVE Copies'
  BY <1>7 DEF RetrieveArtList
<1>8. ASSUME NEW t \in Fetchers, BreakInSending(t) PROVE Copies'
  BY <1>8 DEF BreakInSending
<1>9. ASSUME NEW t \in Fetchers, ReceiveArt(t) PROVE Copies'
  BY <1>9 DEF ReceiveArt
<1>10. ASSUME NEW t \in Fetchers, RefuseArt(t) PROVE Copies'
  BY <1>10 DEF RefuseArt
<1>11. ASSUME NEW t \in Fetchers, FinishFailure(t) PROVE Copies'
  BY <1>11 DEF FinishFailure
<1>12. ASSUME NEW t \in Fetchers, BreakInStat(t) PROVE Copies'
  BY <1>12 DEF BreakInStat
<1>13. ASSUME NEW t \in Fetchers, BreakInText(t) PROVE Copies'
  BY <1>13 DEF BreakInText
<1>14. ASSUME NEW t \in Fetchers, RemoveBatch(t) PROVE Copies'
  <2>1. cache'[t] = Req_remove(cache[t], batch)
    BY <1>14 DEF RemoveBatch
  <2> QED
    BY <1>14, <2>1 DEF RemoveBatch, Req_remove, Turns, Reqserv
<1>15. ASSUME NEW p \in Procs, CloseClean(p) PROVE Copies'
  BY <1>15 DEF CloseClean, NoReqserv
<1>16. ASSUME NEW p \in Procs, OpenForWriting(p) PROVE Copies'
  BY <1>16 DEF OpenForWriting, OthersOutdated, Outdated, SavedNow
<1>17. ASSUME NEW p \in Procs, CloseWritten(p) PROVE Copies'
  BY <1>17 DEF CloseWritten, OthersOutdated, Outdated, SavedNow, NoReqserv
<1>18. ASSUME NEW p \in Procs, Die(p) PROVE Copies'
  BY <1>18 DEF Die, NoReqserv
<1>19. CASE Expire
  BY <1>19 DEF Expire
<1>21. ASSUME NEW t \in Fetchers, ReceiveMalformed(t) PROVE Copies'
  BY <1>21 DEF ReceiveMalformed
<1>20. CASE UNCHANGED vars
  BY <1>20 DEF vars, fetchVars
<1> QED
  BY <1>1, <1>2, <1>3, <1>4, <1>5, <1>6, <1>7, <1>8, <1>9, <1>10,
     <1>11, <1>12, <1>13, <1>14, <1>15, <1>16, <1>17, <1>18, <1>19,
     <1>20, <1>21 DEF Next, Fetch, EndTurn

-----------------------------------------------------------------------------
(* The fetch and the database *)

LEMMA AnswersNext ==
  ASSUME TypeOK, Turns, Copies, Answers, [Next]_vars
  PROVE  Answers'
<1> USE RequestsAssumption DEF Procs, TypeOK, Turns, Answers
<1>1. ASSUME NEW s \in Servers, Open(s) PROVE Answers'
  BY <1>1 DEF Open, FailedIsPending, fetchVars
<1>2. ASSUME NEW s \in Servers, ReadBody(s) PROVE Answers'
  <2> SUFFICES ASSUME \A b \in Arts : ~ShowMalformed(b)
               PROVE  Answers'
    <3>1. ASSUME NEW b \in Arts, ShowMalformed(b)
          PROVE  Answers'
      <4>1. /\ cut' = cut /\ owed' \subseteq owed /\ phase' = "commands"
            /\ sent' = {} /\ sent = {} /\ art' \in [Arts -> Entry]
            /\ \A c \in Arts : \/ art'[c] = art[c]
                              \/ /\ art'[c] = [flags |-> {}, text |-> "empty"]
                                 /\ c \notin owed'
        BY <1>2, <3>1, MalformedFacts DEF ReadBody, fetchVars
      <4>2. \A c \in owed' : Pending(art'[c])
        BY <4>1
      <4>3. FailedIsPending'
        BY <4>1 DEF FailedIsPending
      <4> QED
        BY <4>1, <4>2, <4>3 DEF Pending, Contains
    <3> QED BY <3>1
  <2>1. PICK a \in Arts : \E e \in Retrieved(art[a]) :
          ShowFailure(a, e) \/ MarkForDownload(s, a, e) \/ ShowBody(a, e)
    BY <1>2 DEF ReadBody
  <2>2. PICK e \in Retrieved(art[a]) :
          ShowFailure(a, e) \/ MarkForDownload(s, a, e) \/ ShowBody(a, e)
    BY <2>1
  <2>3. "failed" \in e.flags => Pending(e)
    BY RetrievedFailure DEF FailedIsPending
  <2>4. e \in Entry
    BY EntryTypes
  <2>5. /\ "failed" \notin art'[a].flags
        /\ a \in owed' => Pending(art'[a])
    <3>1. CASE ShowFailure(a, e)
      BY <3>1, <2>3 DEF ShowFailure, SetStatus, Pending, Contains
    <3>2. CASE MarkForDownload(s, a, e)
      BY <3>2 DEF MarkForDownload
    <3>3. CASE ShowBody(a, e)
      BY <3>3 DEF ShowBody
    <3> QED
      BY <2>2, <3>1, <3>2, <3>3
  <2>6. \A b \in Arts : b # a => art'[b] = art[b] /\ (b \in owed' => b \in owed)
    BY <2>2 DEF ShowFailure, MarkForDownload, ShowBody
  <2>7. phase' = "commands" /\ sent' = {} /\ sent = {} /\ owed' \subseteq Arts
    BY <1>2, <2>2
       DEF ReadBody, fetchVars, ShowFailure, MarkForDownload, ShowBody
  <2>8. \A b \in owed' : Pending(art'[b])
    BY <2>5, <2>6, <2>7
  <2>9. FailedIsPending'
    BY <2>5, <2>6 DEF FailedIsPending
  <2> QED
    BY <2>7, <2>8, <2>9 DEF Pending, Contains
<1>3. ASSUME NEW t \in Fetchers, FetchOpen(t) PROVE Answers'
  BY <1>3 DEF FetchOpen, FailedIsPending
<1>4. ASSUME NEW t \in Fetchers, GetOver(t) PROVE Answers'
  <2> DEFINE E(a) == IF Contains(art[a]) THEN art[a] ELSE PrepareEntry
  <2>1. PICK a \in Arts : /\ art' = [art EXCEPT ![a] = E(a)]
                          /\ \/ owed' = owed
                             \/ owed' = owed \cup {a} /\ Pending(E(a))
    BY <1>4 DEF GetOver
  <2>2. PrepareEntry.flags = {"notDownloaded"} /\ Pending(PrepareEntry)
    BY DEF PrepareEntry, Pending, Contains
  <2>3. \A b \in owed' : Pending(art'[b])
    BY <2>1, <2>2
  <2>4. FailedIsPending'
    BY <2>1, <2>2 DEF FailedIsPending
  <2>5. phase' = "overviews" /\ sent' = {}
    BY <1>4 DEF GetOver, fetchVars
  <2> QED
    BY <2>3, <2>4, <2>5 DEF Pending, Contains
<1>5. ASSUME NEW t \in Fetchers, BreakInOver(t) PROVE Answers'
  BY <1>5 DEF BreakInOver, FailedIsPending
<1>6. ASSUME NEW t \in Fetchers, Req_first(t) PROVE Answers'
  BY <1>6 DEF Req_first, FailedIsPending
<1>7. ASSUME NEW t \in Fetchers, RetrieveArtList(t) PROVE Answers'
  <2>1. PICK as \in Batches : /\ TakeBatch(as)
                              /\ sent' = IF connected THEN Wanted(as) ELSE {}
    BY <1>7 DEF RetrieveArtList
  <2> QED
    BY <1>7, <2>1
       DEF RetrieveArtList, TakeBatch, Wanted, FailedIsPending, Pending,
       Contains
<1>8. ASSUME NEW t \in Fetchers, BreakInSending(t) PROVE Answers'
  <2>1. PICK a \in Arts : Pending(art[a]) /\ StoreFailure(a)
    BY <1>8 DEF BreakInSending, Wanted, Batches
  <2>2. Pending(art[a])
    BY <2>1
  <2>3. /\ failing' = a /\ oldFlags' = art[a].flags
        /\ owed' = owed \ {a} /\ phase' = "failing"
        /\ art'[a] = [flags |-> {}, text |-> "failure"]
        /\ \A b \in Arts : b # a => art'[b] = art[b]
    BY <2>1, <2>2, StoreFailureFacts
  <2>4. \A b \in owed' : Pending(art'[b])
    BY <2>3
  <2>5. FailedIsPending'
    BY <2>3 DEF FailedIsPending
  <2>6. sent' = {} /\ ~connected'
    BY <1>8, <2>1 DEF BreakInSending
  <2>7. \A b \in sent' : Pending(art'[b])
    BY <2>1, <2>3, <2>6
  <2>8. connected' => batch' \cap (owed' \ cut') \subseteq sent'
    BY <1>8, <2>1, <2>3, <2>6 DEF BreakInSending
  <2> QED
    BY <2>2, <2>3, <2>4, <2>5, <2>7, <2>8 DEF Pending, Contains
<1>9. ASSUME NEW t \in Fetchers, ReceiveArt(t) PROVE Answers'
  <2>1. PICK a \in sent, text \in {"body", "empty"} :
               /\ art' = [art EXCEPT ![a] = StoreArt(@, text)]
               /\ owed' = owed \ {a}
               /\ sent' = sent \ {a}
    BY <1>9 DEF ReceiveArt
  <2>2. "failed" \notin art'[a].flags
    BY <2>1 DEF StoreArt
  <2>3. FailedIsPending'
    BY <2>1, <2>2 DEF FailedIsPending
  <2>4. phase' = "replies" /\ connected' = connected /\ batch' = batch
    BY <1>9 DEF ReceiveArt
  <2>5. /\ \A b \in owed' : Pending(art'[b])
        /\ \A b \in sent' : Pending(art'[b])
    BY <2>1
  <2>6. batch' \cap (owed' \ cut') \subseteq sent'
    BY <1>9, <2>1, <2>4 DEF ReceiveArt
  <2> QED
    BY <2>3, <2>4, <2>5, <2>6 DEF Pending, Contains
<1>10. ASSUME NEW t \in Fetchers, RefuseArt(t) PROVE Answers'
  <2>1. PICK a \in Arts : a \in sent /\ sent' = sent \ {a} /\ StoreFailure(a)
    BY <1>10 DEF RefuseArt
  <2>2. Pending(art[a])
    BY <2>1
  <2>3. /\ failing' = a /\ oldFlags' = art[a].flags
        /\ owed' = owed \ {a} /\ phase' = "failing"
        /\ art'[a] = [flags |-> {}, text |-> "failure"]
        /\ \A b \in Arts : b # a => art'[b] = art[b]
    BY <2>1, <2>2, StoreFailureFacts
  <2>4. \A b \in owed' : Pending(art'[b])
    BY <2>3
  <2>5. FailedIsPending'
    BY <2>3 DEF FailedIsPending
  <2>6. sent' = sent \ {a}
    BY <1>10, <2>1 DEF RefuseArt
  <2>7. \A b \in sent' : Pending(art'[b])
    BY <2>1, <2>3, <2>6
  <2>8. connected' => batch' \cap (owed' \ cut') \subseteq sent'
    BY <1>10, <2>1, <2>3, <2>6 DEF RefuseArt
  <2> QED
    BY <2>2, <2>3, <2>4, <2>5, <2>7, <2>8 DEF Pending, Contains
<1>11. ASSUME NEW t \in Fetchers, FinishFailure(t) PROVE Answers'
  <2>1. /\ failing \in Arts /\ "notDownloaded" \in oldFlags
        /\ art[failing].text = "failure"
        /\ art' = [art EXCEPT ![failing] = SetStatus(@, oldFlags \cup {"failed"})]
    BY <1>11 DEF FinishFailure
  <2>2. art'[failing] = [flags |-> oldFlags \cup {"failed"}, text |-> "failure"]
    BY <2>1 DEF SetStatus, Contains
  <2>3. \A b \in Arts : Pending(art[b]) => Pending(art'[b])
    BY <2>1, <2>2 DEF Pending, Contains
  <2>4. FailedIsPending'
    BY <2>1, <2>2 DEF FailedIsPending, Pending, Contains
  <2> QED
    BY <1>11, <2>3, <2>4 DEF FinishFailure, Pending, Contains
<1>12. ASSUME NEW t \in Fetchers, BreakInStat(t) PROVE Answers'
  BY <1>12 DEF BreakInStat, FailedIsPending
<1>13. ASSUME NEW t \in Fetchers, BreakInText(t) PROVE Answers'
  <2>1. PICK a \in Arts : a \in sent /\ StoreFailure(a)
    BY <1>13 DEF BreakInText
  <2>2. Pending(art[a])
    BY <2>1
  <2>3. /\ failing' = a /\ oldFlags' = art[a].flags
        /\ owed' = owed \ {a} /\ phase' = "failing"
        /\ art'[a] = [flags |-> {}, text |-> "failure"]
        /\ \A b \in Arts : b # a => art'[b] = art[b]
    BY <2>1, <2>2, StoreFailureFacts
  <2>4. \A b \in owed' : Pending(art'[b])
    BY <2>3
  <2>5. FailedIsPending'
    BY <2>3 DEF FailedIsPending
  <2>6. sent' = {} /\ ~connected'
    BY <1>13, <2>1 DEF BreakInText
  <2>7. \A b \in sent' : Pending(art'[b])
    BY <2>1, <2>3, <2>6
  <2>8. connected' => batch' \cap (owed' \ cut') \subseteq sent'
    BY <1>13, <2>1, <2>3, <2>6 DEF BreakInText
  <2> QED
    BY <2>2, <2>3, <2>4, <2>5, <2>7, <2>8 DEF Pending, Contains
<1>14. ASSUME NEW t \in Fetchers, RemoveBatch(t) PROVE Answers'
  BY <1>14 DEF RemoveBatch, FailedIsPending
<1>15. ASSUME NEW p \in Procs, CloseClean(p) PROVE Answers'
  BY <1>15 DEF CloseClean, FailedIsPending
<1>16. ASSUME NEW p \in Procs, OpenForWriting(p) PROVE Answers'
  BY <1>16 DEF OpenForWriting, FailedIsPending
<1>17. ASSUME NEW p \in Procs, CloseWritten(p) PROVE Answers'
  BY <1>17 DEF CloseWritten, fetchVars, FailedIsPending
<1>18. ASSUME NEW p \in Procs, Die(p) PROVE Answers'
  BY <1>18 DEF Die, fetchVars, FailedIsPending
<1>19. CASE Expire
  BY <1>19 DEF Expire, FailedIsPending, fetchVars, Pending, Contains
<1>21. ASSUME NEW t \in Fetchers, ReceiveMalformed(t) PROVE Answers'
  BY <1>21 DEF ReceiveMalformed, FailedIsPending, Pending, Contains
<1>20. CASE UNCHANGED vars
  BY <1>20 DEF vars, fetchVars, FailedIsPending, Pending, Contains
<1> QED
  BY <1>1, <1>2, <1>3, <1>4, <1>5, <1>6, <1>7, <1>8, <1>9, <1>10,
     <1>11, <1>12, <1>13, <1>14, <1>15, <1>16, <1>17, <1>18, <1>19,
     <1>20, <1>21 DEF Next, Fetch, EndTurn

-----------------------------------------------------------------------------
(* What is marked is listed *)

LEMMA ForgottenNext ==
  ASSUME TypeOK, Turns, Copies, Answers, ForgottenOnlyWhenCut, [Next]_vars
  PROVE  ForgottenOnlyWhenCut'
<1> USE RequestsAssumption DEF Procs, TypeOK, ForgottenOnlyWhenCut, List
<1>1. ASSUME NEW s \in Servers, Open(s) PROVE ForgottenOnlyWhenCut'
  BY <1>1 DEF Open, Cleaned, NoReqserv, Copies
<1>2. ASSUME NEW s \in Servers, ReadBody(s) PROVE ForgottenOnlyWhenCut'
  <2>1. CASE cache' = cache /\ owed' \subseteq owed /\ cut' = cut
    BY <1>2, <2>1 DEF ReadBody
  <2>2. ASSUME NEW a \in Arts, NEW rs \in Getreqserv(s),
               cache' = [cache EXCEPT ![s] = Req_add(rs, a)],
               owed' = owed \cup {a}, cut' = cut \ {a}
        PROVE  ForgottenOnlyWhenCut'
    <3>1. List' = List \cup {a}
      BY <1>2, <2>2, GetreqservIsList DEF ReadBody, Req_add
    <3> QED
      BY <2>2, <3>1
  <2> QED
    BY <1>2, <2>1, <2>2
       DEF ReadBody, ShowFailure, MarkForDownload, ShowBody, ShowMalformed
<1>3. ASSUME NEW t \in Fetchers, FetchOpen(t) PROVE ForgottenOnlyWhenCut'
  BY <1>3 DEF FetchOpen, Copies
<1>4. ASSUME NEW t \in Fetchers, GetOver(t) PROVE ForgottenOnlyWhenCut'
  <2>1. CASE cache' = cache /\ owed' = owed /\ cut' = cut
    BY <1>4, <2>1 DEF GetOver
  <2>2. ASSUME NEW a \in Arts, NEW rs \in Getreqserv(t),
               cache' = [cache EXCEPT ![t] = Req_add(rs, a)],
               owed' \subseteq owed \cup {a}, cut' = cut \ {a}
        PROVE  ForgottenOnlyWhenCut'
    <3>1. List' = List \cup {a}
      BY <1>4, <2>2, GetreqservIsList DEF GetOver, Req_add
    <3> QED
      BY <2>2, <3>1
  <2> QED
    BY <1>4, <2>1, <2>2 DEF GetOver
<1>5. ASSUME NEW t \in Fetchers, BreakInOver(t) PROVE ForgottenOnlyWhenCut'
  BY <1>5 DEF BreakInOver
<1>6. ASSUME NEW t \in Fetchers, Req_first(t) PROVE ForgottenOnlyWhenCut'
  BY <1>6, GetreqservIsList DEF Req_first
<1>7. ASSUME NEW t \in Fetchers, RetrieveArtList(t) PROVE ForgottenOnlyWhenCut'
  BY <1>7 DEF RetrieveArtList
<1>8. ASSUME NEW t \in Fetchers, BreakInSending(t) PROVE ForgottenOnlyWhenCut'
  BY <1>8 DEF BreakInSending, StoreFailure
<1>9. ASSUME NEW t \in Fetchers, ReceiveArt(t) PROVE ForgottenOnlyWhenCut'
  BY <1>9 DEF ReceiveArt
<1>10. ASSUME NEW t \in Fetchers, RefuseArt(t) PROVE ForgottenOnlyWhenCut'
  BY <1>10 DEF RefuseArt, StoreFailure
<1>11. ASSUME NEW t \in Fetchers, FinishFailure(t) PROVE ForgottenOnlyWhenCut'
  BY <1>11 DEF FinishFailure
<1>12. ASSUME NEW t \in Fetchers, BreakInStat(t) PROVE ForgottenOnlyWhenCut'
  BY <1>12 DEF BreakInStat
<1>13. ASSUME NEW t \in Fetchers, BreakInText(t) PROVE ForgottenOnlyWhenCut'
  BY <1>13 DEF BreakInText, StoreFailure
<1>14. ASSUME NEW t \in Fetchers, RemoveBatch(t) PROVE ForgottenOnlyWhenCut'
  <2>1. List' = List \ batch
    BY <1>14 DEF RemoveBatch, Req_remove, Turns
  <2>2. owed' = owed /\ (owed \ cut') \cap batch = {}
    BY <1>14 DEF RemoveBatch, Answers
  <2> QED
    BY <2>1, <2>2, <1>14 DEF RemoveBatch
<1>15. ASSUME NEW p \in Procs, CloseClean(p) PROVE ForgottenOnlyWhenCut'
  BY <1>15 DEF CloseClean, Copies, CopyIsFile
<1>16. ASSUME NEW p \in Procs, OpenForWriting(p) PROVE ForgottenOnlyWhenCut'
  BY <1>16 DEF OpenForWriting, OthersOutdated, Copies
<1>17. ASSUME NEW p \in Procs, CloseWritten(p) PROVE ForgottenOnlyWhenCut'
  BY <1>17 DEF CloseWritten, Turns
<1>18. ASSUME NEW p \in Procs, Die(p) PROVE ForgottenOnlyWhenCut'
  BY <1>18 DEF Die
<1>19. CASE Expire
  BY <1>19 DEF Expire
<1>21. ASSUME NEW t \in Fetchers, ReceiveMalformed(t) PROVE ForgottenOnlyWhenCut'
  BY <1>21 DEF ReceiveMalformed
<1>20. CASE UNCHANGED vars
  BY <1>20 DEF vars, fetchVars
<1> QED
  BY <1>1, <1>2, <1>3, <1>4, <1>5, <1>6, <1>7, <1>8, <1>9, <1>10,
     <1>11, <1>12, <1>13, <1>14, <1>15, <1>16, <1>17, <1>18, <1>19,
     <1>20, <1>21 DEF Next, Fetch, EndTurn

-----------------------------------------------------------------------------
(* Failures, if no fetch is killed *)

LEMMA DisappearsNext ==
  ASSUME Fetchers \cap Mortal = {}, TypeOK, Turns, Copies, Answers,
         FailureIsPending, [Next]_vars
  PROVE  FailureIsPending'
<1> USE RequestsAssumption DEF Procs, TypeOK, FailureIsPending, Pending, Contains
<1>1. ASSUME NEW s \in Servers, Open(s) PROVE FailureIsPending'
  BY <1>1 DEF Open, fetchVars
<1>2. ASSUME NEW s \in Servers, ReadBody(s) PROVE FailureIsPending'
  <2> SUFFICES ASSUME \A b \in Arts : ~ShowMalformed(b)
               PROVE  FailureIsPending'
    <3>1. ASSUME NEW b \in Arts, ShowMalformed(b)
          PROVE  FailureIsPending'
      <4>1. /\ failing' = failing
            /\ \A c \in Arts : art'[c] = art[c] \/ art'[c] = [flags |-> {}, text |-> "empty"]
        BY <1>2, <3>1, MalformedFacts DEF ReadBody, fetchVars
      <4> QED
        BY <4>1
    <3> QED BY <3>1
  <2>1. PICK a \in Arts : \E e \in Retrieved(art[a]) :
          ShowFailure(a, e) \/ MarkForDownload(s, a, e) \/ ShowBody(a, e)
    BY <1>2 DEF ReadBody
  <2>2. PICK e \in Retrieved(art[a]) :
          ShowFailure(a, e) \/ MarkForDownload(s, a, e) \/ ShowBody(a, e)
    BY <2>1
  <2>3. failing = NoArt /\ failing' = NoArt
    BY <1>2 DEF ReadBody, fetchVars, Turns
  <2>4. e.text = "failure" => Pending(e)
    BY <2>3, RetrievedText
  <2>5. art'[a].text = "failure" => Pending(art'[a])
    <3>1. "failed" \in e.flags => Pending(e)
      BY RetrievedFailure DEF Answers, FailedIsPending
    <3> QED
      BY <2>2, <2>4, <3>1 DEF ShowFailure, MarkForDownload, ShowBody, SetStatus
  <2>6. \A b \in Arts : b # a => art'[b] = art[b]
    BY <2>2 DEF ShowFailure, MarkForDownload, ShowBody
  <2> QED
    BY <2>3, <2>5, <2>6
<1>3. ASSUME NEW t \in Fetchers, FetchOpen(t) PROVE FailureIsPending'
  BY <1>3 DEF FetchOpen, fetchVars
<1>4. ASSUME NEW t \in Fetchers, GetOver(t) PROVE FailureIsPending'
  <2> DEFINE E(a) == IF Contains(art[a]) THEN art[a] ELSE PrepareEntry
  <2>1. PICK a \in Arts : art' = [art EXCEPT ![a] = E(a)]
    BY <1>4 DEF GetOver
  <2>2. failing' = failing /\ PrepareEntry.text = "empty"
    BY <1>4 DEF GetOver, fetchVars, PrepareEntry
  <2> QED
    BY <2>1, <2>2
<1>5. ASSUME NEW t \in Fetchers, BreakInOver(t) PROVE FailureIsPending'
  BY <1>5 DEF BreakInOver, fetchVars
<1>6. ASSUME NEW t \in Fetchers, Req_first(t) PROVE FailureIsPending'
  BY <1>6 DEF Req_first, fetchVars
<1>7. ASSUME NEW t \in Fetchers, RetrieveArtList(t) PROVE FailureIsPending'
  BY <1>7 DEF RetrieveArtList, fetchVars
<1>8. ASSUME NEW t \in Fetchers, BreakInSending(t) PROVE FailureIsPending'
  <2>1. PICK a \in Arts : StoreFailure(a) /\ Pending(art[a])
    BY <1>8 DEF BreakInSending, Answers, Wanted, Batches
  <2>2. failing = NoArt
    BY <1>8 DEF BreakInSending, Turns
  <2> QED
    BY <2>1, <2>2, StoreFailureFacts
<1>9. ASSUME NEW t \in Fetchers, ReceiveArt(t) PROVE FailureIsPending'
  <2>1. PICK a \in sent, text \in {"body", "empty"} :
               art' = [art EXCEPT ![a] = StoreArt(@, text)]
    BY <1>9 DEF ReceiveArt
  <2>2. failing' = failing /\ art'[a].text # "failure"
    BY <1>9, <2>1 DEF ReceiveArt, StoreArt, Answers
  <2> QED
    BY <2>1, <2>2
<1>10. ASSUME NEW t \in Fetchers, RefuseArt(t) PROVE FailureIsPending'
  <2>1. PICK a \in Arts : StoreFailure(a) /\ Pending(art[a])
    BY <1>10 DEF RefuseArt, Answers, Wanted, Batches
  <2>2. failing = NoArt
    BY <1>10 DEF RefuseArt, Turns
  <2> QED
    BY <2>1, <2>2, StoreFailureFacts
<1>11. ASSUME NEW t \in Fetchers, FinishFailure(t) PROVE FailureIsPending'
  <2>1. /\ failing \in Arts /\ "notDownloaded" \in oldFlags
        /\ art' = [art EXCEPT ![failing] = SetStatus(@, oldFlags \cup {"failed"})]
        /\ failing' = NoArt
    BY <1>11 DEF FinishFailure, Answers
  <2>2. art'[failing].text = "failure" => Pending(art'[failing])
    BY <2>1 DEF SetStatus
  <2> QED
    BY <2>1, <2>2
<1>12. ASSUME NEW t \in Fetchers, BreakInStat(t) PROVE FailureIsPending'
  BY <1>12 DEF BreakInStat, fetchVars
<1>13. ASSUME NEW t \in Fetchers, BreakInText(t) PROVE FailureIsPending'
  <2>1. PICK a \in Arts : StoreFailure(a) /\ Pending(art[a])
    BY <1>13 DEF BreakInText, Answers, Wanted, Batches
  <2>2. failing = NoArt
    BY <1>13 DEF BreakInText, Turns
  <2> QED
    BY <2>1, <2>2, StoreFailureFacts
<1>14. ASSUME NEW t \in Fetchers, RemoveBatch(t) PROVE FailureIsPending'
  BY <1>14 DEF RemoveBatch, fetchVars
<1>15. ASSUME NEW p \in Procs, CloseClean(p) PROVE FailureIsPending'
  BY <1>15 DEF CloseClean, fetchVars
<1>16. ASSUME NEW p \in Procs, OpenForWriting(p) PROVE FailureIsPending'
  BY <1>16 DEF OpenForWriting, fetchVars
<1>17. ASSUME NEW p \in Procs, CloseWritten(p) PROVE FailureIsPending'
  BY <1>17 DEF CloseWritten, fetchVars
<1>18. ASSUME NEW p \in Procs, Die(p) PROVE FailureIsPending'
  BY <1>18 DEF Die, fetchVars, Turns
<1>19. CASE Expire
  BY <1>19 DEF Expire, fetchVars
<1>21. ASSUME NEW t \in Fetchers, ReceiveMalformed(t) PROVE FailureIsPending'
  BY <1>21 DEF ReceiveMalformed
<1>20. CASE UNCHANGED vars
  BY <1>20 DEF vars, fetchVars
<1> QED
  BY <1>1, <1>2, <1>3, <1>4, <1>5, <1>6, <1>7, <1>8, <1>9, <1>10,
     <1>11, <1>12, <1>13, <1>14, <1>15, <1>16, <1>17, <1>18, <1>19,
     <1>20, <1>21 DEF Next, Fetch, EndTurn

-----------------------------------------------------------------------------
(* Without a broken connection, a killed process or an article without a *)
(* body nothing is cut                                                   *)

Uncut == /\ cut = {}
         /\ phase \in {"overviews", "requests", "replies", "failing"} => connected

LEMMA UncutNext ==
  ASSUME ~MayBreak, ~MayLackBody, Mortal = {}, Uncut, [Next]_vars
  PROVE  Uncut'
<1> USE DEF Uncut
<1>1. ASSUME NEW s \in Servers, Open(s) PROVE Uncut'
  BY <1>1 DEF Open
<1>2. ASSUME NEW s \in Servers, ReadBody(s) PROVE Uncut'
  BY <1>2 DEF ReadBody, fetchVars, ShowFailure, MarkForDownload, ShowBody, ShowMalformed
<1>3. ASSUME NEW t \in Fetchers, FetchOpen(t) PROVE Uncut'
  BY <1>3 DEF FetchOpen
<1>4. ASSUME NEW t \in Fetchers, GetOver(t) PROVE Uncut'
  BY <1>4 DEF GetOver, fetchVars
<1>5. ASSUME NEW t \in Fetchers, BreakInOver(t) PROVE Uncut'
  BY <1>5 DEF BreakInOver
<1>6. ASSUME NEW t \in Fetchers, Req_first(t) PROVE Uncut'
  BY <1>6 DEF Req_first
<1>7. ASSUME NEW t \in Fetchers, RetrieveArtList(t) PROVE Uncut'
  BY <1>7 DEF RetrieveArtList
<1>8. ASSUME NEW t \in Fetchers, BreakInSending(t) PROVE Uncut'
  BY <1>8 DEF BreakInSending, StoreFailure
<1>9. ASSUME NEW t \in Fetchers, ReceiveArt(t) PROVE Uncut'
  BY <1>9 DEF ReceiveArt
<1>10. ASSUME NEW t \in Fetchers, RefuseArt(t) PROVE Uncut'
  BY <1>10 DEF RefuseArt, StoreFailure
<1>11. ASSUME NEW t \in Fetchers, FinishFailure(t) PROVE Uncut'
  BY <1>11 DEF FinishFailure
<1>12. ASSUME NEW t \in Fetchers, BreakInStat(t) PROVE Uncut'
  BY <1>12 DEF BreakInStat
<1>13. ASSUME NEW t \in Fetchers, BreakInText(t) PROVE Uncut'
  BY <1>13 DEF BreakInText, StoreFailure
<1>14. ASSUME NEW t \in Fetchers, RemoveBatch(t) PROVE Uncut'
  BY <1>14 DEF RemoveBatch
<1>15. ASSUME NEW p \in Procs, CloseClean(p) PROVE Uncut'
  BY <1>15 DEF CloseClean
<1>16. ASSUME NEW p \in Procs, OpenForWriting(p) PROVE Uncut'
  BY <1>16 DEF OpenForWriting
<1>17. ASSUME NEW p \in Procs, CloseWritten(p) PROVE Uncut'
  BY <1>17 DEF CloseWritten
<1>18. ASSUME NEW p \in Procs, Die(p) PROVE Uncut'
  BY <1>18 DEF Die
<1>19. CASE Expire
  BY <1>19 DEF Expire, fetchVars
<1>21. ASSUME NEW t \in Fetchers, ReceiveMalformed(t) PROVE Uncut'
  BY <1>21 DEF ReceiveMalformed
<1>20. CASE UNCHANGED vars
  BY <1>20 DEF vars, fetchVars
<1> QED
  BY <1>1, <1>2, <1>3, <1>4, <1>5, <1>6, <1>7, <1>8, <1>9, <1>10,
     <1>11, <1>12, <1>13, <1>14, <1>15, <1>16, <1>17, <1>18, <1>19,
     <1>20, <1>21 DEF Next, Fetch, EndTurn

-----------------------------------------------------------------------------
(* The theorems *)

LEMMA InitIInv == Init => IInv /\ FailureIsPending /\ Uncut
<1> SUFFICES ASSUME Init PROVE IInv /\ FailureIsPending /\ Uncut
  OBVIOUS
<1> USE RequestsAssumption DEF Init
<1>1. TypeOK
  BY DEF TypeOK, Phases, NoReqserv, Reqserv, Entry, Flags, Texts, Procs
<1>2. Turns
  BY DEF Turns
<1>3. Copies
  BY DEF Copies, CopyIsFile, NoReqserv, Procs
<1>4. Answers
  BY DEF Answers, FailedIsPending
<1>5. ForgottenOnlyWhenCut /\ FailureIsPending /\ Uncut
  BY DEF ForgottenOnlyWhenCut, FailureIsPending, Uncut
<1> QED
  BY <1>1, <1>2, <1>3, <1>4, <1>5 DEF IInv

LEMMA IInvNext ==
  ASSUME ~MaySameSecond, IInv, [Next]_vars
  PROVE  IInv'
  BY TypeNext, TurnsNext, CopiesNext, AnswersNext, ForgottenNext DEF IInv

\* Every variable keeps its type, lists that were written within one second
\* included (request.c, fetch.c:103-213).
THEOREM TypeCorrect == Spec => []TypeOK
<1>1. Init => TypeOK
  BY InitIInv DEF IInv
<1>2. TypeOK /\ [Next]_vars => TypeOK'
  BY TypeNext
<1> QED
  BY <1>1, <1>2, PTL DEF Spec

\* Every state has its types, and the invariant above, if list files that
\* are written one after the other have different mtimes (request.c:67-143).
THEOREM Invariance == ASSUME ~MaySameSecond PROVE Spec => []IInv
<1>1. Init => IInv
  BY InitIInv
<1>2. IInv /\ [Next]_vars => IInv'
  BY IInvNext
<1> QED
  BY <1>1, <1>2, PTL DEF Spec

\* An article that a reader or a fetch has marked stays on the list until it
\* is answered or expires, unless the connection breaks or a process is
\* killed meanwhile, or it comes without a body (Req_add, Req_close, Fetch_getReq_).
THEOREM OnlyTheCutIsForgotten ==
  ASSUME ~MaySameSecond PROVE Spec => []ForgottenOnlyWhenCut
<1>1. IInv => ForgottenOnlyWhenCut
  BY DEF IInv
<1> QED
  BY <1>1, Invariance, PTL

\* A list that a process has in memory under the lock, and has not changed,
\* is the one on disk (Req_open, cleanupReqserv, getReqserv).
THEOREM CopiesAreCurrent == ASSUME ~MaySameSecond PROVE Spec => []CopyIsFile
<1>1. IInv => CopyIsFile
  BY DEF IInv, Copies
<1> QED
  BY <1>1, Invariance, PTL

\* DB_RETRIEVING_FAILED is only ever set for an article that is still to be
\* downloaded and whose text is the failure (retrievingFailed, doBodyInDb).
THEOREM FailedArePending ==
  ASSUME ~MaySameSecond PROVE Spec => []FailedIsPending
<1>1. IInv => FailedIsPending
  BY DEF IInv, Answers
<1> QED
  BY <1>1, Invariance, PTL

\* The text of a failure never stays for good, if no fetching process is
\* killed between the two writes of retrievingFailed.
THEOREM FailuresDisappear ==
  ASSUME ~MaySameSecond, Fetchers \cap Mortal = {}
  PROVE  Spec => []FailureDisappears
<1>1. Init => FailureIsPending
  BY InitIInv
<1>2. IInv /\ FailureIsPending /\ [Next]_vars => FailureIsPending'
  BY DisappearsNext DEF IInv
<1>3. IInv /\ FailureIsPending => FailureDisappears
  BY DEF IInv, Answers, FailureDisappears
<1> QED
  BY <1>1, <1>2, <1>3, Invariance, PTL DEF Spec

\* With connections that hold, processes that live and articles that have a
\* body nothing that is marked is ever forgotten.
THEOREM NothingIsForgotten ==
  ASSUME ~MaySameSecond, ~MayBreak, ~MayLackBody, Mortal = {}
  PROVE  Spec => []NotForgotten
<1>1. Init => Uncut
  BY InitIInv
<1>2. Uncut /\ [Next]_vars => Uncut'
  BY UncutNext
<1>3. Uncut /\ ForgottenOnlyWhenCut => NotForgotten
  BY DEF Uncut, ForgottenOnlyWhenCut, NotForgotten
<1> QED
  BY <1>1, <1>2, <1>3, OnlyTheCutIsForgotten, PTL DEF Spec
=============================================================================
