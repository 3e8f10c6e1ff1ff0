------------------------------ MODULE Requests ------------------------------
(***************************************************************************)
(* The articles that are marked for download from one remote server:      *)
(* request.c keeps their message ids in SPOOLDIR/requested/SERVER and a   *)
(* copy of the list in each process, server.c adds an article that a      *)
(* reader opens, client.c one that a fetch finds in FULL or THREAD mode,  *)
(* and Fetch_getReq_ asks the remote server for the articles in batches.  *)
(*                                                                         *)
(* The servers and the fetching noffle take turns under the global lock   *)
(* (module SpoolLock); here a turn begins with Open or FetchOpen and ends *)
(* with EndTurn.  A database write lasts, a list of requests is on disk   *)
(* only after writeRequestfile.  The remote server's group is not local   *)
(* and known, so findServer always names it.                              *)
(***************************************************************************)
EXTENDS FiniteSets, Naturals

CONSTANTS Servers,        \* noffle -r, one per connected client
          Fetchers,       \* noffle --fetch
          NoProc,         \* nobody
          Arts,           \* the articles of the remote server
          NoArt,          \* none of them
          Batch,          \* ARTICLE commands sent at once (20 in the code)
          Mortal,         \* the processes that a signal may kill
          MayBreak,       \* may the connection to the remote server break?
          MayLackBody,    \* may an article come without an empty line and body?
          MaySameSecond   \* may two lists be written within a second?

Procs == Servers \cup Fetchers

ASSUME RequestsAssumption == /\ Servers \cap Fetchers = {}
                             /\ NoProc \notin Procs
                             /\ NoArt \notin Arts
                             /\ Batch \in Nat \ {0}
                             /\ Mortal \subseteq Procs
                             /\ MayBreak \in BOOLEAN
                             /\ MayLackBody \in BOOLEAN
                             /\ MaySameSecond \in BOOLEAN

VARIABLES lock,       \* the process whose turn it is
          phase,      \* what it is doing
          file,       \* the list in requested/SERVER; no file is an empty one
          cache,      \* cache[p]: the Reqserv that p has in memory
          art,        \* art[a]: the database entry of a
          connected,  \* client.connected of the fetcher
          todo,       \* what Req_next has still to return
          batch,      \* the list given to Client_retrieveArtList
          sent,       \* ARTICLE commands that wait for their answer
          failing,    \* the article retrievingFailed is busy with
          oldFlags,   \* the status it has read
          owed,       \* history: marked, not answered yet
          cut         \* history: owed when a connection or process broke,
                      \* or when the article came without a body

fetchVars == <<connected, todo, batch, sent, failing, oldFlags>>
vars == <<lock, phase, file, cache, art, fetchVars, owed, cut>>

Flags  == {"notDownloaded", "failed"}   \* DB_NOT_DOWNLOADED, DB_RETRIEVING_FAILED
Texts  == {"none",                      \* not in the database
           "empty", "failure", "body"}
Entry  == [flags : SUBSET Flags, text : Texts]
Phases == {"off", "commands", "overviews", "requests", "replies", "failing",
           "writing"}

\* A list in memory: whether there is one, its ids, whether it differs from
\* the file, and whether its mtime is the file's.
Reqserv == [loaded : BOOLEAN, ids : SUBSET Arts, dirty : BOOLEAN,
            current : BOOLEAN]

NoReqserv == [loaded |-> FALSE, ids |-> {}, dirty |-> FALSE, current |-> FALSE]

TypeOK == /\ lock \in Procs \cup {NoProc}
          /\ phase \in Phases
          /\ file \in SUBSET Arts
          /\ cache \in [Procs -> Reqserv]
          /\ art \in [Arts -> Entry]
          /\ connected \in BOOLEAN
          /\ todo \in SUBSET Arts
          /\ batch \in SUBSET Arts
          /\ sent \in SUBSET batch
          /\ failing \in Arts \cup {NoArt}
          /\ oldFlags \in SUBSET Flags
          /\ owed \in SUBSET Arts
          /\ cut \in SUBSET Arts

Init == /\ lock = NoProc
        /\ phase = "off"
        /\ file = {}
        /\ cache = [p \in Procs |-> NoReqserv]
        /\ art = [a \in Arts |-> [flags |-> {}, text |-> "none"]]
        /\ connected = FALSE
        /\ todo = {}
        /\ batch = {}
        /\ sent = {}
        /\ failing = NoArt
        /\ oldFlags = {}
        /\ owed = {}
        /\ cut = {}

-----------------------------------------------------------------------------
(* Database entries (database.c) *)

Contains(e) == e.text # "none"
Pending(e)  == Contains(e) /\ "notDownloaded" \in e.flags

PrepareEntry == [flags |-> {"notDownloaded"}, text |-> "empty"]

\* An article of another noffle may itself be without its text.  What has no
\* body at all is refused as malformed, and the entry on disk stays as it is:
\* ReceiveMalformed and ShowMalformed.
StoreArt(e, text) ==
  IF Pending(e)
    THEN [flags |-> IF text = "empty" THEN {"notDownloaded"} ELSE {},
          text  |-> text]
    ELSE e

SetStatus(e, flags) ==
  IF Contains(e) THEN [flags |-> flags, text |-> e.text] ELSE e

\* retrievingFailed as a whole: the status is read before the pseudo body
\* is stored, because storing it clears both flags.
RetrievingFailed(e) ==
  SetStatus(StoreArt(e, "failure"), e.flags \cup {"failed"})

-----------------------------------------------------------------------------
(* Lists of requests (request.c) *)

\* getReqserv.  A list that is read from a file keeps mtime 0, so that the
\* next Req_open drops it; without a file mtime is what an unset stat
\* buffer held.
Getreqserv(p) ==
  IF cache[p].loaded
    THEN {cache[p]}
    ELSE {[loaded |-> TRUE, ids |-> file, dirty |-> FALSE, current |-> c] :
            c \in IF file = {} THEN BOOLEAN ELSE {FALSE}}

\* Mistake: a list that has changed is not marked as dirty.
AddWithoutDirty(rs, a) ==
  [loaded |-> TRUE, ids |-> rs.ids \cup {a}, dirty |-> rs.dirty,
   current |-> rs.current]

Req_add(rs, a) ==
  [loaded |-> TRUE, ids |-> rs.ids \cup {a},
   dirty |-> rs.dirty \/ a \notin rs.ids, current |-> rs.current]

Req_remove(rs, as) ==
  [loaded |-> TRUE, ids |-> rs.ids \ as,
   dirty |-> rs.dirty \/ rs.ids \cap as # {}, current |-> rs.current]

\* Mistake: a list stays in memory whatever other processes have written.
KeepReqserv(rs) == rs

\* cleanupReqserv, for the one list there is.
Cleaned(rs) == IF rs.current THEN rs ELSE NoReqserv

\* The file's mtime moves on: the lists of the others are outdated, but for
\* those that were saved within the same second.
Outdated(rs) ==
  [loaded |-> rs.loaded, ids |-> rs.ids, dirty |-> rs.dirty, current |-> FALSE]

OthersOutdated(p, mine, keep) ==
  [q \in Procs |-> IF q = p THEN mine
                   ELSE IF q \in keep THEN cache[q] ELSE Outdated(cache[q])]

SavedNow == IF MaySameSecond THEN SUBSET Procs ELSE {{}}

\* The list as the program now has it.
List == IF lock # NoProc /\ cache[lock].loaded THEN cache[lock].ids ELSE file

-----------------------------------------------------------------------------
(* A turn: Lock_openDatabases ... Lock_closeDatabases *)

Open(s) ==
  /\ lock = NoProc
  /\ lock' = s
  /\ phase' = "commands"
  /\ cache' = [cache EXCEPT ![s] = Cleaned(cache[s])]
  /\ UNCHANGED <<file, art, fetchVars, owed, cut>>

\* Req_close finds nothing to write.
CloseClean(p) ==
  /\ lock = p
  /\ phase = "commands" \/ (phase = "requests" /\ todo = {})
  /\ ~cache[p].dirty
  /\ lock' = NoProc
  /\ phase' = "off"
  /\ cache' = [cache EXCEPT ![p] = IF p \in Servers THEN @ ELSE NoReqserv]
  /\ connected' = FALSE
  /\ UNCHANGED <<file, art, todo, batch, sent, failing, oldFlags, owed, cut>>

\* writeRequestfile: fopen(..., "w") empties the file ...
OpenForWriting(p) ==
  /\ lock = p
  /\ phase = "commands" \/ (phase = "requests" /\ todo = {})
  /\ cache[p].dirty
  /\ phase' = "writing"
  /\ file' = {}
  /\ \E keep \in SavedNow : cache' = OthersOutdated(p, cache[p], keep)
  /\ connected' = FALSE
  /\ UNCHANGED <<lock, art, todo, batch, sent, failing, oldFlags, owed, cut>>

\* ... and fclose fills it; then the lock is released.
CloseWritten(p) ==
  /\ lock = p
  /\ phase = "writing"
  /\ file' = cache[p].ids
  /\ lock' = NoProc
  /\ phase' = "off"
  /\ \E keep \in SavedNow :
       LET saved == [loaded |-> TRUE, ids |-> cache[p].ids,
                     dirty |-> FALSE, current |-> TRUE]
       IN  cache' = OthersOutdated(p, IF p \in Servers THEN saved
                                                       ELSE NoReqserv, keep)
  /\ UNCHANGED <<art, fetchVars, owed, cut>>

\* A process is killed, or a server's client hangs up between two turns.
Die(p) ==
  /\ p \in Mortal
  /\ cache' = [cache EXCEPT ![p] = NoReqserv]
  /\ IF lock = p
       THEN /\ lock' = NoProc
            /\ phase' = "off"
            /\ connected' = FALSE
            /\ todo' = {}
            /\ batch' = {}
            /\ sent' = {}
            /\ failing' = NoArt
            /\ oldFlags' = {}
            /\ cut' = cut \cup (owed \ file)
       ELSE UNCHANGED <<lock, phase, fetchVars, cut>>
  /\ UNCHANGED <<file, art, owed>>

-----------------------------------------------------------------------------
(* The server: ARTICLE and BODY (doBodyInDb) *)

\* What retrieveArt may make of the entry: nothing when noffle is offline
\* or cannot connect, else what Client_retrieveArt does with the answer.
Retrieved(e) ==
  IF Pending(e)
    THEN {e, StoreArt(e, "body"), StoreArt(e, "empty"), RetrievingFailed(e)}
    ELSE {e}

\* The failure is shown, and forgotten.
ShowFailure(a, e) ==
  /\ "failed" \in e.flags
  /\ art' = [art EXCEPT ![a] = SetStatus(e, e.flags \ {"failed"})]
  /\ owed' = IF e = art[a] THEN owed ELSE owed \ {a}
  /\ UNCHANGED <<cache, cut>>

\* The reader is told that the article is, or has been, marked.
MarkForDownload(s, a, e) ==
  /\ "failed" \notin e.flags
  /\ Pending(e)
  /\ art' = [art EXCEPT ![a] = e]
  /\ \E rs \in Getreqserv(s) : cache' = [cache EXCEPT ![s] = Req_add(rs, a)]
  /\ owed' = owed \cup {a}
  /\ cut' = cut \ {a}

ShowBody(a, e) ==
  /\ "failed" \notin e.flags
  /\ ~Pending(e)
  /\ art' = [art EXCEPT ![a] = e]
  /\ owed' = owed \ {a}
  /\ UNCHANGED <<cache, cut>>

\* An article comes without a body: the reader sees the header lines that
\* Db_storeArt leaves in its buffer, with both flags cleared.  Who reads it
\* again in the same turn saves the buffer like that (touchArticle).
ShowMalformed(a) ==
  /\ MayLackBody
  /\ Pending(art[a])
  /\ art' \in {art, [art EXCEPT ![a] = [flags |-> {}, text |-> "empty"]]}
  /\ owed' = IF art' = art THEN owed ELSE owed \ {a}
  /\ UNCHANGED <<cache, cut>>

ReadBody(s) ==
  /\ lock = s
  /\ phase = "commands"
  /\ \E a \in Arts :
       /\ Contains(art[a])
       /\ \/ \E e \in Retrieved(art[a]) :
               ShowFailure(a, e) \/ MarkForDownload(s, a, e) \/ ShowBody(a, e)
          \/ ShowMalformed(a)
  /\ UNCHANGED <<lock, phase, file, fetchVars>>

-----------------------------------------------------------------------------
(* noffle --fetch (doFetch): overviews first, then the marked articles *)

\* Fetch_init has connected; without a connection the turn does nothing.
FetchOpen(t) ==
  /\ lock = NoProc
  /\ lock' = t
  /\ phase' = "overviews"
  /\ connected' = TRUE
  /\ UNCHANGED <<file, cache, art, todo, batch, sent, failing, oldFlags,
                 owed, cut>>

\* Client_getOver: an overview arrives, and FULL or THREAD mode may mark it.
GetOver(t) ==
  /\ lock = t
  /\ phase = "overviews"
  /\ connected
  /\ \E a \in Arts, marked \in BOOLEAN :
       LET e == IF Contains(art[a]) THEN art[a] ELSE PrepareEntry
       IN  /\ art' = [art EXCEPT ![a] = e]
           /\ IF marked
                THEN /\ \E rs \in Getreqserv(t) :
                          cache' = [cache EXCEPT ![t] = Req_add(rs, a)]
                     /\ owed' = IF Pending(e) THEN owed \cup {a} ELSE owed
                     /\ cut' = cut \ {a}
                ELSE UNCHANGED <<cache, owed, cut>>
  /\ UNCHANGED <<lock, phase, file, fetchVars>>

\* breakDown while overviews arrive; what follows then runs without a
\* connection.
BreakInOver(t) ==
  /\ MayBreak
  /\ lock = t
  /\ phase = "overviews"
  /\ connected
  /\ connected' = FALSE
  /\ UNCHANGED <<lock, phase, file, cache, art, todo, batch, sent, failing,
                 oldFlags, owed, cut>>

\* Mistake: the iterator begins behind the first id.
SkipFirst(t) ==
  /\ lock = t
  /\ phase = "overviews"
  /\ phase' = "requests"
  /\ \E rs \in Getreqserv(t) :
       /\ cache' = [cache EXCEPT ![t] = rs]
       /\ IF rs.ids = {} THEN todo' = {}
                         ELSE \E first \in rs.ids : todo' = rs.ids \ {first}
  /\ UNCHANGED <<lock, file, art, connected, batch, sent, failing, oldFlags,
                 owed, cut>>

Req_first(t) ==
  /\ lock = t
  /\ phase = "overviews"
  /\ phase' = "requests"
  /\ \E rs \in Getreqserv(t) : /\ cache' = [cache EXCEPT ![t] = rs]
                               /\ todo' = rs.ids
  /\ UNCHANGED <<lock, file, art, connected, batch, sent, failing, oldFlags,
                 owed, cut>>

\* The next ids for Client_retrieveArtList: Batch of them, or the rest.
Batches == {as \in SUBSET todo : \/ Cardinality(as) = Batch
                                 \/ Cardinality(as) < Batch /\ as = todo}

\* Those it sends an ARTICLE command for.
Wanted(as) == {a \in as : Pending(art[a])}

TakeBatch(as) ==
  /\ as # {}
  /\ batch' = as
  /\ todo' = todo \ as

RetrieveArtList(t) ==
  /\ lock = t
  /\ phase = "requests"
  /\ \E as \in Batches : /\ TakeBatch(as)
                         /\ sent' = IF connected THEN Wanted(as) ELSE {}
  /\ phase' = "replies"
  /\ UNCHANGED <<lock, file, cache, art, connected, failing, oldFlags,
                 owed, cut>>

\* retrievingFailed reads the status and stores the pseudo body ...
StoreFailure(a) ==
  /\ failing' = a
  /\ oldFlags' = art[a].flags
  /\ art' = [art EXCEPT ![a] = StoreArt(@, "failure")]
  /\ owed' = owed \ {a}
  /\ phase' = "failing"

\* Mistake: the status is read after the pseudo body is stored.
StatusTooLate(t) ==
  /\ lock = t
  /\ phase = "failing"
  /\ art' = [art EXCEPT ![failing] = SetStatus(@, @.flags \cup {"failed"})]
  /\ failing' = NoArt
  /\ oldFlags' = {}
  /\ phase' = "replies"
  /\ UNCHANGED <<lock, file, cache, connected, todo, batch, sent, owed, cut>>

\* ... and then sets the status.
FinishFailure(t) ==
  /\ lock = t
  /\ phase = "failing"
  /\ art' = [art EXCEPT ![failing] = SetStatus(@, oldFlags \cup {"failed"})]
  /\ failing' = NoArt
  /\ oldFlags' = {}
  /\ phase' = "replies"
  /\ UNCHANGED <<lock, file, cache, connected, todo, batch, sent, owed, cut>>

\* putCmdNoFlush fails for one of the ids: those before it are sent, but
\* nobody reads the answers.
BreakInSending(t) ==
  /\ MayBreak
  /\ lock = t
  /\ phase = "requests"
  /\ connected
  /\ \E as \in Batches : /\ TakeBatch(as)
                         /\ \E a \in Wanted(as) : StoreFailure(a)
  /\ connected' = FALSE
  /\ sent' = {}
  /\ UNCHANGED <<lock, file, cache, cut>>

\* STAT_ART_FOLLOWS and the article, from a server that has its body or
\* from another noffle that has not.
ReceiveArt(t) ==
  /\ lock = t
  /\ phase = "replies"
  /\ connected
  /\ \E a \in sent, text \in {"body", "empty"} :
       /\ art' = [art EXCEPT ![a] = StoreArt(@, text)]
       /\ owed' = owed \ {a}
       /\ sent' = sent \ {a}
  /\ UNCHANGED <<lock, phase, file, cache, connected, todo, batch, failing,
                 oldFlags, cut>>

\* An article without a body: Db_storeArt gives up before saveArt, and nobody
\* looks at what it returns.
ReceiveMalformed(t) ==
  /\ MayLackBody
  /\ lock = t
  /\ phase = "replies"
  /\ connected
  /\ \E a \in sent : /\ sent' = sent \ {a}
                     /\ cut' = cut \cup (owed \cap {a})
  /\ UNCHANGED <<lock, phase, file, cache, art, connected, todo, batch,
                 failing, oldFlags, owed>>

\* Any other status, or none because getStat finds the connection closed.
RefuseArt(t) ==
  /\ lock = t
  /\ phase = "replies"
  /\ \E a \in sent : /\ StoreFailure(a)
                     /\ sent' = sent \ {a}
  /\ UNCHANGED <<lock, file, cache, connected, todo, batch, cut>>

\* breakDown in getStat: every id that is left is refused.
BreakInStat(t) ==
  /\ MayBreak
  /\ lock = t
  /\ phase = "replies"
  /\ connected
  /\ sent # {}
  /\ connected' = FALSE
  /\ UNCHANGED <<lock, phase, file, cache, art, todo, batch, sent, failing,
                 oldFlags, owed, cut>>

\* breakDown within an article's text: the ids that are left are dropped.
BreakInText(t) ==
  /\ MayBreak
  /\ lock = t
  /\ phase = "replies"
  /\ connected
  /\ \E a \in sent : StoreFailure(a)
  /\ connected' = FALSE
  /\ sent' = {}
  /\ UNCHANGED <<lock, file, cache, todo, batch, cut>>

\* Req_remove, for every id of the batch.
RemoveBatch(t) ==
  /\ lock = t
  /\ phase = "replies"
  /\ sent = {}
  /\ cache' = [cache EXCEPT ![t] = Req_remove(@, batch)]
  /\ batch' = {}
  /\ phase' = "requests"
  /\ cut' = IF connected THEN cut ELSE cut \cup (owed \cap batch)
  /\ UNCHANGED <<lock, file, art, connected, todo, sent, failing, oldFlags,
                 owed>>

-----------------------------------------------------------------------------
\* noffle --expire (Db_expire): a turn of its own that leaves the list alone.
Expire ==
  /\ lock = NoProc
  /\ \E gone \in (SUBSET Arts) \ {{}} :
       /\ \A a \in gone : Contains(art[a])
       /\ art' = [a \in Arts |-> IF a \in gone
                                   THEN [flags |-> {}, text |-> "none"]
                                   ELSE art[a]]
       /\ owed' = owed \ gone
  /\ UNCHANGED <<lock, phase, file, cache, fetchVars, cut>>

Fetch(t) == \/ FetchOpen(t) \/ GetOver(t) \/ BreakInOver(t) \/ Req_first(t)
            \/ RetrieveArtList(t) \/ BreakInSending(t) \/ ReceiveArt(t)
            \/ ReceiveMalformed(t) \/ RefuseArt(t) \/ FinishFailure(t) \/ BreakInStat(t)
            \/ BreakInText(t) \/ RemoveBatch(t)

EndTurn(p) == CloseClean(p) \/ OpenForWriting(p) \/ CloseWritten(p)

Next == \/ \E s \in Servers : Open(s) \/ ReadBody(s)
        \/ \E t \in Fetchers : Fetch(t)
        \/ \E p \in Procs : EndTurn(p) \/ Die(p)
        \/ Expire

Spec == Init /\ [][Next]_vars

\* Clients pause, so that servers end their turns; cron runs the fetch again
\* and again, and its overviews and answers are finite in number.
Fairness ==
  /\ \A s \in Servers : WF_vars(EndTurn(s))
  /\ \A t \in Fetchers : /\ SF_vars(FetchOpen(t))
                         /\ WF_vars(Req_first(t))
                         /\ WF_vars(RetrieveArtList(t))
                         /\ WF_vars(\/ ReceiveArt(t) \/ ReceiveMalformed(t)
                                    \/ RefuseArt(t))
                         /\ WF_vars(FinishFailure(t) \/ RemoveBatch(t))
                         /\ WF_vars(EndTurn(t))

FairSpec == Spec /\ Fairness

-----------------------------------------------------------------------------
(* Properties *)

\* An article that is marked and not answered is on the list, whatever the
\* servers and the fetch make of their copies of it: pseudo.c tells the
\* reader "This article has been marked for download".
NotForgotten == owed \subseteq List

\* The same, but for what was marked when the connection broke or a process
\* was killed, or has come without a body, and was not marked again since.
ForgottenOnlyWhenCut == owed \ cut \subseteq List

\* What a process works on is the list on disk, as long as it has not
\* changed it: "we delete request files, which have changed recently, from
\* cache" (before Req_open).
CopyIsFile == lock # NoProc /\ cache[lock].loaded /\ ~cache[lock].dirty
                => cache[lock].ids = file

\* DB_RETRIEVING_FAILED is only set while the failure is the article's text
\* and the article is still to be downloaded (retrievingFailed, doBodyInDb).
FailedIsPending == \A a \in Arts : "failed" \in art[a].flags
                     => Pending(art[a]) /\ art[a].text = "failure"

\* What says that it is a failure is still to be downloaded.
FailureIsPending == \A a \in Arts :
                      art[a].text = "failure" /\ a # failing => Pending(art[a])

\* A failure never stands for the article: "This message will disappear the
\* next time someone tries to read this article, so that it can be marked
\* for download again" (Pseudo_retrievingFailed); and an article that has been
\* retrieved since it was marked is not turned into one (client.c:838).
FailureDisappears == FailureIsPending /\ FailedIsPending

\* Every marked article is fetched, refused, expired or cut at last, though
\* the readers mark others all the time.
MarkedIsAnswered == \A a \in Arts : a \in owed ~> a \notin owed \ cut
=============================================================================
