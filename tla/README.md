# TLA+ specifications of the Schnitzeljagd servers

The repository is the machinery of a computer game ("Schnitzeljagd", a paper
chase) from 2002: players log in to a set of network services, a newsgroup
server, a police information system, a diary, a web server in User Mode Linux,
IRC and a MUD, and look for hints. Some of the services are programs from
elsewhere that are configured here; the others are written, or kept with their
source, in this repository:

* `newsserver/noffle-1.0.1`: the news server, a C program whose processes share
  one spool directory (about 10,000 lines);
* `polsys.pl` and `diary.pl`: two forking servers in Perl;
* `newsserver/ucspi-tcp-0.88`: `tcpserver`, which runs noffle for each connection;
* `p2p.c`: a program that sends the messages of the prisoners;
* `config/polizei/.../bulld.c` with `uml/run-uml`, and a few scripts that write
  postings and mails;
* `init/*` and `schnitzeljagd`: starting and stopping.

These specifications model the parts where several processes meet: noffle's
spool directory, the two Perl servers and `tcpserver`. Everything below names source files
relative to `src/`; files of noffle and of ucspi-tcp by their names alone, and
noffle's documents as `docs/...`.

1. [Inventory](#1-inventory)
2. [Modules](#2-modules)
3. [Model checking](#3-model-checking)
4. [Proofs](#4-proofs)
5. [Where code and documents differ](#5-where-code-and-documents-differ)
6. [What is abstracted, what is not modelled](#6-what-is-abstracted-what-is-not-modelled)
7. [Plan](#7-plan)

## 1. Inventory

### noffle

Every connected news reader has a process of its own, `noffle -r`, started by
`tcpserver`; next to these *servers* the operator and cron run *tools*: `noffle
--fetch`, `--expire`, `--subscribe-...`, `--online`, `--cancel` and so on. There
is no daemon: all processes work on the files in one spool directory and keep
copies of parts of them in static variables.

| component | state | operations | what it meets |
| --- | --- | --- | --- |
| global lock, `lock.c` | the `fcntl` lock on `lock/global`; which of three databases this process has open | `Lock_openDatabases`, `Lock_closeDatabases` | everybody; a process may fail to open, die, or hold the lock while it waits for its client |
| command loop, `server.c` `Server_run`, `waitCmdLn` | `server.running`, the five-second alarm | read a line, time out, execute | the alarm races the line; the lock is given back only on a timeout |
| news commands, `server.c` | `server.grp`, the article pointer | GROUP, LISTGROUP, ARTICLE, BODY, HEAD, STAT, NEXT, LAST, XOVER, XHDR, LIST, NEWGROUPS, POST | content, groupinfo, database, fetch list, requests |
| overviews, `content.c` | one overview file per group; *one* content in memory per process | `Cont_read`, `_app`, `_delete`, `_write`, `_find` | the content outlives the lock |
| group info, `group.c` | `groupinfo.gdbm`, `groupinfo.lastupdate`; one record cached | first, last, remote-next and access numbers; create, delete, list of new groups | numbers have to agree with the overview files, the cached record with the database |
| articles, `database.c` | `articles.gdbm`: status, last access, text, references | `Db_prepareEntry`, `_storeArt`, `_setStatus`, `_expire`, `_delete` | one article is in several groups; pointers into a buffer that the next load overwrites; a copy replaces the database |
| requests, `request.c` | one file of message ids per remote server; lists in memory | `Req_add`, `_remove`, `_first`, `_next`, `_open`, `_close` | copies in memory are compared by modification time |
| fetching, `fetch.c`, `client.c` | a connection; `rmtNext` | new groups, overviews, batches of ARTICLE commands, posting | a connection may break at every line |
| outgoing, `outgoing.c` | a directory of articles per remote server | add, enumerate, remove | removed before it is posted |
| posting, control, `post.c`, `control.c` | the article that is being posted | local posts, cancel messages | changes the session's content |
| generated messages, `pseudo.c` | none | general info, notices, text of a failed retrieval | appear as articles |
| fetch list, `fetchlist.c` | the subscribed groups and modes | add, remove, read, write | changed by reading (auto-subscribe) and by expiry |
| expiry, `noffle.c` | none | `doExpire`, `expireContents` | takes articles and overviews away, unsubscribes |
| online state, `online.c` | a flag file | set, ask | steers what commands do |
| helpers | none | configuration, strings, wildcards, logging | the order of lines, patterns that stop early |

What makes noffle hard is *staleness*: between two commands of a server more
than five seconds may pass, the lock goes round, and what the server goes on
with afterwards (its content, its request lists, its group record) is from
before. What has to hold: the databases are open in one process at a time; an
article number never means two articles; groupinfo's numbers enclose the
overview files; what one process has cached does not contradict what others
have written, or at least does not get into the files again; what a reader has
marked is fetched or refused at last; a failed retrieval does not stand for the
article for ever; a reader is told of every article and every group; nothing
expires before its time, and what has expired leaves nothing behind.

### The Perl servers

`polsys.pl` and `diary.pl` share their shape: `accept`, `fork`, a child talks to
its client, a SIGCHLD handler waits for children.

| component | state | operations | what is hard |
| --- | --- | --- | --- |
| accept loops | backlog, `$client`, children, a pending signal | accept, fork, handler | signals coalesce; the handlers differ; fork may fail; clients stay for ever |
| police system, `polsys.pl` | `polsys.txt`, the last 20 hints of the players; a menu and a list in each child | menus, login, `saveentry`, `readentries` | `saveentry` reads the whole file, changes it and writes it back, without a lock and without a temporary file |
| diary, `diary.pl` | challenge, authentication, entries | HELP, CHALLENGE, RESPONSE, LIST, GET, QUIT | `recv` does not return lines but what is there; only the answer to the challenge told last may let a client in; the first is drawn before the fork |

What has to hold: clients get their turn; children that have ended are waited
for; a hint that is saved stays until twenty newer ones have come, as far as the
unlocked file can promise that.

### tcpserver

`init/newsserver` starts `tcpserver` with a limit of 40 children. The parent counts
its children, sleeps when there are 40, and waits for those that have ended in
its SIGCHLD handler. A child first asks name servers for its own name and that
of the client, and the client's host for the user, over UDP and TCP, with
several servers, timeouts and answers that are cut or come from elsewhere; then
it becomes noffle. What has to hold: the count is true, a parent that sleeps
wakes up, every server is asked before a lookup fails, and every lookup ends.

### The rest

`p2p.c` is one process without state between messages. `bulld.c` answers commands
one client at a time inside User Mode Linux, which `run-uml` restarts. `newstroll.pl`,
`postnews.pl`, `mail/helpmail.pl` send generated text once. The configuration of
the web server, IRC bots and the MUD contains no program logic of its own. All of
these are listed in `PROJECT.json` with the reason why they are modelled or not.

The hazards of the whole system, each at its line and with the properties that cover it
or the reason why none does, are the list `hazards` of `PROJECT.json`.

## 2. Modules

```
SpoolAccess  <--implements--  SpoolLock            lock, command loop, alarm
                                  |
             (a turn under the lock is what these begin from)
                                  |
        Content <-- NewsServer        Requests     overviews, numbers / marked articles
                   ^        RemoteSession          what is exchanged with a remote server
                   |        Expiry                 how articles age
                Reading     GroupInfo -> Wildmat   what a reader is told / the groups

        ForkServer <-- Polsys, Diary               accept loop / what the children do
        TcpServer  --> Resolver                    accept loop with a limit / lookups
```

Each that has state has an `MC...` module that gives TLC its instances, and each but for
the parts of others has a `...Proofs` module; ForkServer is run and proved as part of
Polsys and Diary (`PerlServersProofs`), Content and NewsServer's reader as part of
NewsServer (`NewsServerProofs`), Resolver as part of TcpServer.

**SpoolLock** (`lock.c`, `Server_run` and `waitCmdLn` of `server.c`, the frame of
`noffle.c`). Per process a program counter that walks through
`Lock_openDatabases` (`lock`, `openDb`, `openGrp`, `openReq`, with `undo...` for the
unwinding), the work, and `Lock_closeDatabases`; `lockOwner` is the kernel's
lock, `files[p]` the open databases. For servers, `wire` is what the client has
sent (a line, the first half of one, the end), `line` what `fgets` has returned,
`running` is `server.running`. The alarm is two actions: it interrupts the read
(`TimeoutInRead`, losing the first half of a line) or it comes just after
(`TimeoutAfterRead`). A server whose `initServer` has failed still executes its
command, as the code does. `Die` is a signal: the kernel frees lock and files.

**SpoolAccess** says what the locking is for: at most one process is inside, and
processes take turns. `SpoolLock!AccessSpec` is the refinement: a process is
inside while it has any database open.

**Content** (`content.c`) has no state: operators for an overview file and the
content in memory. `Cont_read` extends the numbers to groupinfo's last, and
`Cont_write` drops general infos and moves `first`.

**NewsServer** (`server.c`, `fetch.c`, `noffle.c`, `post.c`, `control.c`, `group.c`):
overview files, groupinfo numbers, fetch list, database, and each server's group
and cached content. A command is one step, because it runs under the lock; the
lock stays with the server until `Idle`, and a tool's run is one step when nobody
has it. `Read` contains the whole of `noteInterest`: auto-subscription appends a
notice to the *cached* content and writes it, info-always-unread copies the
cached numbers to groupinfo. An article may be read by its message id with no group
selected; what `noteInterest` then does reaches the group of the cached content, which is
there only after POST. `SelectGroup` contains `checkNewArts` and
`readCont`. `numbered` is a history variable: every pair of number and message
id an overview file has had.

**Requests** (`request.c`, the part of `server.c`, `fetch.c`, `client.c` and `database.c`
that marks, asks for and answers): the list of one remote server on disk, each
process's copy with its dirty flag and whether its mtime is the file's, and each
article's status flags and text. A turn is `Open` ... `EndTurn`; inside the turn of
a fetch every command, answer, broken connection and every one of the two writes
of `retrievingFailed` is a step, and writing the list is two (`fopen` empties the
file, `fclose` fills it). `owed` and `cut` are history variables: what is marked
and not answered, and which of that was so when a connection or process broke or the
article came without a body (`ReceiveMalformed`).

**RemoteSession** (`fetch.c`, `client.c`, `outgoing.c`, the parts of `server.c` and
`noffle.c` that open a connection): what noffle says to a remote server but for
the articles of Requests. Who has opened the connection holds the global lock, so
there is one session at a time; `plan` is what is left of it: `noffle --fetch` posts,
asks for new groups and updates all groups, `noffle --query groups` asks for the
list, a server that is online posts after POST (`"post"`) or updates the group that
is selected (`"groups"`). Each line of an answer is a step, so that the connection may
break and the process be killed before and after it; LIST and NEWGROUPS may be refused,
which leaves the stamp and the session as they are (`GroupsUnlisted`). `Break` leaves the process
running, and everything it then asks fails at once; `Die` loses what is in
memory (`got`, `hand`). The remote server numbers articles, drops them, gets
groups and may be set up again while all this goes on, which is modelled from what
`client.c` understands and marked external. `written`, `notice` and `late` are history
variables: what readers have posted, the notice of the present update, and the
groups that were made between a question for groups and its stamp.

**ForkServer** (the accept loops and SIGCHLD handlers of `polsys.pl` and `diary.pl`).
`conn[c]` follows a connection from the backlog over `accept` and `fork` to the
child, the zombie and its end; `pending` is one bit, since signals coalesce. The
two scripts are two values of `ReapsUntilNone` (loop until waitpid returns -1,
or one waitpid) and `ClosesClient`.

**Polsys** (`polsys.pl`, `init/polsys`) extends ForkServer with what a child does:
menus, `recv` (which returns all lines that have come at once, and an empty
string at the end of the input), and `saveentry` as three steps: read, open (which
empties the file), close (which writes the buffer). Two processes that have the
file open write over each other from the start; `Overwritten` computes, from the
lengths of the lines, which fragment the longer text leaves behind the shorter.
A client may hang up at any time; the child then dies of SIGPIPE at its next
`send`. `alone` and `kept` are history variables: whether any other save has
overlapped with this one, and the hints saved alone since the last overlap or
kill.

**Diary** (`diary.pl`, `init/diary`) extends ForkServer with the conversation of a
child and its client. `sess[c]` holds what lies in the socket, whether the client
has authenticated itself and the challenge, which is named by the number of its draw;
`Recv` takes any number of the lines that are there, as `recv` may, and `AsOne` says
what the `split` of the code makes of them. A client may send any answer it knows at
any time: `known` holds the challenges it has been told by CHALLENGE and those whose
right answer an ACK or NACK has named. So an answer may be sent again, after another
CHALLENGE, or after its refusal, and more lines may be in the socket before it. `told`,
`known`, `owed` and `merged` are history: the challenge told last if no response has met
it since, what the client may answer, how many answers it waits for, and whether lines
have been taken for one. When a child ends, its conversation is gone.

**Reading** (`server.c`) extends NewsServer with the article pointer and the answers
a reader gets: `Forward` and `Backward` are the searches of `doNext` and `doLast`,
`WhichId` is which article a command means and where it moves the pointer, `Bounds`
is `parseRange`, `ListedLast` what `printActive` adds for a general info.

**GroupInfo** (`group.c`, `client.c`, `noffle.c`, `configfile.c`): the database of groups,
the stamp of its last change, the record that each process keeps in memory
(`memo`), and what remote lists, `--create` and `--delete` do to it. `Grp_set` stands for
each function that changes a field and writes the whole record back. `heard` is
history: what a newsreader that polls with NEWGROUPS has been told, and `slipped` which
groups were registered by a list that broke or in the second of a poll.
`DeletedArticles` and `isForbiddenGroupName` are the pure parts of `--delete` and of the
reading of lists; they are compared with what they should do over all small inputs.

**Wildmat** (`wildmat.c`) has no state: `Wld_match` as the code does it, with its three
verdicts and its reading of classes, and `HasForm`, what a pattern means. `Misjudged`
is the set of texts for which they differ.

**Expiry** (`database.c`, `noffle.c`, `configfile.c`, `server.c`, `client.c`): how articles age.
`Cfg_read` reads noffle.conf line by line; `Open` is what ARTICLE does to an entry and
to its references, with the buffer in which `touchReferences` walks; `GetOver` what thread
mode marks when an overview comes; an expiry is `Expire`, `Copy` for each entry,
`Rename`, `Clean` for each group, and may be killed between any two. `due` is history.

**TcpServer** (`tcpserver.c`): the parent at each of its places, with SIGCHLD blocked
outside of `accept` and `sig_pause`; the stages of a connection from the backlog to a
zombie that is waited for, or an orphan after `killall tcpserver`. **Resolver**
(`dns_transmit.c`, `dns_resolve.c`, `dns_name.c`, `remoteinfo.c`, `timeoutconn.c`, `iopause.c`)
gives it what a child asks: operators on the record of one lookup, in which a number
(`try`) stands for the loop and the server, and `Events` for what `poll` may find.

An action that names a *Mistake* in its comment is not part of any specification: it
is a plausible wrong version of the action after it, and shows that the
property listed with it in `PROJECT.json` (`mutants`) notices the difference.

## 3. Model checking

`tlc -config X.cfg MCx.tla` for each of these. The numbers are the distinct states
of the run; each takes between ten seconds and two minutes on two cores.

| run | configuration | distinct states | shows |
| --- | --- | --- | --- |
| lock_turns | `SpoolLock_turns` | 19,600 | two servers and a tool, opening may fail in two of them, processes may be killed: nothing is left behind by an exit, a failed start or an idle server (`NothingLeftBehind`), a command has the lock and all databases or, where opening has failed, none of it (`WorkUnderLock`), turns are taken (`AccessSpec`), and who waits for the lock gets it (`WaiterServed`) if clients finish their articles |
| news_numbers | `NewsServer_numbers` | 175,000 | without reactions to reading: numbers are unique over the whole history, groupinfo encloses the files, caches never contradict files, and no step loses the overview of an article that stays |
| news_reused | `NewsServer_reused` | violation | info-always-unread gives a number out twice (section 5) |
| news_reading | `Reading_reader` | 247,000 | a reader who follows NEXT gets every article and LAST leads back (`NextReachesAll`), ranges are told in full (`RangesAreTold`), LIST agrees with GROUP also about the general info (`ListTellsGroup`), and an automatic subscription leaves its notice (`SubscriptionConfirmed`), while tools fetch, expire and subscribe in between |
| groups | `GroupInfo_groups` | 362,000 | the record in memory is the one in the database (`CacheIsRecord`) and never undoes what a tool has written (`RecordsStand`), NEWGROUPS tells of every group (`NewGroupsTold`), `--delete` takes the right articles (`DeletesItsArticles`), forbidden names and patterns are judged by what they mean (`NamesAreJudged`) |
| requests_answered | `Requests_served` | 159,000 | marked articles stay on the list but for what a broken connection, a kill or a missing body cuts, copies agree with the file, failures disappear and stand only for articles still to be downloaded, and each marked article is answered |
| session_fetch | `RemoteSession_fetch` | 1,030,000 | over connections that break and processes that are killed at any line, with a server that drops articles and begins anew: what it has accepted is not offered again, overviews come in order and once, none is passed over or lost but by max-fetch and a kill, no group is overlooked but those made while it asked, and a notice in a group is true |
| expiry | `Expiry_expiry` | 511,000 | follow-ups in thread mode are marked (`ThreadFollowed`), nothing leaves the database before its time (`KeptLongEnough`), and an expiry that ends leaves no overview without an article (`CleanedUp`), though it may be killed at any step |
| thread_touched | `Expiry_thread` | violation | opening an article does not touch all of its references (section 5) |
| polsys_hints | `Polsys_hints` | 323,000 | hints that are saved alone stay the newest whatever races, hang-ups and stops came before; the parent gets to every client |
| diary | `Diary_diary` | 141,000 | diary's handler overlooks no child that has ended (`ZombieIsAnnounced`); clients are accepted if there is a moment without children again and again (`AnsweredWhenQuiet`); nobody is let in but by the answer to the challenge told last and not compared since, and who gives it is let in (`LetIn`); a client that waits for one answer gets it (`Replied`) |
| tcpserver | `TcpServer_limit` | 110,000 | the count of children is true (`CountIsTrue`) and who waits is accepted when there is room (`WaitersAccepted`); a lookup that fails has asked every server (`AllServersAsked`), and it ends unless useless packets come for ever (`LookupEnds`) |

### Bounds, and why they are enough

* *SpoolLock*: two servers and one tool: one holds, one waits and one does
  something else, so every pair of steps overlaps. Nothing else is bounded.
* *NewsServer*: two servers, one remote and one local group, two articles. Two
  servers are needed for one to be stale against the other; a session's content
  can be that of another group than the selected one, which takes two groups.
  `MaxNumb` (2 and 1, 3 where numbers come back) is the highest number, `MaxNew` how
  much one fetch adds: enough for a group to be filled, emptied by expiry and filled
  again. Servers and articles are interchangeable, which the symmetry set uses.
* *Reading*: one reader, since it is others who change the files, and tools do that as
  well as servers do; one article and one notice. A number may be missing at the
  beginning, in the middle (behind a general info) and at the end of a content;
  ranges name numbers up to two more than the highest.
* *GroupInfo*: one reader with one process after another, as processes share nothing
  but the database; a group that the remote server lists and one of the hunt, so
  that each can be created, taken over and deleted; three points in time: a group
  before, at and after a poll. Names of up to three components from those that the
  table of forbidden names mentions and one other; patterns and texts of three items.
  A group to be deleted has up to three numbers with every choice of gaps, and its
  articles may be in other groups.
* *Requests*: two servers, of which one may be killed, and one fetching process; two
  articles in batches of at most two, so that a batch is full or a rest (the code has
  20). The run with the liveness property has no symmetry.
* *RemoteSession*: one group, which the server gets at some time, so that it may be
  there before, while and after groups are asked for; groups share nothing but the
  order of the session. One post: in the queue, in hand, or gone. `MaxNumb` 3 with
  `MaxFetch` 1 leaves room for a range that is cut, one that has one more than
  max-fetch, and one with a gap in it; `MaxAge` 1 lets the server begin anew once and
  reach the same or a lower count; `MaxTime` 1 tells "in the same minute" from "later".
* *Expiry*: a thread of three, one of them in two groups; three days and two files of
  noffle.conf: periods of zero, one and two days, a period that is no number, two
  lines for one group, and an option that ends the reading.
* *Polsys*: two clients that send up to four lines each, so each may save twice:
  a race and then a save alone. Two hints are kept instead of 20, so that the
  list is full after two saves. Lines have length 0, 1 and 4: a shorter list may
  end within or before a longer one, which leaves all kinds of fragments.
  `MaxPassword` is 2: "text" logs in, "1" does not.
* *Diary*: three clients: one served, one ended whose signal is lost in another's, one
  in the backlog; one of them talks, as children share nothing. Three draws
  after the first and two lines in the socket: enough to ask twice and answer the first
  challenge, to send a right answer again, to use the answer that a refusal has named,
  with another CHALLENGE or RESPONSE before it in the socket, and to merge.
* *TcpServer*: three clients and a limit of two, so that one waits while the limit is
  reached; two name servers with the lookups of one client, since children share
  nothing. Nothing else is bounded.

### Fairness

* *Processes* (SpoolLock, Requests): a process that can take a step takes it. The
  kernel grants the lock to a waiter at last (strong fairness of `Acquire`, as the
  lock goes back and forth), and the alarm of a server whose client is idle for
  five seconds goes off (strong fairness of `TimeoutInRead`: a client that never
  pauses is left out, since the code does not give the lock back to others while
  commands come).
* *Clients* (SpoolLock, `PatientClients`): a client finishes or abandons the article
  it posts. The code has no timeout there; without this assumption `WaiterServed`
  fails (section 5).
* *Requests*: cron runs the fetch again and again (strong fairness of `FetchOpen`),
  the overviews and answers of one fetch are finite. Nothing is assumed of
  connections: they may break each time, and of articles that they have a body, which is
  why `MarkedIsAnswered` counts what was cut as ended.
* *ForkServer, Polsys*: only the parent goes on (weak fairness of `ParentStep`).
  Children and clients may stay for ever; that is why diary's clients are
  answered only under the condition of `AnsweredWhenQuiet`.
* *Diary*: in addition a child reads what is there (weak fairness of `Recv`).
* *TcpServer*: the parent and each child go on by themselves (weak fairness); what
  comes over the network, clients and name servers included, need not come. Their
  timeouts are steps of the children.
* *NewsServer, Reading, GroupInfo, RemoteSession, Expiry*: none; their properties say
  what may never happen. That an article is shown at last depends on connections
  that hold for as long as it takes.

## 4. Proofs

`tlapm` checks every theorem to its leaves, in eight modules. A theorem holds for
every number of processes, groups, articles, clients and every bound, under the
`ASSUME`s of the modules (which only say that the constants are of their kind) and
what the theorem itself assumes.

**SpoolLockProofs**: `TypeCorrect`, `OpenUnderLock`, `LeavesNothing`, `CommandsUnderLock` and the
refinement `TakeTurns == Spec => AccessSpec`. "Open only under the lock" is not
inductive: a step that opens a file has to know that its process has the lock.
`Discipline` says for every place in the code whether a process there owns the lock
and exactly which files it has open; for a server in its loop that depends on
`running`. `Loops` says where `running` may be set. `FileSteps` says once for all
steps that open or close files that they leave `Discipline` of the other processes
alone. For `WorkUnderLock` a second invariant, `Failing`, says that only a process that
has failed to open something executes without the lock. The refinement follows from
`Discipline`, since two processes with files would both own the lock.

**NewsServerProofs**, in two parts. The first, `NumbersAreUnique`, `GrpInfoCovers`,
`CachesAgree` and `NoOverviewIsLost`, is for configurations in which `noteInterest`
leaves the spool alone (neither `"subscribe"` nor `"info"` in `Reactions`); with `"info"`
the first is false, as `news_reused` shows, and with `"subscribe"` too (a server that
subscribes from an outdated, empty content numbers its notice 1 again). The invariant
is `Watermark`: groupinfo's last number is not below any number that has ever been
given out, and every overview in the file is in the history. That makes `Cont_read`
count on from a number nobody has had, although the file may be empty. `CacheWasSaved`
(what a server has cached was once in the file, but for general infos) then gives the
agreement of cache and file without any reference to how old the cache is.

The second part holds whatever `noteInterest` does. `TInv` says that a file has finitely
many numbers from 1 (`Lines`), that a cached content is numbered from 1 to its last and
its first is an element or behind the end (`Counted`, `Tight`), however outdated it is.
`TypeCorrect` follows, and for specifications with a reader: `RangesTellAll`,
`ListAgreesWithGroup`, `SubscriptionsAreTold` and `NextReaches`. The last is about three
recursive functions, the searches of `doNext` and `doLast` and the walk that NEXT makes:
`UpExists`, `DownExists` and `WalkIsOnward` give each a function that satisfies its
equation, and `UpFinds` and `DownFinds` say of any such function what it finds. The lemma `MinOfNats` replaces
induction: it gives a set of numbers its least element, from the library's
well-foundedness theorem for `<` on the naturals.

**RequestsProofs**: `OnlyTheCutIsForgotten`, `CopiesAreCurrent`, `FailedArePending`, with
lists that differ in their mtimes (`~MaySameSecond`; `TypeCorrect` without); `FailuresDisappear` if no
fetching process is killed; `NothingIsForgotten` if in addition connections hold,
articles have a body and nobody is killed at all. The invariant has three parts: `Turns` (what the owner
of the lock has in its hands in each phase), `Copies` (nobody outside its turn has
unsaved changes, and a copy whose mtime is the file's equals the file), `Answers`
(what is owed is still to be downloaded, and an owed article of the batch has been
asked for).

**RemoteSessionProofs**: `TypeCorrect`, `OnceOnly`, `NoGroupMissed`, `InSequence`,
`NothingIsLost` and `NoticesAreJustified`, for any number of groups and articles and any
max-fetch. `Outgoing` adds to `PostedOnce` that
the article in hand is no longer in the queue. `Lists` adds to `NoGroupOverlooked` what
is true while a list is read: each group that is old enough for the new stamp is
known or still in the list. `InOrder` needs three more facts, proved together as
`Order`: `Sessions` (which variables are idle in which step of a session), `Expected`
(what has come of the present numbering is below `rmtNext`, or the server has begun
anew and said so), and `Answer` (the lines that are still to come are above all that
has come). `All(g)` joins the file and what is in memory, so that breaking off and
writing out move no overview past another. For `NoneLost`, `Covering` says
where an article is that the server has and the overview file has not: before the range
that is asked for only when max-fetch cuts it off, in the range among the lines to come
or in memory. `Consistent`, that `rmtNext` is beyond the server's numbers only when the
server has begun anew, is what both this and `NoticesAreTrue` rest on.

**TcpServerProofs**: `TypeCorrect`, `CountsTruly` and `AllAreAsked`, for any finite set of
clients and any number of name servers. The first
invariant joins to the types and `CountIsTrue` that the backlog holds each waiting client
once (`Waiting`) and that there is room while the parent is in `accept`, which is why
`numchildren` never passes the limit. Each step moves one client between the sets that
are counted, so lemmas about the cardinality of a set with one element more or less
carry the proof. The second, `LookupsAsking`, makes
what has been asked a function of the place: by UDP each server as often as it comes
in the tries so far (`ByUdp`), by TCP each server up to the present one (`ByTcp`).

**GroupInfoProofs**: `TypeCorrect`, `CacheIsTrue`, `NothingIsUndone`, `NoGroupIsMissed`,
`DeletesWhatItSays` and `NamesJudgedTruly`, for any readers, groups and servers. `CacheIsRecord` is inductive with the types: a process that has a
name in memory has the lock, so no tool runs, and the empty name that `Grp_close` leaves
belongs to no group. A step then writes back what is in the file anyway
(`Stand`), which is `RecordsStand`. For `NewGroupsTold`, `Due` says of a
group that a newsreader has yet to hear of that it was made after that reader's last
question, and that the stamp, if there is one, is no older than the group. `DeletesItsArticles` is about the loop of `doDeleteLocalGroup`, a
recursive function whose value at each number is found from the least number at which
it would be wrong. For `NamesAreJudged` the pattern and the name may have any length.
`Fits` says which ends of the name the items from one on stand for; it obeys one law for a
star, one for any other item and one at the end (`FitsItem`, `FitsEnd`). `MatchIsForm`
then goes from the end of the pattern to its beginning: each call of `DoMatch` returns
TRUE exactly where the rest fits, and ABORT only where nothing that begins there or later
would (`Good`). That is why the star that is met last may speak for those before it:
what it answers is the first answer that is not FALSE (`LoopFinds`), and behind an ABORT
no other try could succeed. `ItemIsRead` shows that `DoMatch` reads each kind of
item, the classes among them (`ClassCaret`, `ClassBracket`, `ClassRange`), as what it stands
for, and `SpelledOut` where the items of a pattern stand. Which texts the nine patterns of
`forbiddenGroupNames` match follows from the same laws. This theorem holds in every state,
whatever the step; names there have up to three components.

**ExpiryProofs**: `TypeCorrect`, `FollowUpsMarked`, `NothingTooEarly` and `NoOverviewLeft`, for
any finite set of articles with any references, any groups and any files of noffle.conf. The
invariant says that what is due is in the database and was not touched before
(`DueTold`), that what a copying expiry has passed over is old (`CopyKeeps`), and that the
groups a cleaning one has done have no overview without an article (`CleanKeeps`). The periods come from
`Cfg_read` and the walk of `touchReferences`, both recursive functions, of which
`Recursion` and `UpTo` (again by least counterexamples) say that they exist and what
they preserve. An opened article counts for its references when each of them
has fewer references of its own than stand before it (`Threaded`, as in references that
begin with the first article of the thread); there the walk ends where it should
(`TouchesThread`), and with other references it may not (`thread_touched`).

**PerlServersProofs**: for polsys `TypeCorrect` and `SavedAloneStays`, for hints of any
length and any limit. The type of the file is not obvious: a fragment has to be the end
of some line. For `LoneSavesStay` the invariant follows a save that is alone: it is the
only one (`AloneIsAlone`), until it opens the file what it has read is still there
(`HoldsFile`), and from then on its list ends with all that has been kept and the new
hint (`HoldsKept`). `InQueue` and `IdleAtStart` say that the backlog holds each waiting
client once and that only a process that serves is inside `saveentry`. For diary
`NoneOverlooked`: every child that has ended has its signal pending or the handler at
work; `OnlyTheLastAnswer`: `LetIn`, since client and child agree about the challenge
(`Agreed`): what was told last and met no response is the present one, and of the present
one a client knows the answer only then; what lies in the socket is what it knew when it
sent it (`Known`). `TalkInv` joins them and keeps the draws that the lines in the socket
can still cause within the bound `MaxDraws`. `DiaryIsServer`: Diary implements ForkServer.

Only model-checked: all liveness (`WaiterServed`, `MarkedIsAnswered`, `Answered`,
`AnsweredWhenQuiet`, `Replied`, `LookupEnds`, `WaitersAccepted`), which is out of the
prover's reach. `UniqueNumbers` with info-always-unread and `ReferencesTouched` do not hold
(section 5). The prover has no induction over
data; about the recursive *functions* of these modules it can be avoided, since a
property of all numbers of an interval fails first at a least one.

A proof has also changed the modules: arms of a `CASE` that overlapped, of which TLC
takes the first, have become disjoint (Resolver, Wildmat, Diary, RemoteSession), Expiry says what
it takes the lines of noffle.conf and the set of articles to be, and in Wildmat a call of
`DoMatch`, the loop of a star and a class are operators of their own.

## 5. Where code and documents differ

Shown by runs (`findings` in `PROJECT.json`):

* **Numbers come back** (`news_reused`). With info-always-unread, `noteInterest` copies the
  numbers of the cached content to groupinfo (`server.c:149-151`), although other
  processes have added articles since, or POST has put the content of a local group
  there. Groupinfo's last number drops, and after an expiry numbers are used again,
  which `Cont_read` takes care to prevent (`content.c:171-174`).
* **References are passed over** (`thread_touched`). `touchReferences` walks through
  `db.ref`, into which `touchArticle` loads the entry of each reference
  (`server.c:489-507`, `database.c:152`). If that entry has as many references as precede
  the walk, its end is where the walk is. With references that begin with the first
  article of the thread it happens not to matter; with references that begin in the
  middle only the first is touched, against `ChangeLog:539-541`.

Seen while modelling; modelled as the code has it, without a run of its own:

* The alarm can take a command away: `waitCmdLn` returns 0 if the flag is set, also when
  `fgets` has already returned the line, or its first half (`server.c:250-254`; the
  comment at 234 says 0 on timeout, > 0 on success).
* The text of an article that is posted is read without a timeout while the lock is held
  (`server.c:1186`): a client that stops there blocks everybody, though the head of
  `noffle.c` (9-11) promises that the lock is released when a client pauses. That is why
  `WaiterServed` assumes `PatientClients`.
* `Fetch_getReq_` removes each batch from the list of requests also when the connection is
  gone (`fetch.c:177`), so what was marked is forgotten (`cut`); `docs/noffle.1:164` says
  that all marked articles are retrieved. A process that is killed while the list of
  requests is rewritten, or before it is, loses marks as well (`request.c:286`), and `cut`
  takes that out of `ForgottenOnlyWhenCut`, too.
* An article that comes without a body is refused by `Db_storeArt` (`database.c:300-304`),
  and its mark is removed all the same, so that it is neither there nor said to have
  failed. When a server that is online asks for it, the reader gets what has come of the
  header, with the flags cleared in the buffer; who reads it again at once saves that.
* Cancelling leaves the overviews: `sscanf( ref, "%s:%d", ... )` never matches a reference,
  since `%s` takes the colon (`control.c:56`, comment at 46-49); the loop ends at the first.
* A server whose `initServer` fails executes the command all the same, without lock
  and databases (`server.c:1773-1781`). `WorkUnderLock` says that it has none of them then,
  never some.
* A connection that breaks while articles are posted empties the outgoing directory:
  each article is removed before `Client_postArt`, which fails at once without a
  connection (`fetch.c:240-251`). `returnArticleToSender` does nothing (`fetch.c:182-188`),
  against `mail-to` in `docs/noffle.conf.5` and `docs/INTERNALS:51-52` ("the message is
  posted on and the file removed"). `PostedOnce` holds because of this order; that an
  article is posted at all is not promised by the code.
* max-fetch lets one more article through than it says: `last - first > max`
  (`fetch.c:119`) against "Never get more than <n> articles" in `docs/noffle.conf.5`. The
  `n <= range[2] - MaxFetch` of `NoneLost` is about what is cut when it is cut.
* A group that becomes known while it is empty is expected to begin with 0 or
  1, by the server's way to say so; with 0 the first articles come with a notice
  that some are missing. `NoticesAreTrue` makes an exception of it.
* `lastupdate.SERVER` is stamped after the list has been read (`client.c:452`): groups that
  the server gets in the meantime are never reported (`late`).
* `rmtNext` is stored with each line, the overviews with `Cont_write`: a fetch that is killed
  in between skips what it had in memory (the `plan' # <<>>` of `NoneLost`).
* A server that has begun anew and reached the same count goes unnoticed, and what
  it has is not fetched; an empty one of this kind repeats its "inconsistent" notice
  with each fetch.
* A cancel message for an article of a remote group is not passed on, since the `sscanf` of
  `control.c:56` fails before `CANCEL_NEEDS_MSG` is set. Other control messages go to the
  server of the first external group only (`server.c:1052-1069`).
* POST looks for a server's name with `strstr` in the list of those it has already sent
  to (`server.c:1138`): one whose name is part of another's is left out.
* `parseOvLn` fails on a bad line, and `Client_getOver` then reads a number it has not set
  when it is the first (`client.c:743-761`).
* `checkNewArts` asks for the last access of the group the session comes from, not of
  the one it goes to (`server.c:282`).
* `Grp_close` leaves the rest of the record under the empty name, and `noteInterest` with no
  group selected stores it there: groupinfo gets a record under `""` (`group.c:101`). The
  empty name is the exception in `CacheIsRecord`.
* NEWGROUPS misses the groups of a list that has broken off, since the stamp is not
  written then, and groups made in the second of a poll, since it compares with `>`
  (`slipped`).
* A remote server that lists the name of a local group takes it over, since every remote
  server is preferred to the local one (`client.c`, `Cfg_servIsPreferential`).
* `doDeleteLocalGroup` keeps the message id of the turn before when a number has no
  overview: an article in front of a gap is deleted even if other groups have it
  (`noffle.c:314-330`). `Misdeleted` makes an exception of it.
* XOVER of a range in which nothing is answers with the current article; the pointer
  moves also when `whichId` then finds that the article has gone.
* `auto-unsubscribe-days` sets the flag `autoUnsubscribe` instead of the number of days
  (`configfile.c:356-357` against `docs/noffle.conf.5:62`); an unknown
  `auto-subscribe-mode` ends the reading of the file, and all that follows is ignored.
* Expiry takes the longest of the first *longer* matches of an article's groups, and a
  group without a line counts only if no other has one (`database.c:604-619`); the manual
  gives each group its first match, or the default (`docs/noffle.conf.5:135-140`).
  `KeptLongEnough` is what both keep.
* Two lists of requests that are written within the same second have the same mtime,
  and a copy that is outdated counts as current (`request.c:128` against the comment
  at 372-375). `MaySameSecond = TRUE` lets the model do that; `CopyIsFile` then fails.
* The notice of auto-subscription is appended to the cached content and written over
  what others have added to the overview file since (`server.c:139-143`); with
  `"subscribe"` among the reactions `OverviewsKept` does not hold.
* After POST to a local group the cached content is that group's, not the selected
  one's (`post.c:123`), so the notice may go to the local group. With no group selected
  the empty name is put on the fetch list, as a line that is read back as the name of its
  mode (`server.c:141`, `fetchlist.c`); the model leaves that line out.
* A general info saved between two articles goes at the next expiry (`noffle.c:222`, its
  message id is in no database), not with the confirmation as `docs/INTERNALS` says.
* A fetch that is killed within `retrievingFailed` leaves the failure as the article's
  text for good (`client.c:776-777`, `pseudo.c:242-244`).
* `polsys.pl`: a client that leaves at the prompt for a hint saves an empty one; after a
  race the file may stay longer than 20 lines, since one line is shifted per save;
  a killed save leaves the file empty; two children that end together leave a zombie.
* `diary.pl`: the handler keeps the parent from `accept` as long as any child runs;
  after a failed fork the client stays connected and unserved until the next one; lines
  that come together are taken for one; the answer to a wrong RESPONSE tells what would
  have been right for the challenge that has just been given up; children begin with
  the parent's challenge and the same state of `rand`, so the challenges of two
  conversations are not independent: `LetIn` is about one conversation.
* `tcpserver`: the children that have become noffle stay when it is stopped, so a new
  parent may come to more than 40 in total (`orphan`); the second loop of UDP queries
  does not move on at a failure but waits for its timeout.
* `p2p.c:154` evaluates `strlen` anew in each turn while masking may have put a zero into
  the text.

## 6. What is abstracted, what is not modelled

* Texts, headers and message ids are model values or small sets. A command that only
  reads what is cached and changes nothing is not an action.
* *NewsServer*: a command, and the run of a tool, is one step; kills happen between them
  (`Cont_write` is planned to be split). Which articles and groups an option of the
  configuration concerns is open, so each reaction may happen or not. Errors of disk
  and databases are left out, and so is `rmtNext`: a fetch may bring any new overviews.
* *Reading*: what HEAD, STAT and XOVER say is left out, not about which articles. Headers
  that XPAT compares match or do not. NEWNEWS, HELP and MODE change nothing.
* *GroupInfo*: article numbers, last access and descriptions are left out, but each write
  of a field writes the record as it is in memory. A tool's run is one step.
* *Wildmat*: ten characters, of which three are letters.
* *Expiry*: a day is the unit of time, message ids have one length, and what a turn under
  the lock does is one step but for an expiry. Xref is never empty, as every entry comes
  with a group; `Db_expire` would drop an entry without one.
* *Requests*: one remote server, so one list (`cleanupReqserv` with several, `request.c:131`,
  is not modelled). Retrieval by a server that is online is
  one step. A missing file is an empty one. Database records are written at once.
* *RemoteSession*: one remote server; lines it sends are well formed, it asks for no
  password and forbids no group. Which groups permit posting is left out. Adding to
  the outgoing directory works. Descriptions of groups (`Client_getDsc`) are not asked for. Overviews of a group that expire here do not
  leave `shown`, which is what the file has ever got.
* *Polsys*: reading the file is one step, as is writing its buffer at `close`; hints that
  fill more than one buffer, or a packet of `recv` (512 bytes), are left out. What
  `readentries` shows is not recorded. A client that is already in the backlog sends
  nothing before it is served; it may do the same right after.
* *ForkServer*: Perl restarts `accept` after a signal; the limit of 255 waiting connections
  is not reached; `killall` ends all processes of a script at once.
* *Diary*: texts of entries and the encoding of a response; that two calls of `rand` agree.
* *TcpServer, Resolver*: contents of packets and names; reads and writes that move a part
  of the bytes; rules files and options that `init/newsserver` does not use.
* Not modelled at all: `p2p.c` and `bulld.c` (one process each, whose steps no other
  meets), the scripts that send generated text once, the configuration of programs
  from elsewhere, and what noffle does with strings, lists and its log.

## 7. Plan

Built: SpoolLock with SpoolAccess, Content and NewsServer with Reading, Requests,
RemoteSession, GroupInfo with Wildmat, Expiry, ForkServer with Polsys and Diary, Resolver
and TcpServer. Left, in this order:

1. **An abstract specification of posting**: an article that has been accepted is queued,
   posted, refused, cancelled or lost, once; RemoteSession implements it.
2. **Crashes within a file**: `Cont_write` in its steps with a kill in between.
3. **Composition**: that Requests and NewsServer may treat a command as a step because
   SpoolLock implements SpoolAccess.
4. **Several remote servers** in Requests and RemoteSession.

As modules are added, runs that answer the same question on the same module are merged.
