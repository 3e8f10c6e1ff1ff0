----------------------------- MODULE SpoolLock -----------------------------
(***************************************************************************)
(* The global lock of noffle's spool directory (lock.c) and the two kinds  *)
(* of process that take it: the interactive noffle, which holds it for its *)
(* whole run (noffle.c), and the NNTP server on stdin/stdout, which takes  *)
(* it when a command arrives and gives it back when no command has come    *)
(* for five seconds (server.c, Server_run and waitCmdLn).                  *)
(*                                                                         *)
(* The lock is an fcntl write lock: the kernel owns it (lockOwner), frees  *)
(* it when the process dies, and grants it to any one of the waiters.      *)
(***************************************************************************)
EXTENDS Naturals

CONSTANTS Servers,      \* noffle -r, one per connected client
          Tools,        \* noffle -f, -e, -c ... : the interactive runs
          NoProc,       \* nobody
          MayNotOpen,   \* processes whose open() of a lock or database file may fail
          MayDie        \* may processes be killed by a signal?

Procs == Servers \cup Tools

ASSUME LockAssumption == /\ Servers \cap Tools = {}
                         /\ NoProc \notin Procs
                         /\ MayNotOpen \subseteq Procs
                         /\ MayDie \in BOOLEAN

VARIABLES lockOwner,  \* holder of the fcntl lock on SPOOLDIR/lock/global
          pc,         \* where each process is
          files,      \* files[p]: the databases p has open
          running,    \* running[s]: server.running
          done,       \* done[s]: leave Server_run's loop
          wire,       \* wire[s]: what the client has sent and s has not read
          line        \* line[s]: the line that fgets returned last

vars == <<lockOwner, pc, files, running, done, wire, line>>

Databases == {"db", "grp", "req"}

\* Command lines as the server reacts to them.  "half" is the first part of
\* a line whose rest is still under way, "rest" that rest on its own.
Commands == {"cmd", "post", "quit"}
Lines    == Commands \cup {"rest"}
Wires    == Lines \cup {"nothing", "half", "eof"}

Pcs == {"off", "wait", "gotLine", "lock", "openDb", "openGrp", "openReq",
        "undoGrp", "undoDb", "undoLock", "exec", "text",
        "closeGrp", "closeDb", "closeReq", "unlock"}

TypeOK == /\ lockOwner \in Procs \cup {NoProc}
          /\ pc \in [Procs -> Pcs]
          /\ files \in [Procs -> SUBSET Databases]
          /\ running \in [Servers -> BOOLEAN]
          /\ done \in [Servers -> BOOLEAN]
          /\ wire \in [Servers -> Wires]
          /\ line \in [Servers -> Lines \cup {"nothing"}]

Init == /\ lockOwner = NoProc
        /\ pc = [p \in Procs |-> "off"]
        /\ files = [p \in Procs |-> {}]
        /\ running = [s \in Servers |-> FALSE]
        /\ done = [s \in Servers |-> FALSE]
        /\ wire = [s \in Servers |-> "nothing"]
        /\ line = [s \in Servers |-> "nothing"]

Goto(p, from, to) == pc[p] = from /\ pc' = [pc EXCEPT ![p] = to]

-----------------------------------------------------------------------------
(* The clients: a news reader sends one line and waits for the answer.  A  *)
(* line may arrive in two pieces.                                          *)

Connect(s) == /\ Goto(s, "off", "wait")
              /\ wire' = [wire EXCEPT ![s] = "nothing"]
              /\ line' = [line EXCEPT ![s] = "nothing"]
              /\ done' = [done EXCEPT ![s] = FALSE]
              /\ UNCHANGED <<lockOwner, files, running>>

ClientSends(s) == /\ pc[s] = "wait"
                  /\ wire[s] = "nothing"
                  /\ \E w \in Commands \cup {"half", "eof"} :
                        wire' = [wire EXCEPT ![s] = w]
                  /\ UNCHANGED <<lockOwner, pc, files, running, done, line>>

ClientSendsRest(s) == /\ wire[s] = "half"
                      /\ wire' = [wire EXCEPT ![s] = "cmd"]
                      /\ UNCHANGED <<lockOwner, pc, files, running, done, line>>

-----------------------------------------------------------------------------
(* waitCmdLn( line, 5 ) and the loop of Server_run.                        *)

\* fgets returns a complete line; alarm( 0 ) has not been called yet.
GetLine(s) == /\ wire[s] \in Lines
              /\ Goto(s, "wait", "gotLine")
              /\ line' = [line EXCEPT ![s] = wire[s]]
              /\ wire' = [wire EXCEPT ![s] = "nothing"]
              /\ UNCHANGED <<lockOwner, files, running, done>>

\* waitCmdLn returns 0: closeServer if the server is running, and wait again.
TimedOut(s, from) ==
    /\ Goto(s, from, IF running[s] THEN "closeGrp" ELSE "wait")
    /\ running' = [running EXCEPT ![s] = FALSE]

\* The alarm interrupts fgets, which gives up what it has read of a line.
TimeoutInRead(s) ==
    /\ wire[s] \in {"nothing", "half"}
    /\ TimedOut(s, "wait")
    /\ wire' = [wire EXCEPT ![s] = IF @ = "half" THEN "rest" ELSE @]
    /\ UNCHANGED <<lockOwner, files, done, line>>

\* The alarm fires after fgets has returned a line and before alarm( 0 ):
\* readAlarmFlag is set, waitCmdLn returns 0 and the line is forgotten.
TimeoutAfterRead(s) ==
    /\ TimedOut(s, "gotLine")
    /\ line' = [line EXCEPT ![s] = "nothing"]
    /\ UNCHANGED <<lockOwner, files, done, wire>>

\* Mistake: initServer is left out, as if the lock were held all the time.
TakeCommandUnlocked(s) ==
    /\ Goto(s, "gotLine", "exec")
    /\ UNCHANGED <<lockOwner, files, running, done, wire, line>>

\* r > 0: initServer unless the server is running, then the command.
TakeCommand(s) == /\ Goto(s, "gotLine", IF running[s] THEN "exec" ELSE "lock")
                  /\ UNCHANGED <<lockOwner, files, running, done, wire, line>>

\* The loop is left: closeServer if the server is running, and exit.
LeaveLoop(s, from) == /\ Goto(s, from, IF running[s] THEN "closeGrp" ELSE "off")
                      /\ running' = [running EXCEPT ![s] = FALSE]

\* Mistake: the server exits its loop without closeServer but stays alive.
DisconnectedUnclosed(s) == /\ wire[s] = "eof"
                           /\ Goto(s, "wait", "off")
                           /\ done' = [done EXCEPT ![s] = TRUE]
                           /\ UNCHANGED <<lockOwner, files, running, wire, line>>

\* r < 0: the client has gone.
Disconnected(s) == /\ wire[s] = "eof"
                   /\ LeaveLoop(s, "wait")
                   /\ done' = [done EXCEPT ![s] = TRUE]
                   /\ UNCHANGED <<lockOwner, files, wire, line>>

-----------------------------------------------------------------------------
(* Lock_openDatabases, for a server's command and for a tool's run.        *)

StartTool(t) == /\ Goto(t, "off", "lock")
                /\ UNCHANGED <<lockOwner, files, running, done, wire, line>>

\* Mistake: F_SETLK with its result ignored, instead of F_SETLKW.
AcquireAnyway(p) == /\ Goto(p, "lock", "openDb")
                    /\ lockOwner' = IF lockOwner = NoProc THEN p ELSE lockOwner
                    /\ UNCHANGED <<files, running, done, wire, line>>

\* F_SETLKW is granted.
Acquire(p) == /\ lockOwner = NoProc
              /\ Goto(p, "lock", "openDb")
              /\ lockOwner' = p
              /\ UNCHANGED <<files, running, done, wire, line>>

OpenStep(p, from, file, to) ==
    /\ Goto(p, from, to)
    /\ files' = [files EXCEPT ![p] = @ \cup {file}]
    /\ UNCHANGED <<lockOwner, done, wire, line>>

OpenDb(p)  == OpenStep(p, "openDb", "db", "openGrp") /\ UNCHANGED running
OpenGrp(p) == OpenStep(p, "openGrp", "grp", "openReq") /\ UNCHANGED running
OpenReq(p) == /\ OpenStep(p, "openReq", "req", "exec")
              /\ running' = [s \in Servers |-> s = p \/ running[s]]

\* Lock_openDatabases returns FALSE.  A tool exits; a server tells the client
\* "Cannot init server", sets done and still executes the command.
GiveUp(p, from) ==
    /\ Goto(p, from, IF p \in Servers THEN "exec" ELSE "off")
    /\ done' = [s \in Servers |-> s = p \/ done[s]]
    /\ UNCHANGED <<running, wire, line>>

NoLockFile(p) == /\ p \in MayNotOpen
                 /\ GiveUp(p, "lock")
                 /\ UNCHANGED <<lockOwner, files>>

OpenFails(p) == /\ p \in MayNotOpen
                /\ \/ Goto(p, "openDb", "undoLock")
                   \/ Goto(p, "openGrp", "undoDb")
                   \/ Goto(p, "openReq", "undoGrp")
                /\ UNCHANGED <<lockOwner, files, running, done, wire, line>>

CloseStep(p, from, file, to) ==
    /\ Goto(p, from, to)
    /\ files' = [files EXCEPT ![p] = @ \ {file}]
    /\ UNCHANGED <<lockOwner, running, done, wire, line>>

\* Mistake: the error path after a failed Db_open forgets releaseLock.
UndoNothing(p) == GiveUp(p, "undoLock") /\ UNCHANGED <<lockOwner, files>>

UndoGrp(p)  == CloseStep(p, "undoGrp", "grp", "undoDb")
UndoDb(p)   == CloseStep(p, "undoDb", "db", "undoLock")
UndoLock(p) == /\ GiveUp(p, "undoLock")
               /\ lockOwner' = NoProc
               /\ UNCHANGED files

-----------------------------------------------------------------------------
(* parseAndExecute of a server, the run of a tool.                         *)

ExecTool(t) == /\ Goto(t, "exec", "closeGrp")
               /\ UNCHANGED <<lockOwner, files, running, done, wire, line>>

\* Back to the head of the loop, or out of it after QUIT or a failed init.
EndCommand(s, from, quit) ==
    /\ IF quit \/ done[s]
         THEN LeaveLoop(s, from)
         ELSE Goto(s, from, "wait") /\ UNCHANGED running
    /\ done' = [done EXCEPT ![s] = @ \/ quit]
    /\ line' = [line EXCEPT ![s] = "nothing"]
    /\ UNCHANGED <<lockOwner, files, wire>>

ExecCommand(s) == /\ line[s] # "post"
                  /\ EndCommand(s, "exec", line[s] = "quit")

\* doPost answers "Continue" and reads the article without any timeout.
ExecPost(s) == /\ line[s] = "post"
               /\ Goto(s, "exec", "text")
               /\ UNCHANGED <<lockOwner, files, running, done, wire, line>>

\* The client has sent the text up to the period, or has gone.
EndOfText(s) == EndCommand(s, "text", FALSE)

-----------------------------------------------------------------------------
(* Lock_closeDatabases.                                                    *)

CloseGrp(p) == CloseStep(p, "closeGrp", "grp", "closeDb")
CloseDb(p)  == CloseStep(p, "closeDb", "db", "closeReq")
CloseReq(p) == CloseStep(p, "closeReq", "req", "unlock")

Unlock(p) == /\ Goto(p, "unlock",
                     IF p \in Servers /\ ~done[p] THEN "wait" ELSE "off")
             /\ lockOwner' = NoProc
             /\ UNCHANGED <<files, running, done, wire, line>>

-----------------------------------------------------------------------------
\* A signal ends the process: the kernel closes its files and frees its lock.
Die(p) == /\ MayDie
          /\ pc[p] # "off"
          /\ pc' = [pc EXCEPT ![p] = "off"]
          /\ files' = [files EXCEPT ![p] = {}]
          /\ running' = [s \in Servers |-> s # p /\ running[s]]
          /\ lockOwner' = IF lockOwner = p THEN NoProc ELSE lockOwner
          /\ UNCHANGED <<done, wire, line>>

Client(s) == Connect(s) \/ ClientSends(s) \/ ClientSendsRest(s)

ServerStep(s) == \/ GetLine(s) \/ TakeCommand(s) \/ Disconnected(s)
                 \/ ExecCommand(s) \/ ExecPost(s)

LockStep(p) == \/ NoLockFile(p) \/ OpenDb(p) \/ OpenGrp(p) \/ OpenReq(p)
               \/ OpenFails(p) \/ UndoGrp(p) \/ UndoDb(p) \/ UndoLock(p)
               \/ CloseGrp(p) \/ CloseDb(p) \/ CloseReq(p) \/ Unlock(p)

Next == \/ \E s \in Servers : \/ Client(s) \/ ServerStep(s) \/ EndOfText(s)
                              \/ TimeoutInRead(s) \/ TimeoutAfterRead(s)
        \/ \E t \in Tools : StartTool(t) \/ ExecTool(t)
        \/ \E p \in Procs : Acquire(p) \/ LockStep(p) \/ Die(p)

Spec == Init /\ [][Next]_vars

(* Fairness: a process that can run does run; the kernel does not pass over *)
(* a waiter for ever; no client keeps its server busy without ever pausing  *)
(* for five seconds, so the alarm of an idle server does go off.            *)
ProcessFairness ==
    /\ \A s \in Servers : WF_vars(ServerStep(s)) /\ SF_vars(TimeoutInRead(s))
    /\ \A t \in Tools : WF_vars(ExecTool(t))
    /\ \A p \in Procs : WF_vars(LockStep(p)) /\ SF_vars(Acquire(p))

\* Clients that finish, or break off, the articles they post.
PatientClients == \A s \in Servers : WF_vars(EndOfText(s))

FairSpec   == Spec /\ ProcessFairness /\ PatientClients
-----------------------------------------------------------------------------
(* Properties *)

\* Lock_openDatabases opens, and Lock_closeDatabases closes, every database
\* while the process holds the global lock, on the error paths too.
OpenOnlyUnderLock == \A p \in Procs : files[p] # {} => lockOwner = p

\* A process that has exited, and a server that waits for a command without
\* having the databases open, holds neither the lock nor a file (the unwinding
\* of a failed Lock_openDatabases leaves nothing behind).
NothingLeftBehind ==
    \A p \in Procs :
        pc[p] = "off" \/ (p \in Servers /\ pc[p] = "wait" /\ ~running[p])
            => lockOwner # p /\ files[p] = {}

\* noffle.c:8 "lock access to databases while noffle is running": a command of
\* a client and the work of a tool run with the lock held and all databases
\* open, or, after an initServer that has failed, without any of it.
WorkUnderLock ==
    \A p \in Procs :
        pc[p] \in {"exec", "text"} =>
            \/ lockOwner = p /\ files[p] = Databases
            \/ p \in MayNotOpen /\ lockOwner # p /\ files[p] = {}

\* The processes take turns at the spool directory (see SpoolAccess).
Access == INSTANCE SpoolAccess
              WITH inside <- {p \in Procs : files[p] # {}}
AccessSpec == Access!Spec

\* noffle.c:10 "temporarily released ... (to allow multiple clients connect at
\* the same time)": whoever waits for the lock gets it, or is told that it
\* cannot be had.
WaiterServed == \A p \in Procs : pc[p] = "lock" ~> pc[p] # "lock"
=============================================================================
