-------------------------- MODULE SpoolLockProofs --------------------------
(***************************************************************************)
(* Proofs about the global lock for any number of servers and tools.  The  *)
(* inductive invariant says, for every place a process can be in, whether  *)
(* it owns the lock and which databases it has open there.                 *)
(***************************************************************************)
EXTENDS SpoolLock, TLAPS

\* The processes that own the lock: those between Acquire and Unlock, where a
\* server is one in its loop exactly as long as server.running is set.
Holds(p) == \/ pc[p] \in {"openDb", "openGrp", "openReq", "undoGrp", "undoDb",
                          "undoLock", "closeGrp", "closeDb", "closeReq",
                          "unlock"}
            \/ p \in Servers /\ running[p]
            \/ p \in Tools /\ pc[p] = "exec"

FilesAt(p) ==
    CASE pc[p] \in {"openGrp", "undoDb"}  -> {"db"}
      [] pc[p] \in {"openReq", "undoGrp"} -> {"db", "grp"}
      [] pc[p] = "closeDb"                -> {"db", "req"}
      [] pc[p] = "closeReq"               -> {"req"}
      [] pc[p] = "closeGrp"               -> Databases
      [] pc[p] \in {"wait", "gotLine", "exec", "text"} ->
             IF Holds(p) THEN Databases ELSE {}
      [] OTHER -> {}

Discipline == \A p \in Procs : /\ lockOwner = p <=> Holds(p)
                               /\ files[p] = FilesAt(p)

Loops == /\ \A s \in Servers :
               running[s] => pc[s] \in {"wait", "gotLine", "exec", "text"}
         /\ \A t \in Tools : pc[t] \notin {"wait", "gotLine", "text"}

IInv == TypeOK /\ Discipline /\ Loops

USE DEF Procs, Pcs, Databases, Commands, Lines, Wires

LEMMA InitIInv == Init => IInv
  BY LockAssumption DEF Init, IInv, TypeOK, Discipline, Loops, Holds, FilesAt

\* The end of a command: back to waitCmdLn, or closeServer.
LEMMA EndCommandKeeps ==
  ASSUME NEW s \in Servers, NEW from \in {"exec", "text"},
         NEW quit \in BOOLEAN, IInv, EndCommand(s, from, quit)
  PROVE  IInv'
<1> USE LockAssumption DEF IInv, TypeOK, Discipline, Loops, Holds, FilesAt, Goto
<1>1. TypeOK'
  <2> DEFINE last == done[s] \/ quit
  <2>1. last \in BOOLEAN
    BY Zenon
  <2>2. done' = [done EXCEPT ![s] = last]
    BY DEF EndCommand
  <2>3. done' \in [Servers -> BOOLEAN]
    <3> HIDE DEF last
    <3> QED
      BY <2>1, <2>2
  <2> QED
    <3>1. /\ lockOwner' = lockOwner /\ files' = files /\ wire' = wire
          /\ line' \in [Servers -> Lines \cup {"nothing"}]
      BY DEF EndCommand
    <3>2. /\ pc' \in [Procs -> Pcs]
          /\ running' \in [Servers -> BOOLEAN]
      <4>1. CASE LeaveLoop(s, from)
        BY <4>1 DEF LeaveLoop
      <4>2. CASE Goto(s, from, "wait") /\ UNCHANGED running
        BY <4>2
      <4> QED
        BY <4>1, <4>2, Zenon DEF EndCommand
    <3> QED
      BY <2>3, <3>1, <3>2
<1>2. Discipline'
  BY DEF EndCommand, LeaveLoop
<1>3. Loops'
  BY DEF EndCommand, LeaveLoop
<1> QED
  BY <1>1, <1>2, <1>3

\* A step of one process that takes nothing from the others.
LEMMA FileStep ==
  ASSUME IInv, NEW p \in Procs, NEW to \in Pcs, NEW now \in SUBSET Databases,
         pc' = [pc EXCEPT ![p] = to], files' = [files EXCEPT ![p] = now],
         \A s \in Servers \ {p} : running'[s] = running[s],
         \A q \in Procs \ {p} : lockOwner' = q <=> lockOwner = q,
         lockOwner' = p <=> Holds(p)', FilesAt(p)' = now
  PROVE  Discipline'
<1>1. ASSUME NEW q \in Procs, q # p
      PROVE  /\ Holds(q)' <=> Holds(q)
             /\ FilesAt(q)' = FilesAt(q)
             /\ files'[q] = files[q]
  <2>1. pc'[q] = pc[q] /\ files'[q] = files[q]
    BY <1>1 DEF IInv, TypeOK
  <2>2. Holds(q)' <=> Holds(q)
    BY <1>1, <2>1 DEF Holds
  <2> QED
    BY <2>1, <2>2 DEF FilesAt
<1>2. files'[p] = now
  BY DEF IInv, TypeOK
<1> QED
  BY <1>1, <1>2 DEF Discipline, IInv

\* Steps of Lock_openDatabases and Lock_closeDatabases.
LEMMA FileSteps ==
  ASSUME IInv, NEW p \in Procs,
         \/ OpenDb(p) \/ OpenGrp(p) \/ UndoGrp(p) \/ UndoDb(p)
         \/ CloseGrp(p) \/ CloseDb(p) \/ CloseReq(p)
         \/ OpenReq(p) \/ Die(p)
  PROVE  Discipline'
<1>1. CASE OpenGrp(p)
  <2>1. /\ pc[p] = "openGrp"
        /\ pc' = [pc EXCEPT ![p] = "openReq"]
        /\ UNCHANGED <<lockOwner, running>>
    BY <1>1 DEF OpenGrp, OpenStep, Goto
  <2>2. lockOwner = p /\ files[p] = {"db"}
    BY <2>1 DEF IInv, Discipline, Holds, FilesAt
  <2>3. files' = [files EXCEPT ![p] = {"db", "grp"}]
    BY <1>1, <2>2 DEF OpenGrp, OpenStep
  <2>4. pc'[p] = "openReq"
    BY <2>1 DEF IInv, TypeOK
  <2>5. Holds(p)' /\ FilesAt(p)' = {"db", "grp"}
    BY <2>4 DEF Holds, FilesAt
  <2> QED
    BY <2>1, <2>2, <2>3, <2>5, FileStep
<1>2. CASE UndoGrp(p)
  <2>1. /\ pc[p] = "undoGrp"
        /\ pc' = [pc EXCEPT ![p] = "undoDb"]
        /\ UNCHANGED <<lockOwner, running>>
    BY <1>2 DEF UndoGrp, CloseStep, Goto
  <2>2. lockOwner = p /\ files[p] = {"db", "grp"}
    BY <2>1 DEF IInv, Discipline, Holds, FilesAt
  <2>3. files' = [files EXCEPT ![p] = {"db"}]
    BY <1>2, <2>2 DEF UndoGrp, CloseStep
  <2>4. pc'[p] = "undoDb"
    BY <2>1 DEF IInv, TypeOK
  <2>5. Holds(p)' /\ FilesAt(p)' = {"db"}
    BY <2>4 DEF Holds, FilesAt
  <2> QED
    BY <2>1, <2>2, <2>3, <2>5, FileStep
<1>3. CASE CloseGrp(p)
  <2>1. /\ pc[p] = "closeGrp"
        /\ pc' = [pc EXCEPT ![p] = "closeDb"]
        /\ UNCHANGED <<lockOwner, running>>
    BY <1>3 DEF CloseGrp, CloseStep, Goto
  <2>2. lockOwner = p /\ files[p] = Databases
    BY <2>1 DEF IInv, Discipline, Holds, FilesAt
  <2>3. files' = [files EXCEPT ![p] = {"db", "req"}]
    BY <1>3, <2>2 DEF CloseGrp, CloseStep
  <2>4. pc'[p] = "closeDb"
    BY <2>1 DEF IInv, TypeOK
  <2>5. Holds(p)' /\ FilesAt(p)' = {"db", "req"}
    BY <2>4 DEF Holds, FilesAt
  <2> QED
    BY <2>1, <2>2, <2>3, <2>5, FileStep
<1>4. CASE CloseDb(p)
  <2>1. /\ pc[p] = "closeDb"
        /\ pc' = [pc EXCEPT ![p] = "closeReq"]
        /\ UNCHANGED <<lockOwner, running>>
    BY <1>4 DEF CloseDb, CloseStep, Goto
  <2>2. lockOwner = p /\ files[p] = {"db", "req"}
    BY <2>1 DEF IInv, Discipline, Holds, FilesAt
  <2>3. files' = [files EXCEPT ![p] = {"req"}]
    BY <1>4, <2>2 DEF CloseDb, CloseStep
  <2>4. pc'[p] = "closeReq"
    BY <2>1 DEF IInv, TypeOK
  <2>5. Holds(p)' /\ FilesAt(p)' = {"req"}
    BY <2>4 DEF Holds, FilesAt
  <2> QED
    BY <2>1, <2>2, <2>3, <2>5, FileStep
<1>5. CASE OpenDb(p)
  <2>1. /\ pc[p] = "openDb"
        /\ pc' = [pc EXCEPT ![p] = "openGrp"]
        /\ UNCHANGED <<lockOwner, running>>
    BY <1>5 DEF OpenDb, OpenStep, Goto
  <2>2. lockOwner = p /\ files[p] = {}
    BY <2>1 DEF IInv, Discipline, Holds, FilesAt
  <2>3. files' = [files EXCEPT ![p] = {"db"}]
    BY <1>5, <2>2 DEF OpenDb, OpenStep
  <2>4. pc'[p] = "openGrp"
    BY <2>1 DEF IInv, TypeOK
  <2>5. Holds(p)' /\ FilesAt(p)' = {"db"}
    BY <2>4 DEF Holds, FilesAt
  <2> QED
    BY <2>1, <2>2, <2>3, <2>5, FileStep
<1>6. CASE UndoDb(p)
  <2>1. /\ pc[p] = "undoDb"
        /\ pc' = [pc EXCEPT ![p] = "undoLock"]
        /\ UNCHANGED <<lockOwner, running>>
    BY <1>6 DEF UndoDb, CloseStep, Goto
  <2>2. lockOwner = p /\ files[p] = {"db"}
    BY <2>1 DEF IInv, Discipline, Holds, FilesAt
  <2>3. files' = [files EXCEPT ![p] = {}]
    BY <1>6, <2>2 DEF UndoDb, CloseStep
  <2>4. pc'[p] = "undoLock"
    BY <2>1 DEF IInv, TypeOK
  <2>5. Holds(p)' /\ FilesAt(p)' = {}
    BY <2>4 DEF Holds, FilesAt
  <2> QED
    BY <2>1, <2>2, <2>3, <2>5, FileStep
<1>7. CASE CloseReq(p)
  <2>1. /\ pc[p] = "closeReq"
        /\ pc' = [pc EXCEPT ![p] = "unlock"]
        /\ UNCHANGED <<lockOwner, running>>
    BY <1>7 DEF CloseReq, CloseStep, Goto
  <2>2. lockOwner = p /\ files[p] = {"req"}
    BY <2>1 DEF IInv, Discipline, Holds, FilesAt
  <2>3. files' = [files EXCEPT ![p] = {}]
    BY <1>7, <2>2 DEF CloseReq, CloseStep
  <2>4. pc'[p] = "unlock"
    BY <2>1 DEF IInv, TypeOK
  <2>5. Holds(p)' /\ FilesAt(p)' = {}
    BY <2>4 DEF Holds, FilesAt
  <2> QED
    BY <2>1, <2>2, <2>3, <2>5, FileStep
<1>8. CASE OpenReq(p)
  <2>1. /\ pc[p] = "openReq"
        /\ pc' = [pc EXCEPT ![p] = "exec"]
        /\ lockOwner' = lockOwner
        /\ running' = [s \in Servers |-> s = p \/ running[s]]
    BY <1>8 DEF OpenReq, OpenStep, Goto
  <2>2. lockOwner = p /\ files[p] = {"db", "grp"}
    BY <2>1 DEF IInv, Discipline, Holds, FilesAt
  <2>3. files' = [files EXCEPT ![p] = Databases]
    BY <1>8, <2>2 DEF OpenReq, OpenStep
  <2>4. pc'[p] = "exec"
    BY <2>1 DEF IInv, TypeOK
  <2>5. Holds(p)' /\ FilesAt(p)' = Databases
    BY <2>1, <2>4 DEF Holds, FilesAt
  <2>6. \A s \in Servers \ {p} : running'[s] = running[s]
    BY <2>1 DEF IInv, TypeOK
  <2> QED
    BY <2>1, <2>2, <2>3, <2>5, <2>6, FileStep
<1>9. CASE Die(p)
  <2>1. /\ pc' = [pc EXCEPT ![p] = "off"]
        /\ files' = [files EXCEPT ![p] = {}]
        /\ running' = [s \in Servers |-> s # p /\ running[s]]
        /\ lockOwner' = IF lockOwner = p THEN NoProc ELSE lockOwner
    BY <1>9 DEF Die
  <2>2. pc'[p] = "off"
    BY <2>1 DEF IInv, TypeOK
  <2>3. ~Holds(p)' /\ FilesAt(p)' = {}
    BY <2>1, <2>2 DEF Holds, FilesAt
  <2>4. /\ lockOwner' # p
        /\ \A q \in Procs \ {p} : lockOwner' = q <=> lockOwner = q
    BY <2>1, LockAssumption
  <2>5. \A s \in Servers \ {p} : running'[s] = running[s]
    BY <2>1 DEF IInv, TypeOK
  <2> QED
    BY <2>1, <2>3, <2>4, <2>5, FileStep
<1> QED
  BY <1>1, <1>2, <1>3, <1>4, <1>5, <1>6, <1>7, <1>8, <1>9

\* Every action of the program keeps the invariant.
LEMMA NextIInv == IInv /\ [Next]_vars => IInv'
<1> SUFFICES ASSUME IInv, [Next]_vars PROVE IInv'
  OBVIOUS
<1> USE LockAssumption DEF IInv, TypeOK, Discipline, Loops, Holds, FilesAt, Goto
<1>1. ASSUME NEW s \in Servers, Connect(s) PROVE IInv'
  BY <1>1 DEF Connect
<1>2. ASSUME NEW s \in Servers, ClientSends(s) PROVE IInv'
  BY <1>2 DEF ClientSends
<1>3. ASSUME NEW s \in Servers, ClientSendsRest(s) PROVE IInv'
  BY <1>3 DEF ClientSendsRest
<1>4. ASSUME NEW s \in Servers, GetLine(s) PROVE IInv'
  BY <1>4 DEF GetLine
<1>5. ASSUME NEW s \in Servers, TakeCommand(s) PROVE IInv'
  BY <1>5 DEF TakeCommand
<1>6. ASSUME NEW s \in Servers, Disconnected(s) PROVE IInv'
  BY <1>6 DEF Disconnected, LeaveLoop
<1>7. ASSUME NEW s \in Servers, ExecCommand(s) PROVE IInv'
  <2>1. EndCommand(s, "exec", line[s] = "quit")
    BY <1>7 DEF ExecCommand
  <2>2. (line[s] = "quit") \in BOOLEAN
    BY Zenon
  <2> QED
    BY <2>1, <2>2, EndCommandKeeps
<1>8. ASSUME NEW s \in Servers, ExecPost(s) PROVE IInv'
  BY <1>8 DEF ExecPost
<1>9. ASSUME NEW s \in Servers, EndOfText(s) PROVE IInv'
  BY <1>9, EndCommandKeeps DEF EndOfText
<1>10. ASSUME NEW s \in Servers, TimeoutInRead(s) PROVE IInv'
  BY <1>10 DEF TimeoutInRead, TimedOut
<1>11. ASSUME NEW s \in Servers, TimeoutAfterRead(s) PROVE IInv'
  BY <1>11 DEF TimeoutAfterRead, TimedOut
<1>12. ASSUME NEW t \in Tools, StartTool(t) PROVE IInv'
  BY <1>12 DEF StartTool
<1>13. ASSUME NEW t \in Tools, ExecTool(t) PROVE IInv'
  BY <1>13 DEF ExecTool
<1>14. ASSUME NEW p \in Procs, Acquire(p) PROVE IInv'
  BY <1>14 DEF Acquire
<1>15. ASSUME NEW p \in Procs, NoLockFile(p) PROVE IInv'
  BY <1>15 DEF NoLockFile, GiveUp
<1>16. ASSUME NEW p \in Procs, OpenDb(p) PROVE IInv'
  <2>1. TypeOK'
    BY <1>16 DEF OpenDb, OpenStep
  <2>2. Discipline'
    BY <1>16, FileSteps
  <2>3. Loops'
    BY <1>16 DEF OpenDb, OpenStep
  <2> QED
    BY <2>1, <2>2, <2>3
<1>17. ASSUME NEW p \in Procs, OpenGrp(p) PROVE IInv'
  <2>1. TypeOK'
    BY <1>17 DEF OpenGrp, OpenStep
  <2>2. Discipline'
    BY <1>17, FileSteps
  <2>3. Loops'
    BY <1>17 DEF OpenGrp, OpenStep
  <2> QED
    BY <2>1, <2>2, <2>3
<1>18. ASSUME NEW p \in Procs, OpenReq(p) PROVE IInv'
  <2>1. TypeOK'
    <3>1. running' \in [Servers -> BOOLEAN]
      BY <1>18, Zenon DEF OpenReq
    <3> QED
      BY <1>18, <3>1 DEF OpenReq, OpenStep
  <2>2. Discipline'
    BY <1>18, FileSteps
  <2>3. Loops'
    BY <1>18 DEF OpenReq, OpenStep
  <2> QED
    BY <2>1, <2>2, <2>3
<1>19. ASSUME NEW p \in Procs, OpenFails(p) PROVE IInv'
  BY <1>19 DEF OpenFails
<1>20. ASSUME NEW p \in Procs, UndoGrp(p) PROVE IInv'
  <2>1. TypeOK'
    BY <1>20 DEF UndoGrp, CloseStep
  <2>2. Discipline'
    BY <1>20, FileSteps
  <2>3. Loops'
    BY <1>20 DEF UndoGrp, CloseStep
  <2> QED
    BY <2>1, <2>2, <2>3
<1>21. ASSUME NEW p \in Procs, UndoDb(p) PROVE IInv'
  <2>1. TypeOK'
    BY <1>21 DEF UndoDb, CloseStep
  <2>2. Discipline'
    BY <1>21, FileSteps
  <2>3. Loops'
    BY <1>21 DEF UndoDb, CloseStep
  <2> QED
    BY <2>1, <2>2, <2>3
<1>22. ASSUME NEW p \in Procs, UndoLock(p) PROVE IInv'
  BY <1>22 DEF UndoLock, GiveUp
<1>23. ASSUME NEW p \in Procs, CloseGrp(p) PROVE IInv'
  <2>1. TypeOK'
    BY <1>23 DEF CloseGrp, CloseStep
  <2>2. Discipline'
    BY <1>23, FileSteps
  <2>3. Loops'
    BY <1>23 DEF CloseGrp, CloseStep
  <2> QED
    BY <2>1, <2>2, <2>3
<1>24. ASSUME NEW p \in Procs, CloseDb(p) PROVE IInv'
  <2>1. TypeOK'
    BY <1>24 DEF CloseDb, CloseStep
  <2>2. Discipline'
    BY <1>24, FileSteps
  <2>3. Loops'
    BY <1>24 DEF CloseDb, CloseStep
  <2> QED
    BY <2>1, <2>2, <2>3
<1>25. ASSUME NEW p \in Procs, CloseReq(p) PROVE IInv'
  <2>1. TypeOK'
    BY <1>25 DEF CloseReq, CloseStep
  <2>2. Discipline'
    BY <1>25, FileSteps
  <2>3. Loops'
    BY <1>25 DEF CloseReq, CloseStep
  <2> QED
    BY <2>1, <2>2, <2>3
<1>26. ASSUME NEW p \in Procs, Unlock(p) PROVE IInv'
  BY <1>26 DEF Unlock
<1>27. ASSUME NEW p \in Procs, Die(p) PROVE IInv'
  <2>1. TypeOK'
    <3>1. running' \in [Servers -> BOOLEAN]
      BY <1>27, Zenon DEF Die
    <3> QED
      BY <1>27, <3>1 DEF Die
  <2>2. Discipline'
    BY <1>27, FileSteps
  <2>3. Loops'
    BY <1>27 DEF Die
  <2> QED
    BY <2>1, <2>2, <2>3
<1>28. CASE UNCHANGED vars
  BY <1>28 DEF vars
<1> QED
  BY <1>1, <1>2, <1>3, <1>4, <1>5, <1>6, <1>7, <1>8, <1>9, <1>10, <1>11, <1>12, <1>13, <1>14, <1>15, <1>16, <1>17, <1>18, <1>19, <1>20, <1>21, <1>22, <1>23, <1>24, <1>25, <1>26, <1>27, <1>28 DEF Next, Client, ServerStep, LockStep

THEOREM Invariance == Spec => []IInv
<1>1. Init => IInv
  BY InitIInv
<1>2. IInv /\ [Next]_vars => IInv'
  BY NextIInv
<1> QED
  BY <1>1, <1>2, PTL DEF Spec

-----------------------------------------------------------------------------
\* Every variable keeps its type.
THEOREM TypeCorrect == Spec => []TypeOK
<1>1. IInv => TypeOK
  BY DEF IInv
<1> QED
  BY <1>1, Invariance, PTL

\* lock.c: whoever has a database of the spool open owns the global lock, also
\* while Lock_openDatabases unwinds and while Lock_closeDatabases is under way.
THEOREM OpenUnderLock == Spec => []OpenOnlyUnderLock
<1>1. IInv => OpenOnlyUnderLock
  BY DEF IInv, Discipline, FilesAt, Holds, OpenOnlyUnderLock, TypeOK
<1> QED
  BY <1>1, Invariance, PTL

\* lock.c, server.c: a process that has ended, and a server between two
\* commands with the databases closed, has neither the lock nor a file.
THEOREM LeavesNothing == Spec => []NothingLeftBehind
<1>1. IInv => NothingLeftBehind
  BY LockAssumption
     DEF IInv, Discipline, Loops, FilesAt, Holds, NothingLeftBehind, TypeOK
<1> QED
  BY <1>1, Invariance, PTL

-----------------------------------------------------------------------------
\* Who undoes what it has opened, or executes without the lock, has failed to
\* open something.
Without(p) == \/ pc[p] \in {"undoGrp", "undoDb", "undoLock"}
              \/ pc[p] \in {"exec", "text"} /\ ~Holds(p)

Failing == \A p \in Procs : Without(p) => p \in MayNotOpen

LEMMA FailingNext ==
  ASSUME IInv, Failing, [Next]_vars
  PROVE  Failing'
<1> USE DEF Goto
<1>1. ASSUME NEW p \in Procs, NEW to \in Pcs, pc' = [pc EXCEPT ![p] = to],
             \A s \in Servers \ {p} : running'[s] = running[s],
             Without(p)' => p \in MayNotOpen
      PROVE  Failing'
  <2>1. \A q \in Procs \ {p} : pc'[q] = pc[q]
    BY <1>1 DEF IInv, TypeOK
  <2>2. \A q \in Procs \ {p} : Holds(q)' <=> Holds(q)
    BY <1>1, <2>1 DEF Holds
  <2> QED
    BY <1>1, <2>1, <2>2 DEF Failing, Without
\* Steps to a place where there is nothing to do without the lock.
<1>2. ASSUME NEW p \in Procs,
             NEW to \in Pcs \ {"undoGrp", "undoDb", "undoLock", "exec", "text"},
             pc' = [pc EXCEPT ![p] = to],
             \A s \in Servers \ {p} : running'[s] = running[s]
      PROVE  Failing'
  <2>1. pc'[p] = to
    BY <1>2 DEF IInv, TypeOK
  <2> QED
    BY <1>1, <1>2, <2>1 DEF Without
<1>3. CASE UNCHANGED <<pc, running>>
  BY <1>3 DEF Failing, Without, Holds
<1>4. ASSUME NEW s \in Servers,
             \/ Connect(s) \/ GetLine(s) \/ Disconnected(s)
             \/ TimeoutInRead(s) \/ TimeoutAfterRead(s)
      PROVE  Failing'
  <2>1. PICK to \in {"wait", "gotLine", "off", "closeGrp"} :
           pc' = [pc EXCEPT ![s] = to]
    BY <1>4, Zenon DEF Connect, GetLine, Disconnected, LeaveLoop, TimeoutInRead,
       TimeoutAfterRead, TimedOut
  <2>2. \A r \in Servers \ {s} : running'[r] = running[r]
    BY <1>4 DEF Connect, GetLine, Disconnected, LeaveLoop, TimeoutInRead,
       TimeoutAfterRead, TimedOut, IInv, TypeOK
  <2> QED
    BY <1>2, <2>1, <2>2
<1>5. ASSUME NEW s \in Servers, TakeCommand(s) PROVE Failing'
  <2>1. CASE running[s]
    <3>1. pc' = [pc EXCEPT ![s] = "exec"] /\ running' = running
      BY <1>5, <2>1 DEF TakeCommand
    <3>2. ~Without(s)'
      BY <2>1, <3>1 DEF Without, Holds, IInv, TypeOK
    <3> QED
      BY <1>1, <3>1, <3>2
  <2>2. CASE ~running[s]
    BY <1>2, <1>5, <2>2 DEF TakeCommand
  <2> QED
    BY <2>1, <2>2
<1>6. ASSUME NEW s \in Servers, ExecCommand(s) \/ EndOfText(s) PROVE Failing'
  <2>1. PICK to \in {"wait", "off", "closeGrp"} : pc' = [pc EXCEPT ![s] = to]
    BY <1>6, Zenon DEF ExecCommand, EndOfText, EndCommand, LeaveLoop
  <2>2. \A r \in Servers \ {s} : running'[r] = running[r]
    BY <1>6 DEF ExecCommand, EndOfText, EndCommand, LeaveLoop, IInv, TypeOK
  <2> QED
    BY <1>2, <2>1, <2>2
<1>7. ASSUME NEW s \in Servers, ExecPost(s) PROVE Failing'
  <2>1. /\ pc[s] = "exec" /\ running' = running
        /\ pc' = [pc EXCEPT ![s] = "text"]
    BY <1>7 DEF ExecPost
  <2>2. Without(s)' => Without(s)
    BY <2>1, LockAssumption DEF Without, Holds
  <2> QED
    BY <1>1, <2>1, <2>2 DEF Failing
<1>8. ASSUME NEW p \in Procs, NoLockFile(p) \/ OpenFails(p) \/ UndoLock(p)
                              \/ UndoGrp(p) \/ UndoDb(p)
      PROVE  Failing'
  <2>1. PICK to \in Pcs : pc' = [pc EXCEPT ![p] = to] /\ running' = running
    BY <1>8 DEF NoLockFile, OpenFails, UndoLock, UndoGrp, UndoDb, GiveUp, CloseStep
  <2>2. p \in MayNotOpen
    BY <1>8 DEF NoLockFile, OpenFails, UndoLock, UndoGrp, UndoDb, GiveUp,
       CloseStep, Failing, Without
  <2> QED
    BY <1>1, <2>1, <2>2
<1>9. ASSUME NEW p \in Procs,
             \/ Acquire(p) \/ OpenDb(p) \/ OpenGrp(p) \/ Unlock(p)
             \/ CloseGrp(p) \/ CloseDb(p) \/ CloseReq(p)
      PROVE  Failing'
  <2>1. PICK to \in {"openDb", "openGrp", "openReq", "closeDb", "closeReq",
                     "unlock", "wait", "off"} :
           pc' = [pc EXCEPT ![p] = to]
    BY <1>9 DEF Acquire, OpenDb, OpenGrp, OpenStep, Unlock, CloseGrp, CloseDb,
       CloseReq, CloseStep
  <2>2. running' = running
    BY <1>9 DEF Acquire, OpenDb, OpenGrp, Unlock, CloseGrp, CloseDb, CloseReq,
       CloseStep
  <2> QED
    BY <1>2, <2>1, <2>2
<1>10. ASSUME NEW p \in Procs, OpenReq(p) PROVE Failing'
  <2>1. /\ pc' = [pc EXCEPT ![p] = "exec"]
        /\ running' = [s \in Servers |-> s = p \/ running[s]]
    BY <1>10 DEF OpenReq, OpenStep
  <2>2. ~Without(p)'
    BY <2>1 DEF Without, Holds, IInv, TypeOK
  <2>3. \A s \in Servers \ {p} : running'[s] = running[s]
    BY <2>1 DEF IInv, TypeOK
  <2> QED
    BY <1>1, <2>1, <2>2, <2>3
<1>11. ASSUME NEW t \in Tools, StartTool(t) \/ ExecTool(t) PROVE Failing'
  BY <1>2, <1>11 DEF StartTool, ExecTool
<1>12. ASSUME NEW p \in Procs, Die(p) PROVE Failing'
  <2>1. /\ pc' = [pc EXCEPT ![p] = "off"]
        /\ running' = [s \in Servers |-> s # p /\ running[s]]
    BY <1>12 DEF Die
  <2>2. \A s \in Servers \ {p} : running'[s] = running[s]
    BY <2>1 DEF IInv, TypeOK
  <2> QED
    BY <1>2, <2>1, <2>2
<1>13. ASSUME NEW s \in Servers, ClientSends(s) \/ ClientSendsRest(s)
       PROVE  Failing'
  BY <1>3, <1>13 DEF ClientSends, ClientSendsRest
<1>14. CASE UNCHANGED vars
  BY <1>3, <1>14 DEF vars
<1> QED
  BY <1>4, <1>5, <1>6, <1>7, <1>8, <1>9, <1>10, <1>11, <1>12, <1>13, <1>14
     DEF Next, Client, ServerStep, LockStep

\* server.c, Server_run: a command has the lock and all databases, or, after an
\* initServer that has failed, none of it.
THEOREM CommandsUnderLock == Spec => []WorkUnderLock
<1>1. Init => Failing
  BY DEF Init, Failing, Without
<1>2. IInv /\ Failing /\ [Next]_vars => Failing'
  BY FailingNext
<1>3. IInv /\ Failing => WorkUnderLock
  BY DEF IInv, Discipline, Failing, Without, FilesAt, Holds, WorkUnderLock
<1> QED
  BY <1>1, <1>2, <1>3, Invariance, PTL DEF Spec

-----------------------------------------------------------------------------
(* The lock implements SpoolAccess: the processes that have a database of  *)
(* the spool open take turns.                                              *)

Inside == {p \in Procs : files[p] # {}}

\* At most one process is inside, and it is the owner of the lock.
LEMMA OneInside ==
  ASSUME OpenOnlyUnderLock, NEW p \in Procs, files[p] # {}
  PROVE  Inside = {p}
  BY DEF OpenOnlyUnderLock, Inside

\* A step that changes files changes those of one process, and it owns the
\* lock before the step.
LEMMA FilesOfOne ==
  ASSUME IInv, [Next]_vars
  PROVE  \/ UNCHANGED files
         \/ \E p \in Procs : /\ lockOwner = p
                             /\ files' = [files EXCEPT ![p] = files'[p]]
<1> USE LockAssumption DEF IInv, TypeOK, Discipline, FilesAt, Holds, Goto
<1>1. CASE \E s \in Servers : \/ Client(s) \/ ServerStep(s) \/ EndOfText(s)
                             \/ TimeoutInRead(s) \/ TimeoutAfterRead(s)
  BY <1>1, Zenon DEF Client, Connect, ClientSends, ClientSendsRest, ServerStep,
     GetLine, TakeCommand, Disconnected, ExecCommand, ExecPost, EndOfText,
     EndCommand, TimeoutInRead, TimeoutAfterRead
<1>2. CASE \E t \in Tools : StartTool(t) \/ ExecTool(t)
  BY <1>2, Zenon DEF StartTool, ExecTool
<1>3. ASSUME NEW p \in Procs, LockStep(p)
      PROVE  \/ UNCHANGED files
             \/ lockOwner = p /\ files' = [files EXCEPT ![p] = files'[p]]
  <2>1. CASE NoLockFile(p) \/ OpenFails(p) \/ UndoLock(p) \/ Unlock(p)
    BY <2>1 DEF NoLockFile, OpenFails, UndoLock, Unlock
  <2>2. CASE OpenDb(p) \/ OpenGrp(p) \/ OpenReq(p)
    BY <2>2 DEF OpenDb, OpenGrp, OpenReq, OpenStep
  <2>3. CASE \/ UndoGrp(p) \/ UndoDb(p)
             \/ CloseGrp(p) \/ CloseDb(p) \/ CloseReq(p)
    BY <2>3 DEF UndoGrp, UndoDb, CloseGrp, CloseDb, CloseReq, CloseStep
  <2> QED
    BY <1>3, <2>1, <2>2, <2>3 DEF LockStep
<1>4. ASSUME NEW p \in Procs, Acquire(p) PROVE UNCHANGED files
  BY <1>4 DEF Acquire
<1>5. ASSUME NEW p \in Procs, Die(p)
      PROVE  \/ UNCHANGED files
             \/ lockOwner = p /\ files' = [files EXCEPT ![p] = files'[p]]
  <2>1. lockOwner = p \/ files[p] = {}
    BY DEF IInv, Discipline, FilesAt, Holds, TypeOK
  <2>2. files' = [files EXCEPT ![p] = {}]
    BY <1>5 DEF Die
  <2>3. files'[p] = {}
    BY <2>2 DEF IInv, TypeOK
  <2>4. CASE lockOwner = p
    BY <2>2, <2>3, <2>4
  <2>5. CASE files[p] = {}
    BY <2>2, <2>5 DEF IInv, TypeOK
  <2> QED
    BY <2>1, <2>4, <2>5
<1>6. CASE UNCHANGED vars
  BY <1>6 DEF vars
<1> QED
  BY <1>1, <1>2, <1>3, <1>4, <1>5, <1>6 DEF Next

LEMMA AccessStep ==
  ASSUME IInv, IInv', [Next]_vars
  PROVE  [Access!Next]_Inside
<1>1. OpenOnlyUnderLock /\ OpenOnlyUnderLock'
  BY DEF IInv, Discipline, FilesAt, Holds, OpenOnlyUnderLock, TypeOK
<1>2. CASE UNCHANGED files
  BY <1>2 DEF Inside
<1>3. ASSUME NEW p \in Procs, lockOwner = p,
             files' = [files EXCEPT ![p] = files'[p]]
      PROVE  [Access!Next]_Inside
  <2>1. \A q \in Procs : q # p => files[q] = {} /\ files'[q] = {}
    BY <1>1, <1>3 DEF OpenOnlyUnderLock, IInv, TypeOK
  <2>2. Inside \in {{}, {p}} /\ Inside' \in {{}, {p}}
    BY <2>1 DEF Inside
  <2> QED
    BY <2>2 DEF Access!Next, Access!Enter, Access!Leave, Inside
<1> QED
  BY <1>2, <1>3, FilesOfOne

\* noffle.c:7-11, the locking policy: over all behaviours, deaths and failing
\* opens included, at most one process at a time has databases open.
THEOREM TakeTurns == Spec => AccessSpec
<1>1. Init => Access!Init
  BY DEF Init, Access!Init
<1>2. IInv /\ IInv' /\ [Next]_vars => [Access!Next]_Inside
  BY AccessStep
<1> QED
  BY <1>1, <1>2, Invariance, PTL DEF Spec, AccessSpec, Access!Spec, Inside
=============================================================================
