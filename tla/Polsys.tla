------------------------------- MODULE Polsys -------------------------------
(***************************************************************************)
(* polsys.pl, the information system of the police: anybody may log in by  *)
(* telnet and leave a hint, the last 20 hints are kept in polsys.txt.      *)
(* Each client has a process of its own (module ForkServer) that walks     *)
(* through the menus of %config; saveentry reads the file, and writes it   *)
(* again, without a lock ("solls halt racen").                             *)
(*                                                                         *)
(* Reading the file is one step, and so is the write at close: both stand  *)
(* for one system call when the hints fit into Perl's buffer.  init/polsys *)
(* touches the file before it starts the server, so open does not fail.    *)
(***************************************************************************)
EXTENDS ForkServer

CONSTANTS Lines,       \* what a client may type in a line
          Length,      \* Length[l]: its characters
          MaxHints,    \* the hints that are kept (20)
          MaxPassword, \* a longer one crashes the login (10)
          MaxLines     \* bound: the lines all clients send

\* The line without characters, which is also what the end of the input
\* looks like.
Blank == "blank"

\* What recv finds besides a single line: nothing yet, or more than one.
Nothing == "nothing"
Several == "several"

ASSUME PolsysAssumption == /\ Blank \in Lines
                           /\ Lines \cap {Nothing, Several} = {}
                           /\ Length \in [Lines -> Nat]
                           /\ MaxHints \in Nat \ {0}
                           /\ MaxPassword \in Nat
                           /\ MaxLines \in Nat

VARIABLES menu,   \* menu[c]: $state
          pc,     \* pc[c]: where in run or saveentry the child of c is
          hint,   \* hint[c]: the hint that is being saved
          mem,    \* mem[c]: @hinweise
          wire,   \* wire[c]: what c has sent and recv has not returned
          sent,   \* bound: how many lines the clients have sent
          there,  \* there[c]: "there", or it has shut "half" of the
                  \* connection, or it is "gone"
          file,   \* the lines of polsys.txt
          alone,  \* history: no other save was under way during that of c
          kept    \* history: hints saved alone since the last trouble

childVars  == <<menu, pc, hint, mem>>
clientVars == <<wire, sent, there>>
fileVars   == <<file, alone, kept>>
vars == <<serverVars, childVars, clientVars, fileVars>>

Menus == {"start", "main", "input", "read", "login", "inside", "insidemenu",
          "quit"}

Pcs == {"output",   \* at the top of the loop of run
        "recv",     \* waiting for a line
        "asked",    \* in saveentry, before it has read the file
        "changed",  \* it has added the hint to @hinweise
        "opened",   \* it has opened, so emptied, the file for writing
        "written"}  \* it has closed the file

\* A line of the file: what was typed, or the last "len" characters of it.
Entry == [of : Lines, len : Nat]

Whole(l) == [of |-> l, len |-> Length[l]]

TypeOK == /\ ServerTypeOK
          /\ menu \in [Clients -> Menus]
          /\ pc \in [Clients -> Pcs]
          /\ wire \in [Clients -> Lines \cup {Nothing, Several}]
          /\ sent \in 0..MaxLines
          /\ there \in [Clients -> {"there", "half", "gone"}]
          /\ hint \in [Clients -> Lines]
          /\ mem \in [Clients -> Seq(Entry)]
          /\ file \in Seq(Entry)
          /\ alone \in [Clients -> BOOLEAN]
          /\ kept \in Seq(Entry)

PolsysInit == /\ ServerInit
              /\ menu = [c \in Clients |-> "start"]
              /\ pc = [c \in Clients |-> "output"]
              /\ wire = [c \in Clients |-> Nothing]
              /\ sent = 0
              /\ there = [c \in Clients |-> "there"]
              /\ hint = [c \in Clients |-> Blank]
              /\ mem = [c \in Clients |-> <<>>]
              /\ file = <<>>
              /\ alone = [c \in Clients |-> FALSE]
              /\ kept = <<>>
-----------------------------------------------------------------------------
(* The client at the other end of the connection.  What it does before it  *)
(* is served might as well come right after.                               *)

\* What recv finds when a line has come after others: white space at the end
\* is cut off, empty lines with it.
Joined(old, l) == IF old = Nothing THEN l
                  ELSE IF l = Blank THEN old
                  ELSE Several

ClientSends(c) == /\ conn[c] = "served"
                  /\ there[c] = "there"
                  /\ sent < MaxLines
                  /\ \E l \in Lines : wire' = [wire EXCEPT ![c] = Joined(@, l)]
                  /\ sent' = sent + 1
                  /\ UNCHANGED <<serverVars, childVars, there, fileVars>>

ClientShuts(c) == /\ conn[c] = "served"
                  /\ \E how \in {"half", "gone"} :
                       /\ there[c] \notin {how, "gone"}
                       /\ there' = [there EXCEPT ![c] = how]
                  /\ UNCHANGED <<serverVars, childVars, wire, sent, fileVars>>

-----------------------------------------------------------------------------
(* One turn of the loop of run: output, then input.                        *)

Runs(c, at) == conn[c] = "served" /\ pc[c] = at

HasInput == {"main", "input", "login", "insidemenu"}

\* $cs{"next"} of the states without input.
After == [start |-> "main", read |-> "main", inside |-> "insidemenu"]

Output(c) == /\ Runs(c, "output")
             /\ menu[c] # "quit"
             /\ IF menu[c] \in HasInput
                THEN /\ pc' = [pc EXCEPT ![c] = "recv"]
                     /\ UNCHANGED menu
                ELSE /\ menu' = [menu EXCEPT ![c] = After[menu[c]]]
                     /\ UNCHANGED pc
             /\ UNCHANGED <<serverVars, clientVars, mem, hint, fileVars>>

\* The child of c ends, and what it had in memory is gone.
Exit(c) == /\ Ends(c)
           /\ menu' = [menu EXCEPT ![c] = "start"]
           /\ pc' = [pc EXCEPT ![c] = "output"]
           /\ hint' = [hint EXCEPT ![c] = Blank]
           /\ wire' = [wire EXCEPT ![c] = Nothing]
           /\ there' = [there EXCEPT ![c] = "gone"]
           /\ UNCHANGED <<mem, sent, fileVars>>

Quit(c) == /\ Runs(c, "output")
           /\ menu[c] = "quit"
           /\ Exit(c)

\* Mistake: saveentry reports to the client while it writes the file.
SendsWhileOpen(c) == /\ \E at \in {"output", "asked", "opened", "written"} : Runs(c, at)
                     /\ there[c] = "gone"
                     /\ Exit(c)

\* send to a client that has gone raises SIGPIPE, at the latest the second
\* time.  saveentry sends nothing between reading and closing the file.
SendFails(c) == /\ \E at \in {"output", "asked", "written"} : Runs(c, at)
                /\ there[c] = "gone"
                /\ Exit(c)

\* The regexes of %config, and handlepasswd.
NextMenu(m, line) ==
  CASE m = "main"       -> IF line = "1" THEN "input"
                           ELSE IF line = "2" THEN "read"
                           ELSE IF line = "3" THEN "login"
                           ELSE "quit"
    [] m = "login"      -> IF Length[line] > MaxPassword THEN "inside" ELSE "main"
    [] OTHER            -> IF line = "1" THEN "inside" ELSE "main"  \* insidemenu

\* The line goes to the first regex that matches it.
Dispatch(c, line) ==
  IF menu[c] = "input"
  THEN /\ pc' = [pc EXCEPT ![c] = "asked"]
       /\ hint' = [hint EXCEPT ![c] = line]
       /\ UNCHANGED menu
  ELSE /\ menu' = [menu EXCEPT ![c] = NextMenu(menu[c], line)]
       /\ pc' = [pc EXCEPT ![c] = "output"]
       /\ UNCHANGED hint

\* recv returns all that has come; the dot of a regex matches no newline,
\* so several lines match nothing and the state stays.
Receive(c) == /\ Runs(c, "recv")
              /\ wire[c] # Nothing
              /\ wire' = [wire EXCEPT ![c] = Nothing]
              /\ IF wire[c] # Several
                 THEN Dispatch(c, wire[c])
                 ELSE /\ pc' = [pc EXCEPT ![c] = "output"]
                      /\ UNCHANGED <<menu, hint>>
              /\ UNCHANGED <<serverVars, mem, sent, there, fileVars>>

\* At the end of the input recv returns an empty string, which is defined.
ReceiveEnd(c) == /\ Runs(c, "recv")
                 /\ wire[c] = Nothing
                 /\ there[c] # "there"
                 /\ Dispatch(c, Blank)
                 /\ UNCHANGED <<serverVars, mem, clientVars, fileVars>>

\* last unless defined(recv): the connection was reset.
ReceiveFails(c) == /\ Runs(c, "recv")
                   /\ there[c] = "gone"
                   /\ Exit(c)

-----------------------------------------------------------------------------
(* saveentry                                                               *)

\* The saves that have read the file and not written it.
Saving == {c \in Clients : \E at \in {"changed", "opened"} : Runs(c, at)}

\* shift @hinweise if (@hinweise >= 20); push @hinweise
Push(list, entry) ==
  Append(IF Len(list) >= MaxHints THEN Tail(list) ELSE list, entry)

ReadFile(c) == /\ Runs(c, "asked")
               /\ mem' = [mem EXCEPT ![c] = Push(file, Whole(hint[c]))]
               /\ pc' = [pc EXCEPT ![c] = "changed"]
               /\ alone' = [d \in Clients |->
                              IF d = c THEN Saving = {}
                              ELSE alone[d] /\ d \notin Saving]
               /\ UNCHANGED <<serverVars, clientVars, menu, hint, file, kept>>

\* open(HINWEISE, ">polsys.txt")
OpenFile(c) == /\ Runs(c, "changed")
               /\ file' = <<>>
               /\ pc' = [pc EXCEPT ![c] = "opened"]
               /\ UNCHANGED <<serverVars, clientVars, menu, mem, hint, alone, kept>>

\* Size(list)[k]: the bytes of the first k lines, each with its newline.
Size(list) ==
  LET upTo[k \in 0..Len(list)] ==
        IF k = 0 THEN 0 ELSE upTo[k - 1] + list[k].len + 1
  IN  upTo

\* Where the text of a file goes on after its first n bytes: with the last
\* len characters of line "at".
GoesOn(list, n) ==
  UNION {{[at |-> k, len |-> l] :
            l \in {i \in 0..list[k].len :
                    Size(list)[k - 1] + list[k].len - i = n}} :
         k \in DOMAIN list}

\* Written from the start over what another process has written since the
\* file was opened.
Overwritten(old, new) ==
  LET rest == GoesOn(old, Size(new)[Len(new)])
  IN  IF rest = {} THEN new
      ELSE LET r == CHOOSE r \in rest : TRUE
           IN  Append(new, [of |-> old[r.at].of, len |-> r.len])
                 \o SubSeq(old, r.at + 1, Len(old))

CloseFile(c) == /\ Runs(c, "opened")
                /\ file' = Overwritten(file, mem[c])
                /\ pc' = [pc EXCEPT ![c] = "written"]
                /\ kept' = IF alone[c] THEN Push(kept, Whole(hint[c])) ELSE <<>>
                /\ hint' = [hint EXCEPT ![c] = Blank]
                /\ mem' = [mem EXCEPT ![c] = <<>>]
                /\ alone' = [alone EXCEPT ![c] = FALSE]
                /\ UNCHANGED <<serverVars, clientVars, menu>>

\* "... wurde gespeichert"
Confirm(c) == /\ Runs(c, "written")
              /\ menu' = [menu EXCEPT ![c] = "main"]
              /\ pc' = [pc EXCEPT ![c] = "output"]
              /\ UNCHANGED <<serverVars, clientVars, mem, hint, fileVars>>

-----------------------------------------------------------------------------
\* A process that is killed before it closes the file leaves it empty.
StopAll == /\ Stop
           /\ kept' = IF \E c \in Clients : Runs(c, "opened") THEN <<>> ELSE kept
           /\ menu' = [c \in Clients |-> "start"]
           /\ pc' = [c \in Clients |-> "output"]
           /\ hint' = [c \in Clients |-> Blank]
           /\ mem' = [c \in Clients |-> <<>>]
           /\ wire' = [c \in Clients |-> Nothing]
           /\ alone' = [c \in Clients |-> FALSE]
           /\ there' = [c \in Clients |-> IF conn[c] = "out" THEN there[c] ELSE "gone"]
           /\ UNCHANGED <<sent, file>>

Server == ServerStep /\ UNCHANGED <<childVars, clientVars, fileVars>>

Child(c) == \/ Output(c) \/ Quit(c) \/ SendFails(c)
            \/ Receive(c) \/ ReceiveEnd(c) \/ ReceiveFails(c)
            \/ ReadFile(c) \/ OpenFile(c) \/ CloseFile(c) \/ Confirm(c)

PolsysNext == \/ Server
              \/ \E c \in Clients : Child(c) \/ ClientSends(c) \/ ClientShuts(c)
              \/ StopAll

PolsysSpec == PolsysInit /\ [][PolsysNext]_vars

\* Only the parent has to go on; a child may wait for its client for ever.
PolsysFairSpec ==
  PolsysSpec /\ WF_vars(ParentStep /\ UNCHANGED <<childVars, clientVars, fileVars>>)
-----------------------------------------------------------------------------
EndsWith(list, end) ==
  /\ Len(end) <= Len(list)
  /\ \A i \in 1..Len(end) : end[i] = list[Len(list) - Len(end) + i]

(***************************************************************************)
(* Invariant.  A race of saveentry (polsys.pl:55-75) harms no more than    *)
(* what was saved before it ended: whatever the races before have left in  *)
(* the file, and wherever clients hang up, hints that are then saved one   *)
(* at a time stay the newest of the file, up to MaxHints of them.  (While  *)
(* a file is open for writing it is empty.)                                *)
(***************************************************************************)
LoneSavesStay == (\A c \in Clients : ~Runs(c, "opened")) => EndsWith(file, kept)
=============================================================================
