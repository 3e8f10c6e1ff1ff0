------------------------------- MODULE Diary --------------------------------
(***************************************************************************)
(* The diary server, diary.pl: ForkServer with what its children do for    *)
(* the clients that talk to them.                                          *)
(*                                                                         *)
(* A child takes what recv returns for one command.  Lines that have come  *)
(* together are one to it: split makes what follows the first word its     *)
(* arguments, and a blank line in front of it makes the command an empty   *)
(* string.                                                                 *)
(*                                                                         *)
(* A challenge is named by the number of its rand in the child, 0 that     *)
(* which the parent has drawn: that two calls of rand agree in one child   *)
(* is left out, and so is an answer that is guessed, or that a client has  *)
(* from another conversation.                                              *)
(***************************************************************************)
EXTENDS ForkServer, Integers, FiniteSets

CONSTANTS Talkers,     \* bound: the clients that send commands
          Entries,     \* the files of config/spert/diary/entries
          MaxDraws,    \* bound: calls of rand in a child
          MaxBuffered  \* bound: lines in a socket's buffer

ASSUME DiaryAssumption == /\ Talkers \subseteq Clients
                          /\ Entries \in Nat /\ MaxDraws \in Nat /\ MaxBuffered \in Nat

VARIABLE sess   \* sess[c]: the talk of client c and its child

diaryVars == <<serverVars, sess>>

None  == -1    \* no argument
Other == -2    \* an argument that is no number

\* Lines that a client may send.  "one" stands for all that change nothing and
\* are answered with one line: HELP, GET and what no handler is for.  The
\* argument of a RESPONSE (or AUTH) is the challenge that it is right for.
Commands == [cmd : {"CHALLENGE", "LIST", "QUIT", "blank", "one"}, arg : {None}]
            \cup [cmd : {"RESPONSE"}, arg : {None, Other} \cup 0 .. MaxDraws]

\* What may lie in a socket.
Inboxes == UNION {[1 .. k -> Commands] : k \in 0 .. MaxBuffered}

Session == [authed : BOOLEAN,            \* $client_authenticated
            challenge : 0 .. MaxDraws,    \* $client_challenge
            told : -1 .. MaxDraws,        \* history: what the client was told
                                          \* last, if no response has met it
            known : SUBSET (0 .. MaxDraws), \* history: whose answers it may know
            inbox : Inboxes,
            owed : 0 .. MaxBuffered,        \* lines the client wants answered
            merged : BOOLEAN]            \* history: have lines become one?

DiaryTypeOK == ServerTypeOK /\ DOMAIN sess = Talkers
               /\ \A c \in Talkers : sess[c] \in Session

\* A child begins with what the parent has: a challenge, and nobody let in.
Fresh == [authed |-> FALSE, challenge |-> 0, told |-> None, known |-> {},
          inbox |-> <<>>, owed |-> 0, merged |-> FALSE]

DiaryInit == ServerInit /\ sess = [c \in Talkers |-> Fresh]

-----------------------------------------------------------------------------
(* Handlers: what they leave behind, and the number of answers.            *)

Draw(s) == [s EXCEPT !.challenge = @ + 1]

\* diary_challenge
Challenge(s) == [Draw(s) EXCEPT !.told = s.challenge + 1,
                                !.known = @ \cup {s.challenge + 1}]

\* Mistake: a challenge stays until it has been answered.
RefusedKept(s, arg) ==
    CASE arg = None        -> s
      [] arg = s.challenge -> Draw([s EXCEPT !.authed = TRUE, !.told = None])
      [] OTHER             -> [s EXCEPT !.told = None, !.known = @ \cup {s.challenge}]

\* diary_response: also who is refused is sent the answer that was right.
Response(s, arg) ==
    IF arg = None THEN s
    ELSE Draw([s EXCEPT !.authed = @ \/ arg = s.challenge,
                        !.told = None,
                        !.known = @ \cup {s.challenge}])

AfterLine(s, line) == CASE line.cmd = "CHALLENGE" -> Challenge(s)
                        [] line.cmd = "RESPONSE"  -> Response(s, line.arg)
                        [] OTHER                  -> s

\* Mistake: LIST says nothing to a client that has not responded.
SilentRefusal(s, line) ==
    CASE line.cmd = "blank" -> 0
      [] line.cmd = "LIST"  -> IF s.authed THEN Entries ELSE 0
      [] OTHER              -> 1

\* LIST answers with a line for each entry, all others with one.
Answers(s, line) ==
    CASE line.cmd = "blank"             -> 0
      [] line.cmd = "LIST" /\ s.authed  -> Entries
      [] OTHER                          -> 1

\* The first k lines of the buffer as recv and split return them.  Blank
\* lines alone give no command at all.
AsOne(inbox, k) ==
    LET line  == Head(inbox)
        words == {i \in 1 .. k : inbox[i].cmd # "blank"}
    IN  CASE words \subseteq {1}                    -> line
          [] words # {} /\ 1 \notin words           -> [cmd |-> "one", arg |-> None]
          [] 1 \in words /\ words # {1}             ->
                 [line EXCEPT !.arg = IF @ = None THEN Other ELSE @]

-----------------------------------------------------------------------------
Talking(c) == conn[c] \in {"backlog", "accepted", "unserved", "served"}

\* The draws that a client's lines may still cause.
Pending(s) ==
    Cardinality({i \in DOMAIN s.inbox : s.inbox[i].cmd \in {"CHALLENGE", "RESPONSE"}})

Send(c, line) ==
    LET s == sess[c]
    IN  /\ Talking(c)
        /\ Len(s.inbox) < MaxBuffered /\ s.owed < MaxBuffered
        /\ line.arg \in {None, Other} \cup s.known
        /\ line.cmd \in {"CHALLENGE", "RESPONSE"} => s.challenge + Pending(s) < MaxDraws
        /\ sess' = [sess EXCEPT ![c].inbox = Append(@, line),
                                ![c].owed = IF line.cmd = "blank" THEN @ ELSE @ + 1]
        /\ UNCHANGED serverVars

\* The client hangs up, or the child is killed: what it had is gone with it.
HangUp(c) == /\ Ends(c)
             /\ sess' = [d \in Talkers |-> IF d = c THEN Fresh ELSE sess[d]]

\* One turn of the loop in sub diary.
Recv(c) ==
    LET s == sess[c]
    IN  /\ conn[c] = "served"
        /\ \E k \in DOMAIN s.inbox :
              LET line == AsOne(s.inbox, k)
                  read == [s EXCEPT
                             !.inbox = SubSeq(@, k + 1, Len(@)),
                             !.merged = @ \/ \E i \in 2 .. k : s.inbox[i].cmd # "blank",
                             !.owed = IF @ > 0 /\ Answers(s, line) > 0 THEN @ - 1 ELSE @]
              IN  \/ line.cmd = "QUIT" /\ HangUp(c)
                  \/ /\ line.cmd # "QUIT"
                     /\ sess' = [sess EXCEPT ![c] = AfterLine(read, line)]
                     /\ UNCHANGED serverVars

DiaryNext == \/ ServerStep /\ UNCHANGED sess
             \/ Stop /\ sess' = [c \in Talkers |-> Fresh]
             \/ \E c \in Clients : HangUp(c)
             \/ \E c \in Talkers : Recv(c) \/ \E line \in Commands : Send(c, line)

\* The parent and its children are running processes.
DiarySpec == /\ DiaryInit /\ [][DiaryNext]_diaryVars
             /\ WF_diaryVars(ParentStep /\ UNCHANGED sess)
             /\ \A c \in Talkers : WF_diaryVars(Recv(c))
-----------------------------------------------------------------------------
(* Properties *)

Admission ==
    \A c \in Talkers :
        LET s == sess[c]
            t == sess'[c]
        IN  /\ ~s.authed /\ t.authed => s.told = s.challenge
            /\ /\ s.told # None
               /\ s.inbox # <<>> /\ Head(s.inbox) = [cmd |-> "RESPONSE", arg |-> s.told]
               /\ t.inbox = Tail(s.inbox) /\ conn'[c] = "served"
               => t.authed

\* Nobody is let in but by the answer to the challenge that its child has told
\* it last, and has not compared with a response since (diary.pl:58-80): not
\* by what it sent before a later CHALLENGE, by the same answer once more, nor
\* by the right answer that a refusal names.  And who gives that answer is let
\* in, whatever other lines it has sent.  The conversations keep their types.
LetIn == []DiaryTypeOK /\ [][Admission]_diaryVars

\* A client that waits for the answer to its line gets it, as long as it has
\* a child (diary.pl:138-160), unless it has sent lines so close to one
\* another that they have become one.
Replied ==
    \A c \in Talkers :
        conn[c] = "served" /\ sess[c].owed = 1 ~>
            sess[c].owed # 1 \/ sess[c].merged \/ conn[c] # "served"
=============================================================================
