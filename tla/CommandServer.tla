---------------------------- MODULE CommandServer ----------------------------
(***************************************************************************)
(* The command server of Lab4/nkat.cpp: for each connection it forks a     *)
(* child that runs the command with its output on the socket, closes its   *)
(* own end and waits for the child before it accepts the next one.         *)
(***************************************************************************)
EXTENDS Integers, Sequences, SequencesExt

CONSTANTS
    Clients,
    Backlog     \* connections the kernel holds for accept, 10 in the program

VARIABLES
    queue,      \* connections not accepted yet (the kernel's)
    server,     \* where main is
    current,    \* clientSocket
    child,      \* the child last forked
    holders,    \* the processes that have a client's socket open
    came        \* history: the clients that connected

vars == <<queue, server, current, child, holders, came>>

None == "none"

Init ==
    /\ queue = <<>>
    /\ server = "accept"
    /\ current = None
    /\ child = "none"
    /\ holders = [c \in Clients |-> {}]
    /\ came = {}

Connect(c) ==
    /\ server # "exited"
    /\ c \notin came
    /\ Len(queue) < Backlog
    /\ queue' = Append(queue, c)
    /\ came' = came \union {c}
    /\ UNCHANGED <<server, current, child, holders>>

accept ==
    /\ server = "accept"
    /\ queue # <<>>
    /\ current' = Head(queue)
    /\ queue' = Tail(queue)
    /\ holders' = [holders EXCEPT ![Head(queue)] = {"server"}]
    /\ server' = "fork"
    /\ UNCHANGED <<child, came>>

\* accept fails: exit closes the listening socket, and the kernel resets what
\* was waiting on it.
accept_fails ==
    /\ server = "accept"
    /\ server' = "exited"
    /\ queue' = <<>>
    /\ UNCHANGED <<current, child, holders, came>>

fork ==
    /\ server = "fork"
    /\ child' = "run"
    /\ holders' = [holders EXCEPT ![current] = @ \union {"child"}]
    /\ server' = "close"
    /\ UNCHANGED <<queue, current, came>>

\* fork returns -1: taken for the parent's branch, where waitpid(-1) finds no
\* child.
fork_fails ==
    /\ server = "fork"
    /\ server' = "close"
    /\ UNCHANGED <<queue, current, child, holders, came>>

\* A definition whose name begins with Bad is a mistake that a property is known
\* to catch; no action uses it.  Here the parent keeps its end of the socket.
Badclose ==
    /\ server = "close"
    /\ server' = "wait"
    /\ UNCHANGED <<queue, current, child, holders, came>>

close ==
    /\ server = "close"
    /\ holders' = [holders EXCEPT ![current] = @ \ {"server"}]
    /\ server' = "wait"
    /\ UNCHANGED <<queue, current, child, came>>

\* Polling for the child (WNOHANG).
Badwaitpid ==
    /\ server = "wait"
    /\ server' = "accept"
    /\ child' = IF child = "zombie" THEN "none" ELSE child
    /\ UNCHANGED <<queue, current, holders, came>>

waitpid ==
    /\ server = "wait"
    /\ child \in {"none", "zombie"}
    /\ child' = "none"
    /\ server' = "accept"
    /\ UNCHANGED <<queue, current, holders, came>>

\* The command, run by system with its output and its error messages going to the
\* client, ends.
Run ==
    /\ child = "run"
    /\ child' = "zombie"
    /\ holders' = [holders EXCEPT ![current] = @ \ {"child"}]
    /\ UNCHANGED <<queue, server, current, came>>

\* The status is that of a command that was not found: it is run again, with its
\* error messages going to the server's stderr.
NotFound ==
    /\ child = "run"
    /\ child' = "again"
    /\ UNCHANGED <<queue, server, current, holders, came>>

RunAgain ==
    /\ child = "again"
    /\ child' = "zombie"
    /\ holders' = [holders EXCEPT ![current] = @ \ {"child"}]
    /\ UNCHANGED <<queue, server, current, came>>

Server == accept \/ fork \/ fork_fails \/ close \/ waitpid
Child == Run \/ NotFound \/ RunAgain

Next == (\E c \in Clients : Connect(c)) \/ accept_fails \/ Server \/ Child

\* The server is scheduled, and so is the child: the command ends.
Fairness == WF_vars(Server) /\ WF_vars(Child)

Spec == Init /\ [][Next]_vars

(***************************************************************************)
(* Properties.                                                             *)
(***************************************************************************)
TypeOK ==
    /\ queue \in Seq(Clients)
    /\ server \in {"accept", "fork", "close", "wait", "exited"}
    /\ current \in Clients \union {None}
    /\ child \in {"none", "run", "again", "zombie"}
    /\ holders \in [Clients -> SUBSET {"server", "child"}]
    /\ came \subseteq Clients

\* No child, running or not waited for, is left when the server turns to the
\* next connection (README of Lab4: "Your program can not produce zombie
\* processes in any test cases").
NoChildLeft == server \in {"accept", "fork", "exited"} => child = "none"

Ended(c) == c \in came /\ c \notin ToSet(queue) /\ holders[c] = {}

\* Every client sees its connection end, if commands end: its command is run and
\* no process keeps the socket open, or the server has exited and the kernel
\* closes what was waiting.
Served == \A c \in Clients : c \in came ~> Ended(c)
=============================================================================
