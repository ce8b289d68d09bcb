----------------------------- MODULE ChatSeated -----------------------------
(***************************************************************************)
(* The chat server of ChatServer once every slot is taken, while nobody    *)
(* leaves: it starts where whoever has a slot has landed, the queues are   *)
(* drained and nothing is under way.  Clients that connect from then on    *)
(* find no slot.  In this state, and not while slots change hands, the     *)
(* queues are used by one thread at a time and every line arrives.         *)
(***************************************************************************)
EXTENDS ChatServer

\* Who has which slot.
Seatings == {f \in [Slots -> Users] : \A s, t \in Slots : f[s] = f[t] => s = t}

\* A chat thread that has landed, on slot s.
SeatedThread(u, s) ==
    [NoThread EXCEPT !.pc = "recv", !.slot = s, !.stage = "landed", !.to = MaxClients,
                     !.msg = [kind |-> "landed", from |-> u, by |-> u, n |-> 0]]

Occupants == {socket[s] : s \in Slots}

SeatedInit ==
    /\ socket \in Seatings
    /\ valid = [s \in Slots |-> TRUE]
    /\ name = socket
    /\ message_q = [s \in Slots |-> <<>>]
    /\ mutex = [s \in Slots |-> [locked |-> FALSE, users |-> 1, dead |-> FALSE]]
    /\ send_thread = socket
    /\ current_client_num = MaxClients
    /\ num_mutex = FALSE
    /\ main = [pc |-> "accept", sock |-> socket[MaxClients - 1], i |-> MaxClients - 1]
    /\ chat = [u \in Users |->
                 IF u \in Occupants
                 THEN SeatedThread(u, CHOOSE s \in Slots : socket[s] = u) ELSE NoThread]
    /\ sender = [u \in Users |-> IF u \in Occupants THEN "wait" ELSE "none"]
    /\ peer = [u \in Users |-> IF u \in Occupants THEN "up" ELSE "new"]
    /\ stale = {}
    /\ cancelled = {}
    /\ full = {}
    /\ rcvd = [u \in Users |-> <<>>]
    /\ crashed = FALSE

SeatedSpec == SeatedInit /\ [][Next]_vars

FairSeatedSpec == SeatedSpec /\ Fairness

(***************************************************************************)
(* The inductive invariant behind QueueExclusive, NoLostWakeup and         *)
(* LinesInOrder.                                                           *)
(***************************************************************************)
\* Everyone keeps their slot: main finds none free, no thread is cancelled and
\* no mutex is destroyed.
Settled ==
    /\ main.pc \in {"accept", "scan"}
    /\ cancelled = {} /\ stale = {}
    /\ \A s \in Slots :
         /\ valid[s] /\ ~mutex[s].dead
         /\ socket[s] \in Users
         /\ peer[socket[s]] = "up"
         /\ chat[socket[s]].pc # "none" /\ chat[socket[s]].slot = s
    /\ \A u \in Users :
         /\ peer[u] # "closed"
         /\ chat[u].pc # "none" => socket[chat[u].slot] = u
         /\ chat[u].pc = "none" <=> sender[u] = "none"
         /\ sender[u] # "exited"

\* What a chat thread is at: a command is answered on the thread's own queue,
\* everything else goes to the queues of the others.
AtWork(c, u) ==
    /\ c.pc \in {"none", "lock", "push", "peer", "recv", "text"}
    /\ c.pc = "none" => c.lines = 0
    /\ c.pc \in {"lock", "push", "peer"} =>
         /\ c.stage \in {"nick", "who", "error", "renamed", "chat"}
         /\ c.msg.kind = c.stage /\ c.msg.by = u
         /\ c.stage = "chat" => c.lines >= 1 /\ c.msg.n = c.lines
    /\ c.pc = "peer" => c.stage \notin Single
    /\ c.pc \in {"lock", "push"} => (c.to = c.slot <=> c.stage \in Single)

\* A thread between lock and unlock of a mutex has it to itself.
LockHeld ==
    \A s \in Slots :
        /\ PushersOf(s) \union SendersOf(s) # {} => mutex[s].locked
        /\ PushersOf(s) = {} \/ SendersOf(s) = {}
        /\ \A u, v \in PushersOf(s) : u = v

\* What the mutex is for: the queue that a send thread found empty is empty
\* until the thread sleeps.
FoundEmpty == \A u \in Users : sender[u] = "empty" => message_q[chat[u].slot] = <<>>

\* How many of its lines the chat thread c has pushed on the queue of slot s of
\* somebody else.
Pushed(c, s) ==
    IF c.pc \in {"peer", "lock", "push"} /\ c.stage = "chat" /\ c.to <= s
    THEN c.lines - 1 ELSE c.lines

\* When n lines of user u were pushed on a queue, a client has got the first of
\* them and the queue holds the others, in the order they were written.
Flow(got, due, n, u) ==
    /\ \A k \in DOMAIN got : IsLine(got[k], u) => got[k].n \in 1 .. n
    /\ \A k \in DOMAIN due : IsLine(due[k], u) =>
         /\ due[k].n \in 1 .. n
         /\ \A j \in 1 .. k - 1 : IsLine(due[j], u) => due[j].n < due[k].n
         /\ \A j \in DOMAIN got : IsLine(got[j], u) => got[j].n < due[k].n
    /\ "chat" \in Observed => \A m \in 1 .. n :
         \/ \E k \in DOMAIN got : IsLine(got[k], u) /\ got[k].n = m
         \/ \E k \in DOMAIN due : IsLine(due[k], u) /\ due[k].n = m

LinesOf(u, s) == Flow(rcvd[socket[s]], message_q[s], Pushed(chat[u], s), u)

\* Nobody gets lines of their own, and who has no slot gets nothing.
LinesFlow ==
    /\ \A s \in Slots : \A u \in Users \ {socket[s]} : LinesOf(u, s)
    /\ \A s \in Slots : \A k \in DOMAIN message_q[s] : ~IsLine(message_q[s][k], socket[s])
    /\ \A u \in Users : \A k \in DOMAIN rcvd[u] :
         /\ chat[u].pc # "none"
         /\ ~IsLine(rcvd[u][k], u)

SeatedInv ==
    /\ Settled
    /\ \A u \in Users : AtWork(chat[u], u)
    /\ LockHeld
    /\ FoundEmpty
    /\ NoLostWakeup
    /\ LinesFlow
    /\ LinesInOrder
=============================================================================
