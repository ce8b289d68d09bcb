------------------------------ MODULE ChatServer ------------------------------
(***************************************************************************)
(* The threaded chat server of Lab5/server.cpp.  The main thread accepts   *)
(* connections into the first free slot of client[]; every connection has  *)
(* a chat thread (reads the socket, broadcasts by pushing on the queues of *)
(* the other slots) and a send thread (drains the queue of its slot under  *)
(* mutex[slot], sleeping on cv[slot] while it is empty).                   *)
(*                                                                         *)
(* A socket is never closed by the server, so a descriptor is never reused *)
(* and a connection is identified with its socket: Users are connections.  *)
(* pthread mutexes and condition variables behave as in the glibc the      *)
(* program runs on: lock and unlock of a destroyed mutex fail with EINVAL, *)
(* destroying a mutex that has users fails with EBUSY, destroying a        *)
(* condition variable waits for its waiters, and a cancelled waiter        *)
(* reacquires the mutex before it dies.                                    *)
(***************************************************************************)
EXTENDS Integers, Sequences, FiniteSets

CONSTANTS
    Users,      \* connections that may be made
    NoUser,     \* no connection
    MaxClients, \* MAX_CLIENT_NUM
    Leavers,    \* the users whose client may disconnect
    Slow,       \* the users whose client may stop reading for a time
    Buffers,    \* what one recv() may return, as a sequence of pieces
    Observed,   \* the kinds of message the history rcvd keeps
    MaxRecv     \* bound: number of buffers a user sends

Pieces == {"name", "who", "bad",  \* a line that starts with /name, /who, other /
           "text",                \* a line of chat
           "part"}                \* text that no newline ends

ASSUME ConstAssumption ==
    /\ NoUser \notin Users
    /\ MaxClients \in Nat \ {0}
    /\ Leavers \subseteq Users
    /\ Slow \subseteq Users
    /\ MaxRecv \in Nat
    /\ Buffers \subseteq Seq(Pieces) \ {<<>>}

Slots == 0 .. MaxClients - 1

\* The messages threads push.  "from" is the user whose name the text shows,
\* "by" the connection whose thread formats it, "n" the number of a chat line.
Kinds == {"hello", "landed", "nick", "renamed", "who", "error", "chat", "left"}
Messages == [kind : Kinds, from : Users \union {NoUser}, by : Users \union {NoUser}, n : Nat]

VARIABLES
    valid, socket, name,     \* client[i].valid, .socket and the owner of .name
    message_q,               \* message_q[i]
    mutex,                   \* mutex[i]: locked, number of users, destroyed
    send_thread,             \* send_thread[i]: whose send thread it names
    current_client_num,
    num_mutex,               \* num_mutex is held
    main,                    \* the main thread: pc, accepted socket, slot
    chat,                    \* the chat thread of each user
    sender,                  \* the pc of the send thread of each user
    stale,                   \* sleepers on a cv that was initialised again
    cancelled,               \* send threads with a pending pthread_cancel
    peer,                    \* the client's end of each connection
    full,                    \* connections with no room left: a send() blocks
    rcvd,                    \* history: the observed messages each client got
    crashed                  \* the process has ended

slotVars   == <<valid, socket, name>>
numVars    == <<current_client_num, num_mutex>>
threadVars == <<send_thread, stale, cancelled>>
peerVars   == <<peer, full, rcvd>>
vars == <<slotVars, numVars, threadVars, peerVars,
          message_q, mutex, main, chat, sender, crashed>>

NewMutex == [locked |-> FALSE, users |-> 0, dead |-> FALSE]

\* The stages of a chat thread that push on its own queue only; the other
\* stages push on the queue of every other valid slot.
Single == {"hello", "nick", "who", "error"}

NoThread == [pc |-> "none", slot |-> 0, stage |-> "hello", to |-> 0,
             msg |-> [kind |-> "hello", from |-> NoUser, by |-> NoUser, n |-> 0],
             rest |-> <<>>, stamp |-> NoUser, lines |-> 0, reads |-> 0]

Init ==
    /\ valid = [s \in Slots |-> FALSE]
    /\ socket = [s \in Slots |-> NoUser]
    /\ name = [s \in Slots |-> NoUser]
    /\ message_q = [s \in Slots |-> <<>>]
    /\ mutex = [s \in Slots |-> NewMutex]
    /\ send_thread = [s \in Slots |-> NoUser]
    /\ current_client_num = 0
    /\ num_mutex = FALSE
    /\ main = [pc |-> "accept", sock |-> NoUser, i |-> 0]
    /\ chat = [u \in Users |-> NoThread]
    /\ sender = [u \in Users |-> "none"]
    /\ stale = {}
    /\ cancelled = {}
    /\ peer = [u \in Users |-> "new"]
    /\ full = {}
    /\ rcvd = [u \in Users |-> <<>>]
    /\ crashed = FALSE

(***************************************************************************)
(* A definition whose name begins with Bad is a plausible mistake in the   *)
(* definition that follows it: no action uses it, and a property is known  *)
(* to fail when it takes the place of the definition.                      *)
(***************************************************************************)

(***************************************************************************)
(* pthread primitives.                                                     *)
(***************************************************************************)
BadCanLock(m) == TRUE   \* the queue is used without taking its mutex

CanLock(m) == m.dead \/ ~m.locked
Locked(m)   == IF m.dead THEN m ELSE [locked |-> TRUE, users |-> m.users + 1, dead |-> FALSE]
Unlocked(m) == IF m.dead THEN m ELSE [locked |-> FALSE, users |-> m.users - 1, dead |-> FALSE]
\* cond_wait keeps the waiter counted among the users of the mutex.
Released(m)   == IF m.dead THEN m ELSE [m EXCEPT !.locked = FALSE]
Reacquired(m) == IF m.dead THEN m ELSE [m EXCEPT !.locked = TRUE]
Destroyed(m)  == IF m.users # 0 /\ ~m.dead THEN m ELSE [m EXCEPT !.dead = TRUE]

Sleepers(s) == {u \in Users : sender[u] = "wait" /\ chat[u].slot = s}
LiveSleepers(s) == Sleepers(s) \ stale

BadSignal(s) == UNCHANGED sender   \* pushing without waking the send thread

\* pthread_cond_signal(&cv[s]).  A sleeper left over from before cv[s] was
\* initialised again shares its futex and may take the wake-up of a live one.
Signal(s) ==
    IF LiveSleepers(s) = {} THEN UNCHANGED sender
    ELSE \E u \in Sleepers(s) : sender' = [sender EXCEPT ![u] = "wake"]

(***************************************************************************)
(* The main thread.                                                        *)
(***************************************************************************)
Accept(u) ==
    /\ main.pc = "accept"
    /\ peer[u] = "new"
    /\ peer' = [peer EXCEPT ![u] = "up"]
    /\ main' = [pc |-> "scan", sock |-> u, i |-> 0]
    /\ UNCHANGED <<slotVars, numVars, threadVars, full, rcvd, message_q, mutex, chat, sender, crashed>>

\* accept() fails, of which main survives only errors of the network (which
\* change nothing): no descriptor is left, say, as none is ever closed.
AcceptFails ==
    /\ main.pc = "accept"
    /\ crashed' = TRUE
    /\ UNCHANGED <<slotVars, numVars, threadVars, peerVars, message_q, mutex, main, chat, sender>>

\* Taking the next slot without looking whether it is free.
BadScan ==
    /\ main.pc = "scan"
    /\ main' = IF main.i = MaxClients THEN [main EXCEPT !.pc = "accept"]
               ELSE [main EXCEPT !.pc = "fill"]
    /\ UNCHANGED <<slotVars, numVars, threadVars, peerVars, message_q, mutex, chat, sender, crashed>>

\* One step of the scan for a free slot, which reads valid without a lock.
\* A client that finds every slot taken is neither served nor closed.
Scan ==
    /\ main.pc = "scan"
    /\ main' = IF main.i = MaxClients THEN [main EXCEPT !.pc = "accept"]
               ELSE IF valid[main.i] THEN [main EXCEPT !.i = @ + 1]
               ELSE [main EXCEPT !.pc = "fill"]
    /\ UNCHANGED <<slotVars, numVars, threadVars, peerVars, message_q, mutex, chat, sender, crashed>>

\* lock(num_mutex), then name and valid of client[i]; message_q[i] is left
\* alone.
Fill ==
    /\ main.pc = "fill"
    /\ ~num_mutex
    /\ num_mutex' = TRUE
    /\ name' = [name EXCEPT ![main.i] = main.sock]
    /\ valid' = [valid EXCEPT ![main.i] = TRUE]
    /\ main' = [main EXCEPT !.pc = "publish"]
    /\ UNCHANGED <<socket, current_client_num, threadVars, peerVars, message_q, mutex, chat,
                   sender, crashed>>

\* A slot that others take for valid has the socket of its last owner until now.
FillSocket ==
    /\ main.pc = "publish"
    /\ socket' = [socket EXCEPT ![main.i] = main.sock]
    /\ main' = [main EXCEPT !.pc = "init"]
    /\ UNCHANGED <<valid, name, numVars, threadVars, peerVars, message_q, mutex, chat, sender, crashed>>

\* The slot is already visible to the other threads when its mutex and its
\* condition variable are overwritten, whoever holds or waits on them.
InitLocks ==
    /\ main.pc = "init"
    /\ mutex' = [mutex EXCEPT ![main.i] = NewMutex]
    /\ stale' = stale \union Sleepers(main.i)
    /\ current_client_num' = current_client_num + 1
    /\ num_mutex' = FALSE
    /\ main' = [main EXCEPT !.pc = "create"]
    /\ UNCHANGED <<slotVars, send_thread, cancelled, peerVars, message_q, chat, sender, crashed>>

CreateChat ==
    /\ main.pc = "create"
    /\ chat' = [chat EXCEPT ![main.sock] =
                  [@ EXCEPT !.pc = "lock", !.slot = main.i, !.to = main.i, !.stage = "hello",
                            !.msg = [kind |-> "hello", from |-> name[main.i],
                                     by |-> main.sock, n |-> 0]]]
    /\ main' = [main EXCEPT !.pc = "accept"]
    /\ UNCHANGED <<slotVars, numVars, threadVars, peerVars, message_q, mutex, sender, crashed>>

(***************************************************************************)
(* The chat thread of user u, on its slot.                                 *)
(***************************************************************************)
\* Numbering the queues from one.
BadStart(c, u, stage) ==
    [c EXCEPT !.stage = stage,
              !.pc = IF stage \in Single THEN "lock" ELSE "peer",
              !.to = IF stage \in Single THEN c.slot + 1 ELSE 0,
              !.msg = [kind |-> stage, from |-> name[c.slot], by |-> u, n |-> 0]]

\* Thread state c of u when it starts a stage: the message is formatted now,
\* from the name the slot holds now.
Start(c, u, stage) ==
    [c EXCEPT !.stage = stage,
              !.pc = IF stage \in Single THEN "lock" ELSE "peer",
              !.to = IF stage \in Single THEN c.slot ELSE 0,
              !.msg = [kind |-> stage, from |-> name[c.slot], by |-> u, n |-> 0]]

\* Where a thread goes when the stage it is in is complete.
Completed(c, u) ==
    CASE c.stage = "hello" -> Start(c, u, "landed")
      [] c.stage = "landed" -> [c EXCEPT !.pc = "spawn"]
      [] c.stage = "nick" -> Start(c, u, "renamed")
      [] c.stage \in {"who", "error", "renamed"} -> [c EXCEPT !.pc = "recv"]
      [] c.stage = "chat" -> [c EXCEPT !.pc = "text"]
      [] c.stage = "left" -> [c EXCEPT !.pc = "mdestroy"]

\* One step of a broadcast loop, which reads valid and both sockets without a
\* lock.
Peer(u) ==
    LET c == chat[u] IN
    /\ c.pc = "peer"
    /\ chat' = [chat EXCEPT ![u] =
                  IF c.to = MaxClients THEN Completed(c, u)
                  ELSE IF valid[c.to] /\ socket[c.to] # socket[c.slot]
                       THEN [c EXCEPT !.pc = "lock"]
                       ELSE [c EXCEPT !.to = @ + 1]]
    /\ UNCHANGED <<slotVars, numVars, threadVars, peerVars, message_q, mutex, main, sender, crashed>>

LockQueue(u) ==
    LET s == chat[u].to IN
    /\ chat[u].pc = "lock"
    /\ CanLock(mutex[s])
    /\ mutex' = [mutex EXCEPT ![s] = Locked(@)]
    /\ chat' = [chat EXCEPT ![u].pc = "push"]
    /\ UNCHANGED <<slotVars, numVars, threadVars, peerVars, message_q, main, sender, crashed>>

\* push, signal, unlock; change_name stores the new name before it pushes.
Push(u) ==
    LET c == chat[u]
        s == c.to
    IN
    /\ c.pc = "push"
    /\ message_q' = [message_q EXCEPT ![s] = Append(@, c.msg)]
    /\ name' = IF c.stage = "nick" THEN [name EXCEPT ![s] = u] ELSE name
    /\ Signal(s)
    /\ mutex' = [mutex EXCEPT ![s] = Unlocked(@)]
    /\ chat' = [chat EXCEPT ![u] = IF c.stage \in Single THEN Completed(c, u)
                                   ELSE [c EXCEPT !.pc = "peer", !.to = @ + 1]]
    /\ UNCHANGED <<valid, socket, numVars, threadVars, peerVars, main, crashed>>

\* pthread_create(&send_thread[fd_id], handle_send).
SpawnSender(u) ==
    /\ chat[u].pc = "spawn"
    /\ send_thread' = [send_thread EXCEPT ![chat[u].slot] = u]
    /\ sender' = [sender EXCEPT ![u] = "lock"]
    /\ chat' = [chat EXCEPT ![u].pc = "recv"]
    /\ UNCHANGED <<slotVars, numVars, stale, cancelled, peerVars, message_q, mutex, main, crashed>>

\* recv() returns a buffer.  Only the first piece can be a command, and then
\* the rest of the buffer is part of it.
Receive(u, b) ==
    LET c == chat[u]
        d == [c EXCEPT !.reads = @ + 1]
    IN
    /\ c.pc = "recv"
    /\ peer[u] = "up"
    /\ c.reads < MaxRecv
    /\ chat' = [chat EXCEPT ![u] =
                  CASE Head(b) = "name" -> Start(d, u, "nick")
                    [] Head(b) = "who"  -> Start(d, u, "who")
                    [] Head(b) = "bad"  -> Start(d, u, "error")
                    [] OTHER            -> [d EXCEPT !.pc = "text", !.rest = b]]
    /\ UNCHANGED <<slotVars, numVars, threadVars, peerVars, message_q, mutex, main, sender, crashed>>

\* The next piece of the buffer.  The sender's name is put in front when the
\* line begins; the line is broadcast when its newline is reached.
Text(u) ==
    LET c == chat[u]
        begun == IF c.stamp = NoUser THEN name[c.slot] ELSE c.stamp
    IN
    /\ c.pc = "text"
    /\ chat' = [chat EXCEPT ![u] =
                  IF c.rest = <<>> THEN [c EXCEPT !.pc = "recv"]
                  ELSE IF Head(c.rest) = "part"
                       THEN [c EXCEPT !.rest = Tail(@), !.stamp = begun]
                       ELSE [c EXCEPT !.rest = Tail(@), !.stamp = NoUser,
                                      !.lines = @ + 1,
                                      !.pc = "peer", !.stage = "chat", !.to = 0,
                                      !.msg = [kind |-> "chat", from |-> begun,
                                               by |-> u, n |-> c.lines + 1]]]
    /\ UNCHANGED <<slotVars, numVars, threadVars, peerVars, message_q, mutex, main, sender, crashed>>

\* Giving the slot up without waiting for num_mutex.
BadLeave(u) ==
    /\ chat[u].pc = "recv"
    /\ peer[u] = "closed"
    /\ num_mutex' = TRUE
    /\ valid' = [valid EXCEPT ![chat[u].slot] = FALSE]
    /\ chat' = [chat EXCEPT ![u].pc = "count", ![u].stage = "left"]
    /\ UNCHANGED <<socket, name, current_client_num, threadVars, peerVars, message_q, mutex,
                   main, sender, crashed>>

\* recv() returns 0 or fails: handle_recv returns and the slot is given up
\* under num_mutex ...
Leave(u) ==
    /\ chat[u].pc = "recv"
    /\ peer[u] = "closed"
    /\ ~num_mutex
    /\ num_mutex' = TRUE
    /\ valid' = [valid EXCEPT ![chat[u].slot] = FALSE]
    /\ chat' = [chat EXCEPT ![u].pc = "count", ![u].stage = "left"]
    /\ UNCHANGED <<socket, name, current_client_num, threadVars, peerVars, message_q, mutex,
                   main, sender, crashed>>

\* ... and counted out.
CountOut(u) ==
    /\ chat[u].pc = "count"
    /\ current_client_num' = current_client_num - 1
    /\ num_mutex' = FALSE
    /\ chat' = [chat EXCEPT ![u].pc = "bye"]
    /\ UNCHANGED <<slotVars, threadVars, peerVars, message_q, mutex, main, sender, crashed>>

\* The goodbye is formatted from the slot after it was given up.
Bye(u) ==
    /\ chat[u].pc = "bye"
    /\ chat' = [chat EXCEPT ![u] = Start(@, u, "left")]
    /\ UNCHANGED <<slotVars, numVars, threadVars, peerVars, message_q, mutex, main, sender, crashed>>

DestroyMutex(u) ==
    /\ chat[u].pc = "mdestroy"
    /\ mutex' = [mutex EXCEPT ![chat[u].slot] = Destroyed(@)]
    /\ chat' = [chat EXCEPT ![u].pc = "cdestroy"]
    /\ UNCHANGED <<slotVars, numVars, threadVars, peerVars, message_q, main, sender, crashed>>

DestroyCond(u) ==
    /\ chat[u].pc = "cdestroy"
    /\ LiveSleepers(chat[u].slot) = {}
    /\ chat' = [chat EXCEPT ![u].pc = "cancel"]
    /\ UNCHANGED <<slotVars, numVars, threadVars, peerVars, message_q, mutex, main, sender, crashed>>

\* pthread_cancel(send_thread[fd_id]), whoever's thread that names by now.
CancelSender(u) ==
    /\ chat[u].pc = "cancel"
    /\ cancelled' = cancelled \union {send_thread[chat[u].slot]}
    /\ chat' = [chat EXCEPT ![u].pc = "done"]
    /\ UNCHANGED <<slotVars, numVars, send_thread, stale, peerVars, message_q, mutex, main, sender, crashed>>

(***************************************************************************)
(* The send thread of user u (handle_send).                                *)
(***************************************************************************)
\* Testing the queue without having locked its mutex.
BadLockOwn(u) ==
    /\ sender[u] = "lock"
    /\ sender' = [sender EXCEPT ![u] = "check"]
    /\ UNCHANGED <<slotVars, numVars, threadVars, peerVars, message_q, mutex, main, chat, crashed>>

LockOwn(u) ==
    LET s == chat[u].slot IN
    /\ sender[u] = "lock"
    /\ CanLock(mutex[s])
    /\ mutex' = [mutex EXCEPT ![s] = Locked(@)]
    /\ sender' = [sender EXCEPT ![u] = "check"]
    /\ UNCHANGED <<slotVars, numVars, threadVars, peerVars, message_q, main, chat, crashed>>

\* The loop's test, which only the mutex keeps true until the thread sleeps.
FindEmpty(u) ==
    /\ sender[u] = "check"
    /\ message_q[chat[u].slot] = <<>>
    /\ sender' = [sender EXCEPT ![u] = "empty"]
    /\ UNCHANGED <<slotVars, numVars, threadVars, peerVars, message_q, mutex, main, chat, crashed>>

\* cond_wait: the mutex is released and the thread sleeps, in one step.
Wait(u) ==
    LET s == chat[u].slot IN
    /\ sender[u] = "empty"
    /\ ~mutex[s].dead
    /\ mutex' = [mutex EXCEPT ![s] = Released(@)]
    /\ sender' = [sender EXCEPT ![u] = "wait"]
    /\ stale' = stale \ {u}
    /\ UNCHANGED <<slotVars, numVars, send_thread, cancelled, peerVars, message_q, main, chat, crashed>>

\* On a destroyed mutex cond_wait fails at once and the thread spins.
WaitFails(u) ==
    /\ sender[u] = "empty"
    /\ mutex[chat[u].slot].dead
    /\ sender' = [sender EXCEPT ![u] = "check"]
    /\ UNCHANGED <<slotVars, numVars, threadVars, peerVars, message_q, mutex, main, chat, crashed>>

Wake(u) ==
    LET s == chat[u].slot IN
    /\ sender[u] = "wake"
    /\ CanLock(mutex[s])
    /\ mutex' = [mutex EXCEPT ![s] = Reacquired(@)]
    /\ sender' = [sender EXCEPT ![u] = "check"]
    /\ UNCHANGED <<slotVars, numVars, threadVars, peerVars, message_q, main, chat, crashed>>

\* Sending the front message without popping it.
BadSend(u) ==
    LET s == chat[u].slot
        d == socket[s]
    IN
    /\ sender[u] \in {"check", "send"}
    /\ message_q[s] # <<>>
    /\ u \notin cancelled
    /\ rcvd' = IF peer[d] = "up" /\ Head(message_q[s]).kind \in Observed
               THEN [rcvd EXCEPT ![d] = Append(@, Head(message_q[s]))] ELSE rcvd
    /\ sender' = [sender EXCEPT ![u] = "send"]
    /\ UNCHANGED <<slotVars, numVars, threadVars, peer, full, message_q, mutex, main, chat, crashed>>

\* The socket the slot names now is sent the front message, in full, and the
\* message is popped.  While the connection is full send() does not return, and
\* the thread keeps mutex[s].  What a client that has gone is sent is lost.
Send(u) ==
    LET s == chat[u].slot
        d == socket[s]
    IN
    /\ sender[u] \in {"check", "send"}
    /\ message_q[s] # <<>>
    /\ d \notin full
    /\ u \notin cancelled
    /\ rcvd' = IF peer[d] = "up" /\ Head(message_q[s]).kind \in Observed
               THEN [rcvd EXCEPT ![d] = Append(@, Head(message_q[s]))] ELSE rcvd
    /\ message_q' = [message_q EXCEPT ![s] = Tail(@)]
    /\ sender' = [sender EXCEPT ![u] = "send"]
    /\ UNCHANGED <<slotVars, numVars, threadVars, peer, full, mutex, main, chat, crashed>>

Unlock(u) ==
    LET s == chat[u].slot IN
    /\ sender[u] = "send"
    /\ message_q[s] = <<>>
    /\ mutex' = [mutex EXCEPT ![s] = Unlocked(@)]
    /\ sender' = [sender EXCEPT ![u] = "lock"]
    /\ UNCHANGED <<slotVars, numVars, threadVars, peerVars, message_q, main, chat, crashed>>

\* send() fails: the thread returns with mutex[fd_id] locked.
SendFails(u) ==
    LET s == chat[u].slot IN
    /\ sender[u] \in {"check", "send"}
    /\ message_q[s] # <<>>
    /\ peer[socket[s]] = "closed"
    /\ sender' = [sender EXCEPT ![u] = "exited"]
    /\ UNCHANGED <<slotVars, numVars, threadVars, peerVars, message_q, mutex, main, chat, crashed>>

\* A pending cancellation is acted on in send(), with the mutex locked ...
CancelledInSend(u) ==
    /\ u \in cancelled
    /\ sender[u] \in {"check", "send"}
    /\ message_q[chat[u].slot] # <<>>
    /\ sender' = [sender EXCEPT ![u] = "exited"]
    /\ UNCHANGED <<slotVars, numVars, threadVars, peerVars, message_q, mutex, main, chat, crashed>>

\* ... and in cond_wait, which locks the mutex first.
CancelledInWait(u) ==
    LET s == chat[u].slot IN
    /\ u \in cancelled
    /\ sender[u] = "wait"
    /\ CanLock(mutex[s])
    /\ mutex' = [mutex EXCEPT ![s] = Reacquired(@)]
    /\ sender' = [sender EXCEPT ![u] = "exited"]
    /\ UNCHANGED <<slotVars, numVars, threadVars, peerVars, message_q, main, chat, crashed>>

(***************************************************************************)
(* The clients, and what a data race on a queue may do.                    *)
(***************************************************************************)
Close(u) ==
    /\ u \in Leavers
    /\ peer[u] = "up"
    /\ peer' = [peer EXCEPT ![u] = "closed"]
    /\ full' = full \ {u}
    /\ UNCHANGED <<slotVars, numVars, threadVars, rcvd, message_q, mutex, main, chat, sender, crashed>>

\* A client stops reading, and what it was sent fills the buffers on the way ...
Stall(u) ==
    /\ u \in Slow
    /\ peer[u] = "up"
    /\ full' = full \union {u}
    /\ UNCHANGED <<slotVars, numVars, threadVars, peer, rcvd, message_q, mutex, main, chat, sender,
                   crashed>>

\* ... until it reads on.
ReadOn(u) ==
    /\ u \in full
    /\ full' = full \ {u}
    /\ UNCHANGED <<slotVars, numVars, threadVars, peer, rcvd, message_q, mutex, main, chat, sender,
                   crashed>>

\* The threads that are between lock and unlock of mutex[s].
PushersOf(s) == {u \in Users : chat[u].pc = "push" /\ chat[u].to = s}
SendersOf(s) == {u \in Users : sender[u] \in {"check", "empty", "send"} /\ chat[u].slot = s}
Exclusive(s) == Cardinality(PushersOf(s)) + Cardinality(SendersOf(s)) <= 1

Crash ==
    /\ \E s \in Slots : ~Exclusive(s)
    /\ crashed' = TRUE
    /\ UNCHANGED <<slotVars, numVars, threadVars, peerVars, message_q, mutex, main, chat, sender>>

MainNext ==
    \/ \E u \in Users : Accept(u)
    \/ AcceptFails
    \/ Scan \/ Fill \/ FillSocket \/ InitLocks \/ CreateChat

ChatNext(u) ==
    \/ Peer(u) \/ LockQueue(u) \/ Push(u) \/ SpawnSender(u)
    \/ \E b \in Buffers : Receive(u, b)
    \/ Text(u) \/ Leave(u) \/ CountOut(u) \/ Bye(u)
    \/ DestroyMutex(u) \/ DestroyCond(u) \/ CancelSender(u)

SendNext(u) ==
    \/ LockOwn(u) \/ FindEmpty(u) \/ Wait(u) \/ WaitFails(u) \/ Wake(u) \/ Send(u) \/ Unlock(u)
    \/ SendFails(u) \/ CancelledInSend(u) \/ CancelledInWait(u)

ClientNext(u) == Close(u) \/ Stall(u) \/ ReadOn(u)

Next ==
    /\ ~crashed
    /\ \/ MainNext
       \/ \E u \in Users : ChatNext(u) \/ SendNext(u) \/ ClientNext(u)
       \/ Crash

Spec == Init /\ [][Next]_vars

(***************************************************************************)
(* Fairness.  The operating system runs every thread that is not blocked,  *)
(* a thread that waits for a mutex gets it if it is released again and     *)
(* again, and a send() gets its message out if there is room again and     *)
(* again.  A client that stopped reading reads on in the end: this one is  *)
(* an assumption on the clients, as a send() that stays blocked keeps      *)
(* mutex[slot] and holds up everyone who broadcasts to that slot.  Nothing *)
(* makes a client connect, send or disconnect.                             *)
(***************************************************************************)
MainFair == WF_vars(~crashed /\ (Scan \/ Fill \/ FillSocket \/ InitLocks \/ CreateChat))

ChatFair(u) ==
    /\ WF_vars(~crashed /\ (\/ Peer(u) \/ Push(u) \/ SpawnSender(u) \/ Text(u)
                            \/ Leave(u) \/ CountOut(u) \/ Bye(u)
                            \/ DestroyMutex(u) \/ DestroyCond(u) \/ CancelSender(u)))
    /\ SF_vars(~crashed /\ LockQueue(u))

SendFair(u) ==
    /\ WF_vars(~crashed /\ (\/ FindEmpty(u) \/ Wait(u) \/ WaitFails(u)
                            \/ Unlock(u) \/ CancelledInSend(u)))
    /\ SF_vars(~crashed /\ (LockOwn(u) \/ Wake(u) \/ Send(u)))

ClientFair(u) == WF_vars(~crashed /\ ReadOn(u))

Fairness == MainFair /\ \A u \in Users : ChatFair(u) /\ SendFair(u) /\ ClientFair(u)

FairSpec == Spec /\ Fairness

(***************************************************************************)
(* Properties.                                                             *)
(***************************************************************************)
\* The threads that serve a user: from its creation until it gives its slot up.
Serving(u) == chat[u].pc # "none" /\ chat[u].stage # "left"

\* The slot main has published and not yet given a thread.
Filling(s) == main.pc \in {"publish", "init", "create"} /\ main.i = s

MutexTypes == [locked : BOOLEAN, users : Int, dead : BOOLEAN]

ChatPcs == {"none", "lock", "push", "peer", "spawn", "recv", "text", "count", "bye",
            "mdestroy", "cdestroy", "cancel", "done"}

SenderPcs == {"none", "lock", "check", "empty", "wait", "wake", "send", "exited"}

ChatStates ==
    [pc : ChatPcs, slot : Slots, stage : Kinds, to : 0 .. MaxClients, msg : Messages,
     rest : Seq(Pieces), stamp : Users \union {NoUser}, lines : Nat, reads : Nat]

DataTypes ==
    /\ valid \in [Slots -> BOOLEAN]
    /\ socket \in [Slots -> Users \union {NoUser}]
    /\ name \in [Slots -> Users \union {NoUser}]
    /\ message_q \in [Slots -> Seq(Messages)]
    /\ mutex \in [Slots -> MutexTypes]
    /\ send_thread \in [Slots -> Users \union {NoUser}]
    /\ current_client_num \in Int
    /\ num_mutex \in BOOLEAN
    /\ sender \in [Users -> SenderPcs]
    /\ stale \subseteq Users
    /\ cancelled \subseteq Users \union {NoUser}
    /\ peer \in [Users -> {"new", "up", "closed"}]
    /\ full \subseteq Users
    /\ rcvd \in [Users -> Seq(Messages)]
    /\ crashed \in BOOLEAN

MainTypes ==
    /\ main \in [pc : {"accept", "scan", "fill", "publish", "init", "create"},
                 sock : Users \union {NoUser}, i : 0 .. MaxClients]
    /\ main.pc \in {"fill", "publish", "init", "create"} => main.i \in Slots

ThreadTypes ==
    /\ chat \in [Users -> ChatStates]
    /\ \A u \in Users : chat[u].pc \in {"lock", "push"} => chat[u].to \in Slots

\* Every variable keeps its type, and a thread that works on a queue has the
\* number of a slot (chat, handle_recv and change_name index with it).
TypeOK == DataTypes /\ MainTypes /\ ThreadTypes

\* Whenever num_mutex is free, current_client_num is the number of valid
\* slots, however arrivals (main) and departures (chat) interleave.
OnlineCount == ~num_mutex => current_client_num = Cardinality({s \in Slots : valid[s]})

\* A slot is marked valid exactly while one connection has it: the one main is
\* seating, or the one whose chat thread has not given it up; that slot
\* carries the connection's own socket, and its own name.
SlotOwned ==
    /\ \A u \in Users : Serving(u) => /\ valid[chat[u].slot]
                                      /\ socket[chat[u].slot] = u
                                      /\ name[chat[u].slot] = u
    /\ \A s \in Slots :
         valid[s] => \/ Filling(s)
                     \/ \E u \in Users : Serving(u) /\ chat[u].slot = s
    /\ \A s \in Slots : \A u \in Users :
         Filling(s) => ~(Serving(u) /\ chat[u].slot = s)

\* What a chat thread's program counter says of its stage and target.
StageInv(c) ==
    /\ c.pc \in {"spawn", "recv", "text"} => c.stage # "left"
    /\ c.pc = "peer" => c.stage \notin Single
    /\ c.pc \in {"count", "bye"} => c.stage = "left"
    /\ c.pc \in {"lock", "push"} /\ c.stage \in Single => c.to = c.slot

\* Where main stands while it seats a connection.
MainInv ==
    /\ main.pc # "accept" => /\ main.sock \in Users
                             /\ peer[main.sock] # "new"
                             /\ chat[main.sock].pc = "none"
    /\ main.pc = "fill" => ~valid[main.i]
    /\ main.pc \in {"publish", "init", "create"} => /\ valid[main.i]
                                                   /\ name[main.i] = main.sock
    /\ main.pc \in {"init", "create"} => socket[main.i] = main.sock

\* Who has num_mutex: main with a slot it has not counted yet, or one thread
\* with a slot it has not counted out.
Seating == main.pc \in {"publish", "init"}
Leaving == {u \in Users : chat[u].pc = "count"}

NumInv ==
    /\ num_mutex <=> Seating \/ Leaving # {}
    /\ Seating => Leaving = {}
    /\ \A u, v \in Leaving : u = v

ValidSlots == {s \in Slots : valid[s]}

CountInv ==
    current_client_num = IF Seating THEN Cardinality(ValidSlots) - 1
                         ELSE IF Leaving # {} THEN Cardinality(ValidSlots) + 1
                         ELSE Cardinality(ValidSlots)

\* The inductive invariant behind OnlineCount and SlotOwned.
SeatInv ==
    /\ MainInv
    /\ \A u \in Users : StageInv(chat[u]) /\ (peer[u] = "new" => chat[u].pc = "none")
    /\ SlotOwned
    /\ NumInv
    /\ CountInv

\* At most one thread is between the lock and the unlock of a slot's mutex, so
\* message_q[slot] is never raced ("avoid race condition", handle_send).
QueueExclusive == \A s \in Slots : Exclusive(s)

\* A goodbye names a user who has left (chat reads the name of a slot it has
\* already given up).
LeftNamesLeaver ==
    \A s \in Slots : \A k \in DOMAIN message_q[s] :
        LET m == message_q[s][k] IN
        m.kind = "left" => m.from \in Users /\ chat[m.from].stage = "left"

\* No send thread sleeps on its condition variable while its queue has
\* something to send: push and signal happen under the mutex that the thread
\* holds from its test of the queue (FindEmpty) until it sleeps (Wait).
NoLostWakeup == \A u \in Users : sender[u] = "wait" => message_q[chat[u].slot] = <<>>

\* A line that user u wrote.
IsLine(m, u) == m.kind = "chat" /\ m.by = u

\* Among users who stay, every user gets the lines of every other one exactly
\* once and in the order they were written: a line comes after those written
\* before it, all of them, and no later one.
LinesInOrder ==
    \A u, d \in Users : \A k \in DOMAIN rcvd[d] :
        IsLine(rcvd[d][k], u) =>
            /\ \A j \in 1 .. k - 1 : IsLine(rcvd[d][j], u) => rcvd[d][j].n < rcvd[d][k].n
            /\ \A n \in 1 .. rcvd[d][k].n - 1 :
                 \E j \in 1 .. k - 1 : IsLine(rcvd[d][j], u) /\ rcvd[d][j].n = n

\* A line that a user completes reaches every other user who stays online, as
\* long as the server runs and although clients stop reading for a time.
LineDelivered ==
    \A u \in Users : \A d \in Users \ {u} : \A n \in 1 .. MaxRecv :
        chat[u].lines >= n ~>
            \/ \E k \in DOMAIN rcvd[d] : IsLine(rcvd[d][k], u) /\ rcvd[d][k].n = n
            \/ crashed

\* A connection that gets a slot is sent the welcome message, or goes away.
WelcomeSent ==
    \A u \in Users :
        chat[u].pc # "none" ~>
            \/ \E k \in DOMAIN rcvd[u] : rcvd[u][k].kind = "hello" /\ rcvd[u][k].by = u
            \/ peer[u] = "closed"
            \/ crashed
=============================================================================
