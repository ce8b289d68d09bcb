-------------------------- MODULE ChatSeatedProofs --------------------------
(***************************************************************************)
(* While every slot is taken and nobody leaves, the queues are used by one *)
(* thread at a time, no send thread sleeps on a message and lines arrive   *)
(* once and in order, for any number of slots and users.                   *)
(***************************************************************************)
EXTENDS ChatSeated, ChatServerProofs

(***************************************************************************)
(* The state it starts in.                                                 *)
(***************************************************************************)
\* A client that has a slot is served on it.
LEMMA SeatedThreads ==
    ASSUME SeatedInit, NEW u \in Users
    PROVE  /\ u \in Occupants => \E s \in Slots : socket[s] = u /\ chat[u] = SeatedThread(u, s)
           /\ u \notin Occupants => chat[u] = NoThread
           /\ \A s \in Slots : socket[s] = u => u \in Occupants /\ chat[u] = SeatedThread(u, s)
<1>1. ASSUME NEW s \in Slots, socket[s] = u PROVE (CHOOSE t \in Slots : socket[t] = u) = s
  BY <1>1 DEF SeatedInit, Seatings
<1>2. chat[u] = IF u \in Occupants
                THEN SeatedThread(u, CHOOSE s \in Slots : socket[s] = u) ELSE NoThread
  BY DEF SeatedInit
<1>3. \A s \in Slots : socket[s] = u => u \in Occupants
  BY DEF Occupants
<1>4. u \in Occupants => \E s \in Slots : socket[s] = u
  BY DEF Occupants
<1> QED
  BY <1>1, <1>2, <1>3, <1>4

\* Such a thread is at rest between two messages.
LEMMA SeatedThreadAt ==
    ASSUME NEW u \in Users, NEW s \in Slots
    PROVE  /\ SeatedThread(u, s) \in ChatStates
           /\ SeatedThread(u, s).pc = "recv"
           /\ SeatedThread(u, s).slot = s
           /\ SeatedThread(u, s).lines = 0
<1>1. [kind |-> "landed", from |-> u, by |-> u, n |-> 0] \in Messages
  BY DEF Messages, Kinds
<1>2. MaxClients \in 0 .. MaxClients /\ <<>> \in Seq(Pieces)
  BY ConstAssumption, EmptySeq
<1> QED
  BY <1>1, <1>2 DEF SeatedThread, NoThread, ChatStates, ChatPcs, Kinds

LEMMA NoThreadAt == NoThread \in ChatStates /\ NoThread.pc = "none" /\ NoThread.lines = 0
<1>1. 0 \in Slots /\ 0 \in 0 .. MaxClients /\ <<>> \in Seq(Pieces)
  BY ConstAssumption, EmptySeq DEF Slots
<1>2. [kind |-> "hello", from |-> NoUser, by |-> NoUser, n |-> 0] \in Messages
  BY DEF Messages, Kinds
<1> QED
  BY <1>1, <1>2 DEF NoThread, ChatStates, ChatPcs, Kinds

LEMMA SeatedTypeInit == SeatedInit => TypeOK
<1> SUFFICES ASSUME SeatedInit PROVE TypeOK
  OBVIOUS
<1>1. MaxClients - 1 \in Slots /\ MaxClients - 1 \in 0 .. MaxClients
  BY ConstAssumption DEF Slots
<1>2. \A u \in Users : chat[u] \in ChatStates /\ chat[u].pc \in {"none", "recv"}
  BY SeatedThreads, SeatedThreadAt, NoThreadAt
<1>3. \E f : chat = [u \in Users |-> f[u]]
  <2> DEFINE f == [u \in Users |-> IF u \in Occupants
                                   THEN SeatedThread(u, CHOOSE s \in Slots : socket[s] = u)
                                   ELSE NoThread]
  <2>1. chat = f
    BY DEF SeatedInit
  <2>2. f = [u \in Users |-> f[u]]
    OBVIOUS
  <2> HIDE DEF f
  <2> QED
    BY <2>1, <2>2
<1>4. ThreadTypes
  BY <1>2, <1>3 DEF ThreadTypes
<1>5. socket \in [Slots -> Users]
  BY DEF SeatedInit, Seatings
<1>6. MainTypes
  BY <1>1, <1>5 DEF SeatedInit, MainTypes
<1>7. [locked |-> FALSE, users |-> 1, dead |-> FALSE] \in MutexTypes
  BY DEF MutexTypes
<1>8. DataTypes
  <2>1. message_q \in [Slots -> Seq(Messages)] /\ rcvd \in [Users -> Seq(Messages)]
    BY EmptySeq DEF SeatedInit
  <2>2. mutex \in [Slots -> MutexTypes]
    BY <1>7 DEF SeatedInit
  <2>3. current_client_num \in Int
    BY ConstAssumption DEF SeatedInit
  <2>4. sender \in [Users -> SenderPcs] /\ peer \in [Users -> {"new", "up", "closed"}]
    BY DEF SeatedInit, SenderPcs
  <2>5. /\ socket \in [Slots -> Users \union {NoUser}]
        /\ name \in [Slots -> Users \union {NoUser}]
        /\ send_thread \in [Slots -> Users \union {NoUser}]
    BY <1>5 DEF SeatedInit
  <2> QED
    BY <2>1, <2>2, <2>3, <2>4, <2>5 DEF SeatedInit, DataTypes
<1> QED
  BY <1>4, <1>6, <1>8 DEF TypeOK

LEMMA SeatedStart == SeatedInit => SeatedInv
<1> SUFFICES ASSUME SeatedInit PROVE SeatedInv
  OBVIOUS
<1>1. socket \in [Slots -> Users] /\ \A s, t \in Slots : socket[s] = socket[t] => s = t
  BY DEF SeatedInit, Seatings
<1>2. \A u \in Users :
        /\ u \in Occupants => /\ chat[u].pc = "recv" /\ chat[u].lines = 0
                              /\ chat[u].slot \in Slots /\ socket[chat[u].slot] = u
        /\ u \notin Occupants => chat[u].pc = "none" /\ chat[u].lines = 0
  BY SeatedThreads, SeatedThreadAt, NoThreadAt
<1>3. \A s \in Slots : socket[s] \in Occupants
  BY DEF Occupants
<1>4. \A u \in Users : /\ sender[u] = IF u \in Occupants THEN "wait" ELSE "none"
                       /\ peer[u] = IF u \in Occupants THEN "up" ELSE "new"
                       /\ rcvd[u] = <<>>
  BY DEF SeatedInit
<1>5. \A s \in Slots : ~mutex[s].dead /\ valid[s] /\ message_q[s] = <<>>
  BY DEF SeatedInit
<1>6. Settled
  <2>1. main.pc = "accept" /\ cancelled = {} /\ stale = {}
    BY DEF SeatedInit
  <2>2. \A s \in Slots : chat[socket[s]] = SeatedThread(socket[s], s)
    BY <1>1, SeatedThreads
  <2>3. \A s \in Slots : chat[socket[s]].pc # "none" /\ chat[socket[s]].slot = s
    BY <1>1, <2>2, SeatedThreadAt
  <2>4. \A s \in Slots : socket[s] \in Users /\ peer[socket[s]] = "up"
    BY <1>1, <1>3, <1>4
  <2>5. \A u \in Users : /\ peer[u] # "closed"
                         /\ chat[u].pc # "none" => socket[chat[u].slot] = u
                         /\ chat[u].pc = "none" <=> sender[u] = "none"
                         /\ sender[u] # "exited"
    BY <1>2, <1>4
  <2> QED
    BY <1>5, <2>1, <2>3, <2>4, <2>5 DEF Settled
<1>7. \A u \in Users : AtWork(chat[u], u)
  BY <1>2 DEF AtWork
<1>8. LockHeld
  BY <1>2, <1>4 DEF LockHeld, PushersOf, SendersOf
<1>9. FoundEmpty /\ NoLostWakeup
  BY <1>2, <1>4, <1>5 DEF FoundEmpty, NoLostWakeup
<1>10. \A u \in Users, s \in Slots : Pushed(chat[u], s) = 0
  BY <1>2 DEF Pushed
<1>11. LinesFlow /\ LinesInOrder
  <2>1. \A u \in Users : DOMAIN rcvd[u] = {}
    BY <1>4
  <2>2. \A s \in Slots : DOMAIN message_q[s] = {}
    BY <1>5
  <2> QED
    BY <1>1, <1>10, <2>1, <2>2 DEF LinesFlow, LinesOf, Flow, LinesInOrder
<1> QED
  BY <1>6, <1>7, <1>8, <1>9, <1>11 DEF SeatedInv

(***************************************************************************)
(* Lines on their way.                                                     *)
(***************************************************************************)
LEMMA Appended ==
    ASSUME NEW S, NEW q \in Seq(S), NEW m \in S
    PROVE  /\ DOMAIN q = 1 .. Len(q) /\ Len(q) \in Nat
           /\ DOMAIN Append(q, m) = 1 .. Len(q) + 1
           /\ \A k \in 1 .. Len(q) : Append(q, m)[k] = q[k]
           /\ Append(q, m)[Len(q) + 1] = m
OBVIOUS

LEMMA TakenOff ==
    ASSUME NEW S, NEW q \in Seq(S), q # <<>>
    PROVE  /\ DOMAIN q = 1 .. Len(q) /\ Len(q) \in Nat \ {0}
           /\ Tail(q) \in Seq(S) /\ Head(q) = q[1] /\ Head(q) \in S
           /\ DOMAIN Tail(q) = 1 .. Len(q) - 1
           /\ \A k \in 1 .. Len(q) - 1 : Tail(q)[k] = q[k + 1]
<1>1. /\ DOMAIN q = 1 .. Len(q) /\ Len(q) \in Nat \ {0}
      /\ Tail(q) \in Seq(S) /\ Head(q) = q[1] /\ Head(q) \in S
      /\ Len(Tail(q)) = Len(q) - 1
      /\ \A k \in 1 .. Len(Tail(q)) : Tail(q)[k] = q[k + 1]
  BY HeadTailProperties, EmptySeq
<1> QED
  BY <1>1

\* Pushing the next line of u, or anything else, keeps the order.
LEMMA FlowPush ==
    ASSUME NEW got \in Seq(Messages), NEW due \in Seq(Messages), NEW n \in Nat, NEW u,
           NEW m \in Messages, NEW l \in Nat,
           Flow(got, due, n, u),
           (~IsLine(m, u) /\ l = n) \/ (IsLine(m, u) /\ m.n = n + 1 /\ l = n + 1)
    PROVE  Flow(got, Append(due, m), l, u)
<1> DEFINE q == Append(due, m)
<1>1. /\ DOMAIN due = 1 .. Len(due) /\ Len(due) \in Nat
      /\ DOMAIN q = 1 .. Len(due) + 1
      /\ \A k \in 1 .. Len(due) : q[k] = due[k]
      /\ q[Len(due) + 1] = m
  BY Appended
<1> HIDE DEF q
<1>2. \A k \in DOMAIN got : IsLine(got[k], u) => got[k].n \in 1 .. l
  BY DEF Flow
<1>3. ASSUME NEW k \in DOMAIN q, IsLine(q[k], u)
      PROVE  /\ q[k].n \in 1 .. l
             /\ \A j \in 1 .. k - 1 : IsLine(q[j], u) => q[j].n < q[k].n
             /\ \A j \in DOMAIN got : IsLine(got[j], u) => got[j].n < q[k].n
  <2>1. CASE k \in 1 .. Len(due)
    <3>1. q[k] = due[k] /\ k \in DOMAIN due
      BY <1>1, <2>1
    <3>2. \A j \in 1 .. k - 1 : q[j] = due[j]
      BY <1>1, <2>1
    <3> QED
      BY <1>3, <3>1, <3>2 DEF Flow
  <2>2. CASE k = Len(due) + 1
    <3>1. q[k] = m /\ m.n = n + 1 /\ l = n + 1
      BY <1>1, <1>3, <2>2
    <3>2. \A j \in 1 .. k - 1 : j \in DOMAIN due /\ q[j] = due[j]
      BY <1>1, <2>2
    <3>3. \A j \in DOMAIN due : IsLine(due[j], u) => due[j].n \in 1 .. n
      BY DEF Flow
    <3>4. \A j \in DOMAIN got : IsLine(got[j], u) => got[j].n \in 1 .. n
      BY DEF Flow
    <3> QED
      BY <3>1, <3>2, <3>3, <3>4
  <2> QED
    BY <1>1, <2>1, <2>2
<1>4. ASSUME "chat" \in Observed, NEW i \in 1 .. l
      PROVE  \/ \E k \in DOMAIN got : IsLine(got[k], u) /\ got[k].n = i
             \/ \E k \in DOMAIN q : IsLine(q[k], u) /\ q[k].n = i
  <2>1. CASE i \in 1 .. n
    <3>1. \/ \E k \in DOMAIN got : IsLine(got[k], u) /\ got[k].n = i
          \/ \E k \in DOMAIN due : IsLine(due[k], u) /\ due[k].n = i
      BY <1>4, <2>1 DEF Flow
    <3> QED
      BY <1>1, <3>1
  <2>2. CASE i \notin 1 .. n
    BY <1>1, <1>4, <2>2
  <2> QED
    BY <2>1, <2>2
<1> QED
  BY <1>2, <1>3, <1>4 DEF Flow, q

\* So does sending the front message, whether the history keeps it or not.
LEMMA FlowSend ==
    ASSUME NEW got \in Seq(Messages), NEW due \in Seq(Messages), NEW n \in Nat, NEW u,
           due # <<>>, Flow(got, due, n, u)
    PROVE  /\ Flow(Append(got, Head(due)), Tail(due), n, u)
           /\ Head(due).kind \notin Observed => Flow(got, Tail(due), n, u)
<1> DEFINE m == Head(due)
           g == Append(got, m)
           q == Tail(due)
<1>1. /\ DOMAIN due = 1 .. Len(due) /\ Len(due) \in Nat \ {0}
      /\ m = due[1] /\ m \in Messages /\ 1 \in DOMAIN due
      /\ DOMAIN q = 1 .. Len(due) - 1
      /\ \A k \in 1 .. Len(due) - 1 : q[k] = due[k + 1]
  BY TakenOff
<1> HIDE DEF m
<1>2. /\ DOMAIN got = 1 .. Len(got) /\ Len(got) \in Nat
      /\ DOMAIN g = 1 .. Len(got) + 1
      /\ \A k \in 1 .. Len(got) : g[k] = got[k]
      /\ g[Len(got) + 1] = m
  BY <1>1, Appended
<1> HIDE DEF g, q
<1>3. \A k \in DOMAIN q : k + 1 \in DOMAIN due /\ q[k] = due[k + 1]
  BY <1>1
<1>4. \A k \in DOMAIN g : (k \in DOMAIN got /\ g[k] = got[k]) \/ g[k] = m
  BY <1>2
<1>5. \A k \in DOMAIN g : IsLine(g[k], u) => g[k].n \in 1 .. n
  BY <1>1, <1>4 DEF Flow
<1>6. ASSUME NEW k \in DOMAIN q, IsLine(q[k], u)
      PROVE  /\ q[k].n \in 1 .. n
             /\ \A j \in 1 .. k - 1 : IsLine(q[j], u) => q[j].n < q[k].n
             /\ \A j \in DOMAIN got : IsLine(got[j], u) => got[j].n < q[k].n
             /\ IsLine(m, u) => m.n < q[k].n
  <2>1. k + 1 \in DOMAIN due /\ q[k] = due[k + 1] /\ k \in Nat /\ k >= 1
    BY <1>1, <1>3
  <2>2. /\ due[k + 1].n \in 1 .. n
        /\ \A j \in 1 .. (k + 1) - 1 : IsLine(due[j], u) => due[j].n < due[k + 1].n
        /\ \A j \in DOMAIN got : IsLine(got[j], u) => got[j].n < due[k + 1].n
    BY <1>6, <2>1 DEF Flow
  <2>3. \A j \in 1 .. k - 1 : q[j] = due[j + 1] /\ j + 1 \in 1 .. (k + 1) - 1
    BY <1>1, <2>1
  <2>4. 1 \in 1 .. (k + 1) - 1
    BY <2>1
  <2> QED
    BY <1>1, <2>1, <2>2, <2>3, <2>4
<1>7. \A k \in DOMAIN q : IsLine(q[k], u) =>
         \A j \in DOMAIN g : IsLine(g[j], u) => g[j].n < q[k].n
  BY <1>4, <1>6
<1>8. ASSUME "chat" \in Observed, NEW i \in 1 .. n
      PROVE  \/ \E k \in DOMAIN got : IsLine(got[k], u) /\ got[k].n = i
             \/ IsLine(m, u) /\ m.n = i
             \/ \E k \in DOMAIN q : IsLine(q[k], u) /\ q[k].n = i
  <2>1. \/ \E k \in DOMAIN got : IsLine(got[k], u) /\ got[k].n = i
        \/ \E k \in DOMAIN due : IsLine(due[k], u) /\ due[k].n = i
    BY <1>8 DEF Flow
  <2>2. ASSUME NEW k \in DOMAIN due, IsLine(due[k], u), due[k].n = i, k # 1
        PROVE  \E j \in DOMAIN q : IsLine(q[j], u) /\ q[j].n = i
    <3>1. k - 1 \in DOMAIN q /\ q[k - 1] = due[k]
      BY <1>1, <2>2
    <3> QED
      BY <2>2, <3>1
  <2> QED
    BY <1>1, <2>1, <2>2
<1>9. "chat" \in Observed => \A i \in 1 .. n :
         \/ \E k \in DOMAIN g : IsLine(g[k], u) /\ g[k].n = i
         \/ \E k \in DOMAIN q : IsLine(q[k], u) /\ q[k].n = i
  <2>1. Len(got) + 1 \in DOMAIN g
    BY <1>2
  <2> QED
    BY <1>2, <1>8, <2>1
<1>10. Flow(g, q, n, u)
  BY <1>5, <1>6, <1>7, <1>9 DEF Flow
<1>11. ASSUME m.kind \notin Observed PROVE Flow(got, q, n, u)
  <2>1. "chat" \in Observed => ~IsLine(m, u)
    BY <1>11 DEF IsLine
  <2>2. \A k \in DOMAIN got : IsLine(got[k], u) => got[k].n \in 1 .. n
    BY DEF Flow
  <2> QED
    BY <1>6, <1>8, <2>1, <2>2 DEF Flow
<1> QED
  BY <1>10, <1>11 DEF m, g, q

\* The front message is the next line of its writer.
LEMMA FlowHead ==
    ASSUME NEW got \in Seq(Messages), NEW due \in Seq(Messages), NEW n \in Nat, NEW u,
           due # <<>>, Flow(got, due, n, u), "chat" \in Observed, IsLine(Head(due), u)
    PROVE  /\ \A k \in DOMAIN got : IsLine(got[k], u) => got[k].n < Head(due).n
           /\ \A i \in 1 .. Head(due).n - 1 :
                \E k \in DOMAIN got : IsLine(got[k], u) /\ got[k].n = i
<1>1. /\ DOMAIN due = 1 .. Len(due) /\ Len(due) \in Nat \ {0}
      /\ Head(due) = due[1] /\ 1 \in DOMAIN due
  BY TakenOff
<1>2. \A k \in DOMAIN got : IsLine(got[k], u) => got[k].n < due[1].n
  BY <1>1 DEF Flow
<1>3. due[1].n \in 1 .. n
  BY <1>1 DEF Flow
<1>4. ASSUME NEW i \in 1 .. due[1].n - 1
      PROVE  \E k \in DOMAIN got : IsLine(got[k], u) /\ got[k].n = i
  <2>1. i \in 1 .. n /\ i < due[1].n
    BY <1>3
  <2>2. \/ \E k \in DOMAIN got : IsLine(got[k], u) /\ got[k].n = i
        \/ \E k \in DOMAIN due : IsLine(due[k], u) /\ due[k].n = i
    BY <2>1 DEF Flow
  <2>3. ASSUME NEW k \in DOMAIN due, IsLine(due[k], u), due[k].n = i PROVE FALSE
    <3>1. k # 1
      BY <2>1, <2>3
    <3>2. 1 \in 1 .. k - 1
      BY <1>1, <3>1
    <3>3. due[1].n < due[k].n
      BY <1>1, <2>3, <3>2 DEF Flow
    <3> QED
      BY <1>3, <2>1, <2>3, <3>3
  <2> QED
    BY <2>2, <2>3
<1> QED
  BY <1>1, <1>2, <1>4

(***************************************************************************)
(* What a step does.  A step of a chat thread on its own changes only that *)
(* thread.                                                                 *)
(***************************************************************************)
\* Nothing changes but where main is and who has connected.
Outside ==
    /\ main'.pc \in {"accept", "scan"}
    /\ \A u \in Users : peer'[u] = peer[u] \/ (peer[u] = "new" /\ peer'[u] = "up")
    /\ UNCHANGED <<valid, socket, mutex, message_q, chat, sender, stale, cancelled, rcvd>>

Alone(u) ==
    /\ Peer(u) \/ (\E b \in Buffers : Receive(u, b)) \/ Text(u)
    /\ UNCHANGED <<main, valid, socket, mutex, message_q, sender, stale, cancelled, peer, rcvd>>

LEMMA SeatedSteps ==
    ASSUME TypeOK, SeatedInv, Leavers = {}, [Next]_vars
    PROVE  \/ Outside
           \/ \E u \in Users : \/ Alone(u) \/ LockQueue(u) \/ Push(u)
                               \/ LockOwn(u) \/ FindEmpty(u) \/ Wait(u) \/ Wake(u)
                               \/ Unlock(u) \/ Send(u)
<1> USE DEF SeatedInv, slotVars, numVars, threadVars, peerVars
<1>1. main.pc \in {"accept", "scan"} /\ main \in [pc : {"accept", "scan", "fill", "publish", "init", "create"},
                 sock : Users \union {NoUser}, i : 0 .. MaxClients]
  BY DEF Settled, TypeOK, MainTypes
<1>2. CASE UNCHANGED vars
  BY <1>1, <1>2 DEF vars, Outside
<1>3. ASSUME NEW u \in Users, Accept(u) PROVE Outside
  <2>1. main'.pc = "scan"
    BY <1>3 DEF Accept
  <2>2. \A v \in Users : peer'[v] = peer[v] \/ (peer[v] = "new" /\ peer'[v] = "up")
    BY <1>3 DEF Accept, TypeOK, DataTypes
  <2> QED
    BY <1>3, <2>1, <2>2 DEF Accept, Outside
<1>4. CASE Scan
  <2>1. main.i # MaxClients => main.i \in Slots
    BY <1>1, ConstAssumption DEF Slots
  <2>2. main.i # MaxClients => valid[main.i]
    BY <2>1 DEF Settled
  <2>3. main'.pc \in {"accept", "scan"}
    <3>1. main' = IF main.i = MaxClients THEN [main EXCEPT !.pc = "accept"]
                  ELSE [main EXCEPT !.i = @ + 1]
      BY <1>4, <2>2 DEF Scan
    <3> QED
      BY <1>1, <3>1
  <2> QED
    BY <1>4, <2>3 DEF Scan, Outside
<1>5. ~Fill /\ ~FillSocket /\ ~InitLocks /\ ~CreateChat
  BY <1>1 DEF Fill, FillSocket, InitLocks, CreateChat
<1>6. ASSUME NEW u \in Users
      PROVE  /\ ~SpawnSender(u) /\ ~Leave(u) /\ ~CountOut(u) /\ ~Bye(u)
             /\ ~DestroyMutex(u) /\ ~DestroyCond(u) /\ ~CancelSender(u)
  <2>1. chat[u].pc \in {"none", "lock", "push", "peer", "recv", "text"} /\ peer[u] # "closed"
    BY DEF Settled, AtWork
  <2> QED
    BY <2>1 DEF SpawnSender, Leave, CountOut, Bye, DestroyMutex, DestroyCond, CancelSender
<1>7. ASSUME NEW u \in Users
      PROVE  /\ ~SendFails(u) /\ ~CancelledInSend(u) /\ ~CancelledInWait(u)
             /\ ~WaitFails(u) /\ ~Close(u)
  <2>1. u \notin cancelled /\ u \notin Leavers
    BY DEF Settled
  <2>2. chat[u].slot \in Slots
    BY DEF TypeOK, ThreadTypes, ChatStates
  <2>3. peer[socket[chat[u].slot]] # "closed" /\ ~mutex[chat[u].slot].dead
    BY <2>2 DEF Settled
  <2> QED
    BY <2>1, <2>3 DEF SendFails, WaitFails, CancelledInSend, CancelledInWait, Close
<1>8. CASE Crash \/ AcceptFails \/ \E u \in Users : Stall(u) \/ ReadOn(u)
  BY <1>1, <1>8 DEF Crash, AcceptFails, Stall, ReadOn, Outside
<1>9. ASSUME NEW u \in Users, ChatNext(u)
      PROVE  Alone(u) \/ LockQueue(u) \/ Push(u)
  BY <1>6, <1>9 DEF ChatNext, Alone, Peer, Receive, Text
<1>10. ASSUME NEW u \in Users, SendNext(u)
       PROVE  LockOwn(u) \/ FindEmpty(u) \/ Wait(u) \/ Wake(u) \/ Unlock(u) \/ Send(u)
  BY <1>7, <1>10 DEF SendNext
<1> QED
  BY <1>2, <1>3, <1>4, <1>5, <1>7, <1>8, <1>9, <1>10 DEF Next, MainNext, ClientNext

(***************************************************************************)
(* Steps of one chat thread.                                               *)
(***************************************************************************)
\* What a chat thread may become while no line of it reaches a queue.
MovesTo(f, u) ==
    /\ f \in ChatStates /\ AtWork(f, u)
    /\ f.slot = chat[u].slot /\ f.pc # "none" /\ chat[u].pc # "none"
    /\ \A s \in Slots \ {f.slot} : Pushed(f, s) = Pushed(chat[u], s)

LEMMA StartMoves ==
    ASSUME TypeOK, NEW u \in Users, NEW c \in ChatStates,
           NEW stage \in {"nick", "who", "error", "renamed"}
    PROVE  /\ Start(c, u, stage) \in ChatStates /\ AtWork(Start(c, u, stage), u)
           /\ Start(c, u, stage).slot = c.slot
           /\ Start(c, u, stage).pc \in {"lock", "peer"}
           /\ \A s \in Slots : Pushed(Start(c, u, stage), s) = c.lines
<1> DEFINE f == Start(c, u, stage)
<1>1. stage \in Kinds
  BY DEF Kinds
<1>2. f \in ChatStates /\ f.slot = c.slot /\ f.stage = stage /\ f.pc \in {"lock", "peer"}
  BY <1>1, StartType
<1>3. /\ f.msg.kind = stage /\ f.msg.by = u /\ f.lines = c.lines
      /\ f.pc = (IF stage \in Single THEN "lock" ELSE "peer")
      /\ stage \in Single => f.to = c.slot
  BY DEF Start, ChatStates, Messages
<1> HIDE DEF f
<1>4. AtWork(f, u)
  BY <1>2, <1>3 DEF AtWork
<1>5. \A s \in Slots : Pushed(f, s) = c.lines
  BY <1>2, <1>3 DEF Pushed
<1> QED
  BY <1>2, <1>4, <1>5 DEF f

LEMMA AloneMoves ==
    ASSUME TypeOK, SeatedInv, ThreadTypes', NEW u \in Users, Alone(u)
    PROVE  \E f : MovesTo(f, u) /\ f.pc # "push" /\ chat[u].pc # "push"
                 /\ chat' = [chat EXCEPT ![u] = f]
<1> DEFINE c == chat[u]
<1>1. c \in ChatStates /\ AtWork(c, u) /\ c.lines \in Nat /\ c.slot \in Slots
  BY DEF TypeOK, ThreadTypes, ChatStates, SeatedInv
<1>2. CASE Peer(u)
  <2>1. c.pc = "peer" /\ c.stage \in {"renamed", "chat"} /\ c.to \in 0 .. MaxClients
    BY <1>1, <1>2 DEF Peer, AtWork, ChatStates, Single
  <2>2. CASE c.to = MaxClients /\ c.stage = "renamed"
    <3> DEFINE f == [c EXCEPT !.pc = "recv"]
    <3>1. chat' = [chat EXCEPT ![u] = f]
      BY <1>2, <2>2 DEF Peer, Completed
    <3>2. f \in ChatStates /\ f.pc = "recv" /\ f.slot = c.slot /\ f.lines = c.lines
      BY <1>1 DEF ChatStates, ChatPcs
    <3> HIDE DEF f
    <3>3. AtWork(f, u)
      BY <3>2 DEF AtWork
    <3>4. \A s \in Slots : Pushed(f, s) = Pushed(c, s)
      BY <2>2, <3>2 DEF Pushed
    <3> QED
      BY <2>1, <3>1, <3>2, <3>3, <3>4 DEF MovesTo
  <2>3. CASE c.to = MaxClients /\ c.stage = "chat"
    <3> DEFINE f == [c EXCEPT !.pc = "text"]
    <3>1. chat' = [chat EXCEPT ![u] = f]
      BY <1>2, <2>3 DEF Peer, Completed
    <3>2. f \in ChatStates /\ f.pc = "text" /\ f.slot = c.slot /\ f.lines = c.lines
      BY <1>1 DEF ChatStates, ChatPcs
    <3> HIDE DEF f
    <3>3. AtWork(f, u)
      BY <3>2 DEF AtWork
    <3>4. \A s \in Slots : Pushed(f, s) = Pushed(c, s)
      BY <2>3, <3>2, ConstAssumption DEF Pushed, Slots
    <3> QED
      BY <2>1, <3>1, <3>2, <3>3, <3>4 DEF MovesTo
  <2>4. CASE c.to # MaxClients /\ valid[c.to] /\ socket[c.to] # socket[c.slot]
    <3> DEFINE f == [c EXCEPT !.pc = "lock"]
    <3>1. chat' = [chat EXCEPT ![u] = f]
      BY <1>2, <2>4 DEF Peer
    <3>2. /\ f \in ChatStates /\ f.pc = "lock" /\ f.slot = c.slot /\ f.lines = c.lines
          /\ f.stage = c.stage /\ f.to = c.to /\ f.msg = c.msg
      BY <1>1 DEF ChatStates, ChatPcs
    <3> HIDE DEF f
    <3>3. f.to # f.slot
      BY <2>4, <3>2
    <3>4. AtWork(f, u)
      BY <1>1, <2>1, <3>2, <3>3 DEF AtWork, Single
    <3>5. \A s \in Slots : Pushed(f, s) = Pushed(c, s)
      BY <2>1, <3>2 DEF Pushed
    <3> QED
      BY <2>1, <3>1, <3>2, <3>4, <3>5 DEF MovesTo
  <2>5. CASE c.to # MaxClients /\ ~(valid[c.to] /\ socket[c.to] # socket[c.slot])
    <3> DEFINE f == [c EXCEPT !.to = @ + 1]
    <3>1. chat' = [chat EXCEPT ![u] = f]
      BY <1>2, <2>5 DEF Peer
    <3>2. f \in ChatStates
      BY <1>1, <2>5, NextTarget
    <3>3. /\ f.pc = "peer" /\ f.slot = c.slot /\ f.lines = c.lines
          /\ f.stage = c.stage /\ f.to = c.to + 1 /\ f.msg = c.msg
      BY <1>1, <2>1 DEF ChatStates
    <3> HIDE DEF f
    <3>4. c.to = c.slot
      <4>1. c.to \in Slots
        BY <2>1, <2>5, ConstAssumption DEF Slots
      <4>2. socket[c.to] = socket[c.slot]
        BY <2>5, <4>1 DEF SeatedInv, Settled
      <4> QED
        BY <1>1, <4>1, <4>2 DEF SeatedInv, Settled
    <3>5. AtWork(f, u)
      BY <1>1, <2>1, <3>3 DEF AtWork
    <3>6. \A s \in Slots \ {f.slot} : Pushed(f, s) = Pushed(c, s)
      BY <1>1, <2>1, <3>3, <3>4, ConstAssumption DEF Pushed, Slots
    <3> QED
      BY <2>1, <3>1, <3>2, <3>3, <3>5, <3>6 DEF MovesTo
  <2> QED
    BY <2>1, <2>2, <2>3, <2>4, <2>5
<1>3. ASSUME NEW b \in Buffers, Receive(u, b)
      PROVE  \E f : MovesTo(f, u) /\ f.pc # "push" /\ c.pc # "push"
                   /\ chat' = [chat EXCEPT ![u] = f]
  <2> DEFINE d == [c EXCEPT !.reads = @ + 1]
             e == [d EXCEPT !.pc = "text", !.rest = b]
  <2>1. d \in ChatStates /\ d.slot = c.slot /\ d.lines = c.lines
    BY <1>1 DEF ChatStates
  <2>2. c.pc = "recv"
    BY <1>3 DEF Receive
  <2>3. \A s \in Slots : Pushed(c, s) = c.lines
    BY <2>2 DEF Pushed
  <2>4. chat' = [chat EXCEPT ![u] =
                   CASE Head(b) = "name" -> Start(d, u, "nick")
                     [] Head(b) = "who"  -> Start(d, u, "who")
                     [] Head(b) = "bad"  -> Start(d, u, "error")
                     [] OTHER            -> e]
    BY <1>3 DEF Receive
  <2> HIDE DEF d
  <2>5. e \in ChatStates /\ e.pc = "text" /\ e.slot = c.slot /\ e.lines = c.lines
    BY <2>1, ConstAssumption DEF ChatStates, ChatPcs
  <2> HIDE DEF e
  <2>6. MovesTo(e, u) /\ e.pc # "push"
    <3>1. AtWork(e, u) /\ \A s \in Slots : Pushed(e, s) = c.lines
      BY <2>5 DEF AtWork, Pushed
    <3> QED
      BY <2>2, <2>3, <2>5, <3>1 DEF MovesTo
  <2>7. ASSUME NEW stage \in {"nick", "who", "error", "renamed"}
        PROVE  MovesTo(Start(d, u, stage), u) /\ Start(d, u, stage).pc # "push"
    <3> DEFINE f == Start(d, u, stage)
    <3>1. /\ f \in ChatStates /\ AtWork(f, u) /\ f.slot = d.slot /\ f.pc \in {"lock", "peer"}
          /\ \A s \in Slots : Pushed(f, s) = d.lines
      BY <2>1, StartMoves
    <3> HIDE DEF f
    <3>2. MovesTo(f, u) /\ f.pc # "push"
      BY <2>1, <2>2, <2>3, <3>1 DEF MovesTo
    <3> QED
      BY <3>2 DEF f
  <2>8. \E f \in {Start(d, u, "nick"), Start(d, u, "who"), Start(d, u, "error"), e} :
          chat' = [chat EXCEPT ![u] = f]
    BY <2>4
  <2> QED
    BY <2>2, <2>6, <2>7, <2>8
<1>4. CASE Text(u)
  <2> DEFINE begun == IF c.stamp = NoUser THEN name[c.slot] ELSE c.stamp
             m == [kind |-> "chat", from |-> begun, by |-> u, n |-> c.lines + 1]
             quiet == [c EXCEPT !.pc = "recv"]
             part == [c EXCEPT !.rest = Tail(@), !.stamp = begun]
             line == [c EXCEPT !.rest = Tail(@), !.stamp = NoUser, !.lines = @ + 1,
                               !.pc = "peer", !.stage = "chat", !.to = 0, !.msg = m]
  <2>1. c.pc = "text"
    BY <1>4 DEF Text
  <2>2. \E f \in {quiet, part, line} : chat' = [chat EXCEPT ![u] = f]
    BY <1>4 DEF Text
  <2>3. PICK f \in {quiet, part, line} : chat' = [chat EXCEPT ![u] = f]
    BY <2>2
  <2>4. chat' \in [Users -> ChatStates]
    BY DEF ThreadTypes
  <2>5. f \in ChatStates
    BY <2>3, <2>4 DEF TypeOK, ThreadTypes
  <2>6. \A s \in Slots : Pushed(c, s) = c.lines
    BY <2>1 DEF Pushed
  <2>7. CASE f \in {quiet, part}
    <3>1. f.pc \in {"recv", "text"} /\ f.slot = c.slot /\ f.lines = c.lines
      BY <1>1, <2>1, <2>7 DEF ChatStates
    <3>2. AtWork(f, u) /\ \A s \in Slots : Pushed(f, s) = c.lines
      BY <3>1 DEF AtWork, Pushed
    <3> QED
      BY <2>1, <2>3, <2>5, <2>6, <3>1, <3>2 DEF MovesTo
  <2>8. CASE f = line
    <3>1. /\ f.pc = "peer" /\ f.slot = c.slot /\ f.lines = c.lines + 1
          /\ f.stage = "chat" /\ f.to = 0 /\ f.msg = m
      <4> HIDE DEF m
      <4> QED
        BY <1>1, <2>8 DEF ChatStates
    <3>2. m.kind = "chat" /\ m.by = u /\ m.n = c.lines + 1
      OBVIOUS
    <3>3. AtWork(f, u)
      BY <1>1, <3>1, <3>2 DEF AtWork, Single
    <3>4. \A s \in Slots : Pushed(f, s) = c.lines
      BY <1>1, <3>1, ConstAssumption DEF Pushed, Slots
    <3> HIDE DEF quiet, part, line
    <3>5. MovesTo(f, u) /\ f.pc # "push"
      BY <2>1, <2>5, <2>6, <3>1, <3>3, <3>4 DEF MovesTo
    <3> QED
      BY <2>1, <2>3, <3>5
  <2> QED
    BY <2>7, <2>8
<1> QED
  BY <1>2, <1>3, <1>4 DEF Alone

(***************************************************************************)
(* Steps keep the parts of SeatedInv.                                      *)
(***************************************************************************)
\* Who holds a slot is known from the slot, and from the thread.
LEMMA HolderOfSlot ==
    ASSUME Settled, TypeOK, NEW s \in Slots, NEW u \in Users, chat[u].pc # "none", chat[u].slot = s
    PROVE  socket[s] = u
BY DEF Settled

LEMMA OneSender ==
    ASSUME Settled, TypeOK, NEW s \in Slots, NEW u \in SendersOf(s)
    PROVE  u \in Users /\ socket[s] = u /\ SendersOf(s) = {u}
BY DEF Settled, SendersOf

\* A step that pushes nothing and sends nothing leaves the lines where they are.
LEMMA LinesStay ==
    ASSUME SeatedInv, UNCHANGED <<socket, message_q, rcvd>>,
           \A s \in Slots : \A u \in Users \ {socket[s]} : Pushed(chat[u], s)' = Pushed(chat[u], s),
           \A u \in Users : chat[u].pc # "none" => chat'[u].pc # "none"
    PROVE  LinesFlow' /\ LinesInOrder'
<1>1. ASSUME NEW s \in Slots, NEW u \in Users \ {socket[s]} PROVE LinesOf(u, s)'
  <2>1. LinesOf(u, s)
    BY DEF SeatedInv, LinesFlow
  <2>2. Pushed(chat[u], s)' = Pushed(chat[u], s)
    OBVIOUS
  <2> QED
    BY <2>1, <2>2 DEF LinesOf, Flow
<1>2. LinesInOrder'
  BY DEF SeatedInv, LinesInOrder
<1> QED
  BY <1>1, <1>2 DEF SeatedInv, LinesFlow

LEMMA OutsideKeeps == SeatedInv /\ Outside => SeatedInv'
<1> SUFFICES ASSUME SeatedInv, Outside PROVE SeatedInv'
  OBVIOUS
<1>1. Settled'
  BY DEF SeatedInv, Outside, Settled
<1>2. \A u \in Users : AtWork(chat[u], u)'
  BY DEF SeatedInv, Outside
<1>3. LockHeld'
  BY DEF SeatedInv, Outside, LockHeld, PushersOf, SendersOf
<1>4. FoundEmpty' /\ NoLostWakeup'
  BY DEF SeatedInv, Outside, FoundEmpty, NoLostWakeup
<1>5. LinesFlow' /\ LinesInOrder'
  BY LinesStay DEF Outside
<1> QED
  BY <1>1, <1>2, <1>3, <1>4, <1>5 DEF SeatedInv

\* A chat thread that moves keeps everything but the locks and the queues.
LEMMA MoveSettled ==
    ASSUME TypeOK, SeatedInv, NEW u \in Users, NEW f, MovesTo(f, u),
           chat' = [chat EXCEPT ![u] = f],
           UNCHANGED <<main, valid, socket, stale, cancelled, peer>>,
           \A s \in Slots : ~mutex'[s].dead,
           \A v \in Users : sender'[v] # sender[v] => sender[v] # "none" /\ sender'[v] \notin {"none", "exited"}
    PROVE  /\ Settled'
           /\ \A v \in Users : AtWork(chat[v], v)'
<1>1. \A v \in Users : /\ chat'[v].slot = chat[v].slot
                       /\ chat[v].pc = "none" <=> chat'[v].pc = "none"
  BY DEF MovesTo, TypeOK, ThreadTypes
<1>2. \A v \in Users : sender[v] = "none" <=> sender'[v] = "none"
  OBVIOUS
<1>3. \A v \in Users : sender'[v] # "exited"
  BY DEF SeatedInv, Settled
<1>4. Settled'
  BY <1>1, <1>2, <1>3 DEF SeatedInv, Settled
<1>5. \A v \in Users : AtWork(chat[v], v)'
  BY DEF MovesTo, SeatedInv, TypeOK, ThreadTypes
<1> QED
  BY <1>4, <1>5

LEMMA MoveLines ==
    ASSUME TypeOK, SeatedInv, NEW u \in Users, NEW f, MovesTo(f, u),
           chat' = [chat EXCEPT ![u] = f], UNCHANGED <<socket, message_q, rcvd>>
    PROVE  LinesFlow' /\ LinesInOrder'
<1>1. \A v \in Users : chat'[v] = IF v = u THEN f ELSE chat[v]
  BY DEF TypeOK, ThreadTypes
<1>2. f.slot \in Slots /\ socket[f.slot] = u
  BY DEF MovesTo, ChatStates, SeatedInv, Settled
<1>3. ASSUME NEW s \in Slots, NEW v \in Users \ {socket[s]}
      PROVE  Pushed(chat[v], s)' = Pushed(chat[v], s)
  BY <1>1, <1>2 DEF MovesTo, Pushed
<1>4. \A v \in Users : chat[v].pc # "none" => chat'[v].pc # "none"
  BY <1>1 DEF MovesTo
<1> QED
  BY <1>3, <1>4, LinesStay

LEMMA AloneKeeps ==
    ASSUME TypeOK, SeatedInv, ThreadTypes', NEW u \in Users, Alone(u)
    PROVE  SeatedInv'
<1>1. PICK f : MovesTo(f, u) /\ f.pc # "push" /\ chat[u].pc # "push"
             /\ chat' = [chat EXCEPT ![u] = f]
  BY AloneMoves
<1>2. UNCHANGED <<main, valid, socket, mutex, message_q, sender, stale, cancelled, peer, rcvd>>
  BY DEF Alone
<1>3. Settled' /\ \A v \in Users : AtWork(chat[v], v)'
  <2>1. \A s \in Slots : ~mutex'[s].dead
    BY <1>2 DEF SeatedInv, Settled
  <2> QED
    BY <1>1, <1>2, <2>1, MoveSettled
<1>4. \A v \in Users : chat'[v] = IF v = u THEN f ELSE chat[v]
  BY <1>1 DEF TypeOK, ThreadTypes
<1>5. \A s \in Slots : PushersOf(s)' = PushersOf(s) /\ SendersOf(s)' = SendersOf(s)
  <2>1. f.slot = chat[u].slot
    BY <1>1 DEF MovesTo
  <2> QED
    BY <1>1, <1>2, <1>4, <2>1 DEF PushersOf, SendersOf
<1>6. LockHeld'
  BY <1>2, <1>5 DEF SeatedInv, LockHeld
<1>7. FoundEmpty' /\ NoLostWakeup'
  BY <1>1, <1>2, <1>4 DEF SeatedInv, FoundEmpty, NoLostWakeup, MovesTo
<1>8. LinesFlow' /\ LinesInOrder'
  BY <1>1, <1>2, MoveLines
<1> QED
  BY <1>3, <1>6, <1>7, <1>8 DEF SeatedInv

LEMMA LockQueueKeeps ==
    ASSUME TypeOK, SeatedInv, NEW u \in Users, LockQueue(u)
    PROVE  SeatedInv'
<1> DEFINE c == chat[u]
           s == c.to
           f == [c EXCEPT !.pc = "push"]
<1>1. c \in ChatStates /\ AtWork(c, u) /\ c.pc = "lock" /\ s \in Slots
  BY DEF LockQueue, SeatedInv, TypeOK, ThreadTypes
<1>2. chat' = [chat EXCEPT ![u] = f]
  BY DEF LockQueue
<1>3. /\ f \in ChatStates /\ f.pc = "push" /\ f.slot = c.slot /\ f.to = c.to
      /\ f.stage = c.stage /\ f.msg = c.msg /\ f.lines = c.lines
  BY <1>1 DEF ChatStates, ChatPcs
<1> HIDE DEF f
<1>4. AtWork(f, u) /\ \A t \in Slots : Pushed(f, t) = Pushed(c, t)
  BY <1>1, <1>3 DEF AtWork, Pushed
<1>5. MovesTo(f, u)
  BY <1>1, <1>3, <1>4 DEF MovesTo
<1>6. \A v \in Users : chat'[v] = IF v = u THEN f ELSE chat[v]
  BY <1>2 DEF TypeOK, ThreadTypes
<1>7. /\ ~mutex[s].dead /\ ~mutex[s].locked
      /\ mutex' = [mutex EXCEPT ![s] = [locked |-> TRUE, users |-> mutex[s].users + 1, dead |-> FALSE]]
      /\ mutex \in [Slots -> MutexTypes]
  BY <1>1 DEF LockQueue, CanLock, Locked, SeatedInv, Settled, TypeOK, DataTypes
<1>8. UNCHANGED <<main, valid, socket, message_q, sender, stale, cancelled, peer, rcvd>>
  BY DEF LockQueue, slotVars, numVars, threadVars, peerVars
<1>9. Settled' /\ \A v \in Users : AtWork(chat[v], v)'
  <2>1. \A t \in Slots : mutex'[t] = mutex[t] \/ (t = s /\ ~mutex'[t].dead)
    BY <1>7
  <2>2. \A t \in Slots : ~mutex'[t].dead
    BY <2>1 DEF SeatedInv, Settled
  <2> QED
    BY <1>2, <1>5, <1>8, <2>2, MoveSettled
<1>10. LockHeld'
  <2>1. \A t \in Slots : SendersOf(t)' = SendersOf(t)
    BY <1>3, <1>6, <1>8 DEF SendersOf
  <2>2. \A t \in Slots : PushersOf(t)' = IF t = s THEN PushersOf(t) \union {u} ELSE PushersOf(t)
    BY <1>1, <1>3, <1>6 DEF PushersOf
  <2>3. PushersOf(s) = {} /\ SendersOf(s) = {}
    BY <1>1, <1>7 DEF SeatedInv, LockHeld
  <2>4. mutex'[s].locked /\ \A t \in Slots \ {s} : mutex'[t] = mutex[t]
    BY <1>1, <1>7
  <2> QED
    BY <2>1, <2>2, <2>3, <2>4 DEF SeatedInv, LockHeld
<1>11. FoundEmpty' /\ NoLostWakeup'
  BY <1>3, <1>6, <1>8 DEF SeatedInv, FoundEmpty, NoLostWakeup
<1>12. LinesFlow' /\ LinesInOrder'
  BY <1>2, <1>5, <1>8, MoveLines
<1> QED
  BY <1>9, <1>10, <1>11, <1>12 DEF SeatedInv

\* Finding the queue empty, the send thread keeps its mutex.
LEMMA FindEmptyKeeps ==
    ASSUME TypeOK, SeatedInv, NEW u \in Users, FindEmpty(u)
    PROVE  SeatedInv'
<1>1. /\ sender[u] = "check" /\ message_q[chat[u].slot] = <<>>
      /\ \A v \in Users : sender'[v] = IF v = u THEN "empty" ELSE sender[v]
  BY DEF FindEmpty, TypeOK, DataTypes
<1>2. UNCHANGED <<main, valid, socket, mutex, message_q, chat, stale, cancelled, peer, rcvd>>
  BY DEF FindEmpty, slotVars, threadVars, peerVars
<1>3. Settled' /\ \A v \in Users : AtWork(chat[v], v)'
  BY <1>1, <1>2 DEF SeatedInv, Settled
<1>4. LockHeld'
  <2>1. \A t \in Slots : PushersOf(t)' = PushersOf(t) /\ SendersOf(t)' = SendersOf(t)
    BY <1>1, <1>2 DEF PushersOf, SendersOf
  <2> QED
    BY <1>2, <2>1 DEF SeatedInv, LockHeld
<1>5. FoundEmpty' /\ NoLostWakeup'
  BY <1>1, <1>2 DEF SeatedInv, FoundEmpty, NoLostWakeup
<1>6. LinesFlow' /\ LinesInOrder'
  BY <1>2, LinesStay
<1> QED
  BY <1>3, <1>4, <1>5, <1>6 DEF SeatedInv

\* The send thread's steps on its mutex.
LEMMA SenderKeeps ==
    ASSUME TypeOK, SeatedInv, NEW u \in Users,
           LockOwn(u) \/ Wait(u) \/ Wake(u) \/ Unlock(u)
    PROVE  SeatedInv'
<1> DEFINE s == chat[u].slot
<1>1. s \in Slots /\ socket[s] = u
  <2>1. sender[u] # "none"
    BY DEF LockOwn, Wait, Wake, Unlock
  <2> QED
    BY <2>1 DEF SeatedInv, Settled, TypeOK, ThreadTypes, ChatStates
<1>2. UNCHANGED <<main, valid, socket, message_q, chat, cancelled, peer, rcvd>> /\ stale' = {}
  BY DEF LockOwn, Wait, Wake, Unlock, slotVars, numVars, threadVars, peerVars, SeatedInv, Settled
<1>3. ~mutex[s].dead /\ mutex[s] \in MutexTypes /\ mutex \in [Slots -> MutexTypes]
  BY <1>1 DEF SeatedInv, Settled, TypeOK, DataTypes
<1>4. PICK q \in SenderPcs \ {"none", "exited"} : sender' = [sender EXCEPT ![u] = q]
  BY DEF LockOwn, Wait, Wake, Unlock, SenderPcs
<1>5. \A v \in Users : sender'[v] = IF v = u THEN q ELSE sender[v]
  BY <1>4 DEF TypeOK, DataTypes
<1>6. PICK m \in MutexTypes : mutex' = [mutex EXCEPT ![s] = m] /\ ~m.dead
                            /\ (q \in {"check", "send"} => m.locked)
  <2>1. CASE LockOwn(u)
    <3> DEFINE m == [locked |-> TRUE, users |-> mutex[s].users + 1, dead |-> FALSE]
    <3>1. mutex' = [mutex EXCEPT ![s] = m]
      BY <1>3, <1>5, <2>1 DEF LockOwn, Locked, TypeOK, DataTypes
    <3>2. m \in MutexTypes /\ ~m.dead /\ m.locked
      BY <1>3 DEF MutexTypes
    <3> HIDE DEF m
    <3> QED
      BY <3>1, <3>2
  <2>2. CASE Wait(u)
    <3> DEFINE m == [mutex[s] EXCEPT !.locked = FALSE]
    <3>1. mutex' = [mutex EXCEPT ![s] = m] /\ q = "wait"
      BY <1>3, <1>5, <2>2 DEF Wait, Released, TypeOK, DataTypes
    <3>2. m \in MutexTypes /\ ~m.dead
      BY <1>3 DEF MutexTypes
    <3> HIDE DEF m
    <3> QED
      BY <3>1, <3>2
  <2>3. CASE Wake(u)
    <3> DEFINE m == [mutex[s] EXCEPT !.locked = TRUE]
    <3>1. mutex' = [mutex EXCEPT ![s] = m]
      BY <1>3, <1>5, <2>3 DEF Wake, Reacquired, TypeOK, DataTypes
    <3>2. m \in MutexTypes /\ ~m.dead /\ m.locked
      BY <1>3 DEF MutexTypes
    <3> HIDE DEF m
    <3> QED
      BY <3>1, <3>2
  <2>4. CASE Unlock(u)
    <3> DEFINE m == [locked |-> FALSE, users |-> mutex[s].users - 1, dead |-> FALSE]
    <3>1. mutex' = [mutex EXCEPT ![s] = m] /\ q = "lock"
      BY <1>3, <1>5, <2>4 DEF Unlock, Unlocked, TypeOK, DataTypes
    <3>2. m \in MutexTypes /\ ~m.dead
      BY <1>3 DEF MutexTypes
    <3> HIDE DEF m
    <3> QED
      BY <3>1, <3>2
  <2> QED
    BY <2>1, <2>2, <2>3, <2>4
<1>7. Settled'
  <2>1. \A t \in Slots : ~mutex'[t].dead
    BY <1>1, <1>3, <1>6 DEF SeatedInv, Settled
  <2>2. sender[u] # "none"
    BY DEF LockOwn, Wait, Wake, Unlock
  <2>3. \A v \in Users : sender'[v] # "exited" /\ (sender[v] = "none" <=> sender'[v] = "none")
    BY <1>5, <2>2 DEF SeatedInv, Settled
  <2> QED
    BY <1>2, <2>1, <2>3 DEF SeatedInv, Settled
<1>8. \A v \in Users : AtWork(chat[v], v)'
  BY <1>2 DEF SeatedInv
<1>9. LockHeld'
  <2>1. \A t \in Slots : PushersOf(t)' = PushersOf(t)
    BY <1>2 DEF PushersOf
  <2>2. \A t \in Slots \ {s} : SendersOf(t)' = SendersOf(t) /\ mutex'[t] = mutex[t]
    BY <1>2, <1>3, <1>5, <1>6 DEF SendersOf
  <2>3. SendersOf(s)' \subseteq {u} /\ SendersOf(s) \subseteq {u}
    BY <1>1, <1>2, <1>7, OneSender DEF SendersOf, Settled, SeatedInv
  <2>4. mutex'[s] = m
    BY <1>1, <1>3, <1>6
  <2>5. CASE LockOwn(u) \/ Wake(u)
    <3>1. ~mutex[s].locked
      BY <1>3, <2>5 DEF LockOwn, Wake, CanLock
    <3>2. PushersOf(s) = {} /\ q = "check"
      BY <1>1, <1>5, <2>5, <3>1 DEF LockOwn, Wake, SeatedInv, LockHeld, TypeOK, DataTypes
    <3> QED
      BY <1>6, <2>1, <2>2, <2>4, <3>2 DEF SeatedInv, LockHeld
  <2>6. CASE Wait(u) \/ Unlock(u)
    <3>1. u \in SendersOf(s) /\ q \in {"wait", "lock"}
      BY <1>5, <2>6 DEF Wait, Unlock, SendersOf, TypeOK, DataTypes
    <3>2. PushersOf(s) = {} /\ SendersOf(s)' = {}
      BY <1>1, <1>5, <2>3, <3>1 DEF SeatedInv, LockHeld, SendersOf
    <3>3. PushersOf(s)' \union SendersOf(s)' = {}
      BY <1>1, <1>2, <2>1, <3>2
    <3> QED
      BY <1>1, <1>2, <2>1, <2>2, <3>3 DEF SeatedInv, LockHeld
  <2> QED
    BY <2>5, <2>6
<1>10. FoundEmpty' /\ NoLostWakeup'
  <2>1. q # "empty" /\ (q = "wait" => sender[u] = "empty")
    BY <1>5 DEF LockOwn, Wait, Wake, Unlock, TypeOK, DataTypes
  <2> QED
    BY <1>2, <1>5, <2>1 DEF SeatedInv, FoundEmpty, NoLostWakeup
<1>11. LinesFlow' /\ LinesInOrder'
  BY <1>2, LinesStay
<1> QED
  BY <1>7, <1>8, <1>9, <1>10, <1>11 DEF SeatedInv

\* A wake-up goes to the send thread of the slot, if it sleeps.
LEMMA SignalWakes ==
    ASSUME TypeOK, SeatedInv, NEW s \in Slots, Signal(s)
    PROVE  /\ \A v \in Users : sender'[v] # sender[v] => sender[v] = "wait" /\ sender'[v] = "wake"
           /\ \A v \in Users : sender'[v] = "wait" => chat[v].slot # s
<1>1. LiveSleepers(s) = Sleepers(s)
  BY DEF LiveSleepers, SeatedInv, Settled
<1>2. \A v \in Sleepers(s) : v \in Users /\ sender[v] = "wait" /\ chat[v].slot = s /\ socket[s] = v
  BY DEF Sleepers, SeatedInv, Settled
<1>3. CASE Sleepers(s) = {}
  BY <1>1, <1>3 DEF Signal, Sleepers
<1>4. CASE Sleepers(s) # {}
  <2>1. PICK v \in Sleepers(s) : sender' = [sender EXCEPT ![v] = "wake"]
    BY <1>1, <1>4 DEF Signal
  <2>2. \A w \in Users : sender'[w] = IF w = v THEN "wake" ELSE sender[w]
    BY <1>2, <2>1 DEF TypeOK, DataTypes
  <2>3. \A w \in Users : sender[w] = "wait" /\ chat[w].slot = s => w = v
    BY <1>2, <2>1 DEF Sleepers
  <2> QED
    BY <1>2, <2>1, <2>2, <2>3
<1> QED
  BY <1>3, <1>4

\* What a chat thread is when it has pushed a message.
LEMMA PushMoves ==
    ASSUME TypeOK, SeatedInv, ThreadTypes', NEW u \in Users, Push(u)
    PROVE  LET c == chat[u] IN
           \E f :
                 /\ f \in ChatStates /\ AtWork(f, u)
                 /\ f.slot = c.slot /\ f.pc \notin {"none", "push"}
                 /\ chat' = [chat EXCEPT ![u] = f]
                 /\ c.stage # "chat" => \A t \in Slots : Pushed(f, t) = c.lines /\ Pushed(c, t) = c.lines
                 /\ c.stage = "chat" => /\ \A t \in Slots \ {c.to} : Pushed(f, t) = Pushed(c, t)
                                        /\ Pushed(f, c.to) = c.lines
                                        /\ Pushed(c, c.to) = c.lines - 1
<1> DEFINE c == chat[u]
<1>1. /\ c \in ChatStates /\ AtWork(c, u) /\ c.pc = "push" /\ c.to \in Slots
      /\ c.stage \in {"nick", "who", "error", "renamed", "chat"}
  BY DEF Push, SeatedInv, TypeOK, ThreadTypes, AtWork
<1>2. c.stage # "chat" => \A t \in Slots : Pushed(c, t) = c.lines
  BY DEF Pushed
<1>3. CASE c.stage = "nick"
  <2>1. chat' = [chat EXCEPT ![u] = Start(c, u, "renamed")]
    BY <1>3 DEF Push, Single, Completed
  <2> DEFINE f == Start(c, u, "renamed")
  <2>2. /\ f \in ChatStates /\ AtWork(f, u) /\ f.slot = c.slot /\ f.pc \in {"lock", "peer"}
        /\ \A t \in Slots : Pushed(f, t) = c.lines
    BY <1>1, StartMoves
  <2> HIDE DEF f
  <2>3. chat' = [chat EXCEPT ![u] = f]
    BY <2>1 DEF f
  <2> QED
    BY <1>2, <1>3, <2>2, <2>3
<1>4. CASE c.stage \in {"who", "error"}
  <2> DEFINE f == [c EXCEPT !.pc = "recv"]
  <2>1. chat' = [chat EXCEPT ![u] = f]
    BY <1>4 DEF Push, Single, Completed
  <2>2. f \in ChatStates /\ f.pc = "recv" /\ f.slot = c.slot /\ f.lines = c.lines
    BY <1>1 DEF ChatStates, ChatPcs
  <2> HIDE DEF f
  <2>3. AtWork(f, u) /\ \A t \in Slots : Pushed(f, t) = c.lines
    BY <2>2 DEF AtWork, Pushed
  <2> QED
    BY <1>2, <1>4, <2>1, <2>2, <2>3
<1>5. CASE c.stage \in {"renamed", "chat"}
  <2> DEFINE f == [c EXCEPT !.pc = "peer", !.to = @ + 1]
  <2>1. chat' = [chat EXCEPT ![u] = f]
    BY <1>5 DEF Push, Single
  <2>2. chat'[u] = f /\ f \in ChatStates
    BY <2>1 DEF TypeOK, ThreadTypes
  <2>3. /\ f.pc = "peer" /\ f.slot = c.slot /\ f.lines = c.lines /\ f.stage = c.stage
        /\ f.to = c.to + 1 /\ f.msg = c.msg
    BY <1>1 DEF ChatStates
  <2> HIDE DEF f
  <2>4. AtWork(f, u)
    BY <1>1, <1>5, <2>3 DEF AtWork, Single
  <2>5. c.stage # "chat" => \A t \in Slots : Pushed(f, t) = c.lines
    BY <2>3 DEF Pushed
  <2>6. c.stage = "chat" => /\ \A t \in Slots \ {c.to} : Pushed(f, t) = Pushed(c, t)
                            /\ Pushed(f, c.to) = c.lines
                            /\ Pushed(c, c.to) = c.lines - 1
    BY <1>1, <2>3, ConstAssumption DEF Pushed, Slots
  <2> QED
    BY <1>2, <2>1, <2>2, <2>3, <2>4, <2>5, <2>6
<1> QED
  BY <1>1, <1>3, <1>4, <1>5

\* The lines of everyone after a push: the queue that was pushed on has one more
\* of the thread's own, the others what they had.
LEMMA PushLines ==
    ASSUME TypeOK, SeatedInv, ThreadTypes', NEW u \in Users, Push(u)
    PROVE  LinesFlow' /\ LinesInOrder'
<1> DEFINE c == chat[u]
           s == c.to
<1>1. PICK f : /\ f \in ChatStates /\ AtWork(f, u)
               /\ f.slot = c.slot /\ f.pc \notin {"none", "push"}
               /\ chat' = [chat EXCEPT ![u] = f]
               /\ c.stage # "chat" => \A t \in Slots : Pushed(f, t) = c.lines /\ Pushed(c, t) = c.lines
               /\ c.stage = "chat" => /\ \A t \in Slots \ {s} : Pushed(f, t) = Pushed(c, t)
                                      /\ Pushed(f, s) = c.lines
                                      /\ Pushed(c, s) = c.lines - 1
  BY PushMoves
<1>2. /\ c \in ChatStates /\ AtWork(c, u) /\ c.pc = "push" /\ s \in Slots
      /\ c.lines \in Nat /\ c.msg \in Messages /\ c.slot \in Slots
  BY DEF Push, SeatedInv, TypeOK, ThreadTypes, ChatStates
<1>3. /\ c.msg.kind = c.stage /\ c.msg.by = u
      /\ c.stage = "chat" => c.lines >= 1 /\ c.msg.n = c.lines /\ s # c.slot
  BY <1>2 DEF AtWork, Single
<1>4. /\ message_q' = [message_q EXCEPT ![s] = Append(@, c.msg)]
      /\ UNCHANGED <<socket, rcvd>>
  BY DEF Push, peerVars
<1>5. /\ message_q'[s] = Append(message_q[s], c.msg)
      /\ \A t \in Slots \ {s} : message_q'[t] = message_q[t]
  BY <1>2, <1>4 DEF TypeOK, DataTypes
<1>6. \A v \in Users : chat'[v] = IF v = u THEN f ELSE chat[v]
  BY <1>1 DEF TypeOK, ThreadTypes
<1>7. socket[c.slot] = u
  BY <1>2 DEF SeatedInv, Settled
<1>8. ASSUME NEW t \in Slots, NEW v \in Users \ {socket[t]} PROVE LinesOf(v, t)'
  <2> DEFINE got == rcvd[socket[t]]
             n == Pushed(chat[v], t)
             l == Pushed(chat'[v], t)
  <2>1. LinesOf(v, t)' <=> Flow(got, message_q'[t], l, v)
    BY <1>4 DEF LinesOf, Flow, Pushed
  <2>2. Flow(got, message_q[t], n, v)
    BY DEF SeatedInv, LinesFlow, LinesOf
  <2>3. t # s \/ v # u \/ c.stage # "chat" => n = l
    BY <1>1, <1>6
  <2>4. CASE t # s
    BY <1>5, <2>1, <2>2, <2>3, <2>4
  <2>5. CASE t = s
    <3>1. socket[t] \in Users
      BY DEF SeatedInv, Settled
    <3>2. got \in Seq(Messages) /\ message_q[s] \in Seq(Messages)
      BY <1>2, <3>1 DEF TypeOK, DataTypes
    <3>3. chat[v].lines \in Nat /\ AtWork(chat[v], v)
      BY DEF SeatedInv, TypeOK, ThreadTypes, ChatStates
    <3>4. n \in Nat
      BY <3>3 DEF Pushed, AtWork
    <3>5. IsLine(c.msg, v) <=> (c.stage = "chat" /\ v = u)
      BY <1>3 DEF IsLine
    <3>6. CASE ~IsLine(c.msg, v)
      <4>1. l = n
        BY <2>3, <3>5, <3>6
      <4>2. Flow(got, Append(message_q[s], c.msg), l, v)
        BY <1>2, <2>2, <2>5, <3>2, <3>4, <3>6, <4>1, FlowPush
      <4> QED
        BY <1>5, <2>1, <2>5, <4>2
    <3>7. CASE IsLine(c.msg, v)
      <4>1. v = u /\ l = c.lines /\ n = c.lines - 1 /\ c.msg.n = c.lines
        BY <1>1, <1>3, <1>6, <2>5, <3>5, <3>7
      <4>2. Flow(got, Append(message_q[s], c.msg), l, v)
        BY <1>2, <2>2, <2>5, <3>2, <3>4, <3>7, <4>1, FlowPush
      <4> QED
        BY <1>5, <2>1, <2>5, <4>2
    <3> QED
      BY <3>6, <3>7
  <2> QED
    BY <2>4, <2>5
<1>9. ASSUME NEW t \in Slots, NEW k \in DOMAIN message_q'[t]
      PROVE  ~IsLine(message_q'[t][k], socket'[t])
  <2>1. CASE t # s
    BY <1>4, <1>5, <2>1 DEF SeatedInv, LinesFlow
  <2>2. CASE t = s
    <3>1. message_q[s] \in Seq(Messages)
      BY <1>2 DEF TypeOK, DataTypes
    <3>2. \/ k \in DOMAIN message_q[s] /\ message_q'[s][k] = message_q[s][k]
          \/ message_q'[s][k] = c.msg
      BY <1>2, <1>5, <2>2, <3>1, Appended
    <3>3. ~IsLine(c.msg, socket[s])
      BY <1>2, <1>3, <1>7 DEF IsLine, SeatedInv, Settled
    <3> QED
      BY <1>2, <1>4, <2>2, <3>2, <3>3 DEF SeatedInv, LinesFlow
  <2> QED
    BY <2>1, <2>2
<1>10. \A v \in Users : chat[v].pc # "none" => chat'[v].pc # "none"
  BY <1>1, <1>6
<1>11. LinesInOrder'
  BY <1>4 DEF SeatedInv, LinesInOrder
<1> QED
  BY <1>4, <1>8, <1>9, <1>10, <1>11 DEF SeatedInv, LinesFlow
LEMMA PushKeeps ==
    ASSUME TypeOK, SeatedInv, ThreadTypes', NEW u \in Users, Push(u)
    PROVE  SeatedInv'
<1> DEFINE c == chat[u]
<1>1. PICK f : /\ f \in ChatStates /\ AtWork(f, u)
               /\ f.slot = c.slot /\ f.pc \notin {"none", "push"}
               /\ chat' = [chat EXCEPT ![u] = f]
  BY PushMoves
<1>2. PICK s \in Slots : s = c.to
  BY DEF Push, TypeOK, ThreadTypes
<1>3. c.pc = "push" /\ u \in PushersOf(s)
  BY <1>2 DEF Push, PushersOf
<1>4. \A v \in Users : chat'[v] = IF v = u THEN f ELSE chat[v]
  BY <1>1 DEF TypeOK, ThreadTypes
<1>5. \A v \in Users : /\ chat'[v].slot = chat[v].slot
                       /\ chat[v].pc = "none" <=> chat'[v].pc = "none"
  BY <1>1, <1>3, <1>4
<1>6. /\ message_q' = [message_q EXCEPT ![s] = Append(@, c.msg)]
      /\ mutex' = [mutex EXCEPT ![s] = Unlocked(@)]
      /\ Signal(s)
      /\ UNCHANGED <<main, valid, socket, stale, cancelled, peer>>
  BY <1>2 DEF Push, numVars, threadVars, peerVars
<1>7. /\ \A v \in Users : sender'[v] # sender[v] => sender[v] = "wait" /\ sender'[v] = "wake"
      /\ \A v \in Users : sender'[v] = "wait" => chat[v].slot # s
  BY <1>6, SignalWakes
<1>8. Settled'
  <2>1. \A t \in Slots : ~mutex'[t].dead
    BY <1>6 DEF SeatedInv, Settled, Unlocked, TypeOK, DataTypes
  <2> QED
    BY <1>5, <1>6, <1>7, <2>1 DEF SeatedInv, Settled
<1>9. \A v \in Users : AtWork(chat[v], v)'
  BY <1>1, <1>4 DEF SeatedInv
<1>10. LockHeld'
  <2>1. \A t \in Slots : SendersOf(t)' = SendersOf(t)
    BY <1>5, <1>7 DEF SendersOf
  <2>2. \A t \in Slots \ {s} : PushersOf(t)' = PushersOf(t) /\ mutex'[t] = mutex[t]
    BY <1>1, <1>2, <1>4, <1>6 DEF PushersOf, TypeOK, DataTypes
  <2>3. PushersOf(s) = {u} /\ SendersOf(s) = {}
    BY <1>3 DEF SeatedInv, LockHeld
  <2>4. PushersOf(s)' = {}
    BY <1>1, <1>4, <2>3 DEF PushersOf
  <2>5. PushersOf(s)' \union SendersOf(s)' = {}
    BY <2>1, <2>3, <2>4
  <2> QED
    BY <2>1, <2>2, <2>5 DEF SeatedInv, LockHeld
<1>11. FoundEmpty' /\ NoLostWakeup'
  <2>1. SendersOf(s) = {}
    BY <1>3 DEF SeatedInv, LockHeld
  <2>2. ASSUME NEW v \in Users, sender'[v] \in {"empty", "wait"}
        PROVE  message_q'[chat'[v].slot] = <<>>
    <3>1. chat'[v].slot = chat[v].slot /\ sender[v] = sender'[v]
      BY <1>5, <1>7, <2>2
    <3>2. chat[v].slot # s
      BY <1>7, <2>1, <2>2, <3>1 DEF SendersOf
    <3>3. chat[v].slot \in Slots
      BY DEF TypeOK, ThreadTypes, ChatStates
    <3>4. message_q[chat[v].slot] = <<>>
      BY <2>2, <3>1 DEF SeatedInv, FoundEmpty, NoLostWakeup
    <3> QED
      BY <1>6, <3>1, <3>2, <3>3, <3>4 DEF TypeOK, DataTypes
  <2> QED
    BY <2>2 DEF FoundEmpty, NoLostWakeup
<1>12. LinesFlow' /\ LinesInOrder'
  BY PushLines
<1> QED
  BY <1>8, <1>9, <1>10, <1>11, <1>12 DEF SeatedInv

\* The send thread takes the front message off its queue.
LEMMA SendKeeps ==
    ASSUME TypeOK, SeatedInv, NEW u \in Users, Send(u)
    PROVE  SeatedInv'
<1>1. PICK s \in Slots : s = chat[u].slot /\ socket[s] = u /\ sender[u] \in {"check", "send"}
  BY DEF Send, SeatedInv, Settled, TypeOK, ThreadTypes, ChatStates
<1> DEFINE h == Head(message_q[s])
<1>2. /\ message_q[s] # <<>> /\ message_q[s] \in Seq(Messages) /\ rcvd[u] \in Seq(Messages)
      /\ peer[u] = "up"
  BY <1>1 DEF Send, SeatedInv, Settled, TypeOK, DataTypes
<1>3. h \in Messages /\ 1 \in DOMAIN message_q[s] /\ h = message_q[s][1]
  BY <1>2, TakenOff
<1>4. /\ message_q' = [message_q EXCEPT ![s] = Tail(@)]
      /\ sender' = [sender EXCEPT ![u] = "send"]
      /\ UNCHANGED <<main, valid, socket, mutex, chat, stale, cancelled, peer>>
      /\ rcvd' = IF h.kind \in Observed THEN [rcvd EXCEPT ![u] = Append(@, h)] ELSE rcvd
  BY <1>1, <1>2 DEF Send, slotVars, numVars, threadVars
<1>5. /\ message_q'[s] = Tail(message_q[s])
      /\ \A t \in Slots \ {s} : message_q'[t] = message_q[t]
      /\ \A v \in Users : sender'[v] = IF v = u THEN "send" ELSE sender[v]
      /\ rcvd'[u] = IF h.kind \in Observed THEN Append(rcvd[u], h) ELSE rcvd[u]
      /\ \A v \in Users \ {u} : rcvd'[v] = rcvd[v]
  <2> HIDE DEF h
  <2> QED
    BY <1>4 DEF TypeOK, DataTypes
<1> HIDE DEF h
<1>6. Settled' /\ \A v \in Users : AtWork(chat[v], v)'
  BY <1>1, <1>4, <1>5 DEF SeatedInv, Settled
<1>7. LockHeld'
  <2>1. \A t \in Slots : PushersOf(t)' = PushersOf(t) /\ SendersOf(t)' = SendersOf(t)
    BY <1>1, <1>4, <1>5 DEF PushersOf, SendersOf
  <2> QED
    BY <1>4, <2>1 DEF SeatedInv, LockHeld
<1>8. FoundEmpty' /\ NoLostWakeup'
  <2>1. ASSUME NEW v \in Users, sender'[v] \in {"empty", "wait"}
        PROVE  message_q'[chat[v].slot] = <<>>
    <3>1. v # u /\ message_q[chat[v].slot] = <<>>
      BY <1>5, <2>1 DEF SeatedInv, FoundEmpty, NoLostWakeup
    <3>2. chat[v].slot \in Slots
      BY DEF TypeOK, ThreadTypes, ChatStates
    <3> QED
      BY <1>2, <1>5, <3>1, <3>2
  <2> QED
    BY <1>4, <2>1 DEF FoundEmpty, NoLostWakeup
<1>9. ASSUME NEW t \in Slots, NEW v \in Users \ {socket[t]} PROVE LinesOf(v, t)'
  <2> DEFINE n == Pushed(chat[v], t)
  <2>1. LinesOf(v, t)' <=> Flow(rcvd'[socket[t]], message_q'[t], n, v)
    BY <1>4 DEF LinesOf, Flow, Pushed
  <2>2. Flow(rcvd[socket[t]], message_q[t], n, v)
    BY DEF SeatedInv, LinesFlow, LinesOf
  <2>3. CASE t # s
    <3>1. socket[t] \in Users \ {u}
      BY <1>1, <2>3 DEF SeatedInv, Settled
    <3> QED
      BY <1>5, <2>1, <2>2, <2>3, <3>1
  <2>4. CASE t = s
    <3>1. chat[v].lines \in Nat /\ AtWork(chat[v], v)
      BY DEF SeatedInv, TypeOK, ThreadTypes, ChatStates
    <3>2. n \in Nat
      BY <3>1 DEF Pushed, AtWork
    <3>3. Flow(rcvd[u], message_q[s], n, v)
      BY <1>1, <2>2, <2>4
    <3>4. /\ Flow(Append(rcvd[u], h), Tail(message_q[s]), n, v)
          /\ h.kind \notin Observed => Flow(rcvd[u], Tail(message_q[s]), n, v)
      BY <1>2, <3>2, <3>3, FlowSend DEF h
    <3> QED
      BY <1>1, <1>5, <2>1, <2>4, <3>4
  <2> QED
    BY <2>3, <2>4
<1>10. ~IsLine(h, u)
  BY <1>1, <1>3 DEF SeatedInv, LinesFlow
<1>11. ASSUME NEW t \in Slots, NEW k \in DOMAIN message_q'[t]
       PROVE  ~IsLine(message_q'[t][k], socket'[t])
  <2>1. CASE t # s
    BY <1>4, <1>5, <2>1 DEF SeatedInv, LinesFlow
  <2>2. CASE t = s
    <3>1. k + 1 \in DOMAIN message_q[s] /\ message_q'[s][k] = message_q[s][k + 1]
      <4>1. /\ DOMAIN message_q[s] = 1 .. Len(message_q[s]) /\ Len(message_q[s]) \in Nat \ {0}
            /\ DOMAIN Tail(message_q[s]) = 1 .. Len(message_q[s]) - 1
            /\ \A j \in 1 .. Len(message_q[s]) - 1 : Tail(message_q[s])[j] = message_q[s][j + 1]
        BY <1>2, TakenOff
      <4> DEFINE q == message_q[s]
      <4>2. k \in 1 .. Len(q) - 1 /\ message_q'[s] = Tail(q)
        BY <1>5, <2>2, <4>1
      <4> HIDE DEF q
      <4>3. message_q'[s][k] = q[k + 1] /\ k + 1 \in DOMAIN q
        BY <4>1, <4>2 DEF q
      <4> QED
        BY <4>3 DEF q
    <3> QED
      BY <1>4, <2>2, <3>1 DEF SeatedInv, LinesFlow
  <2> QED
    BY <2>1, <2>2
<1>12. \A k \in DOMAIN rcvd'[u] :
          \/ k \in DOMAIN rcvd[u] /\ k \in 1 .. Len(rcvd[u]) /\ rcvd'[u][k] = rcvd[u][k]
          \/ k = Len(rcvd[u]) + 1 /\ rcvd'[u][k] = h /\ h.kind \in Observed
  BY <1>2, <1>3, <1>5, Appended
<1>13. \A k \in DOMAIN rcvd[u] : k \in 1 .. Len(rcvd[u]) /\ rcvd'[u][k] = rcvd[u][k]
  BY <1>2, <1>3, <1>5, Appended
<1>14. ASSUME NEW v \in Users, NEW k \in DOMAIN rcvd'[v]
       PROVE  chat'[v].pc # "none" /\ ~IsLine(rcvd'[v][k], v)
  <2>1. chat[u].pc # "none"
    BY <1>1 DEF SeatedInv, Settled
  <2> QED
    BY <1>4, <1>5, <1>10, <1>12, <2>1 DEF SeatedInv, LinesFlow
<1>15. LinesFlow'
  BY <1>4, <1>9, <1>11, <1>14 DEF LinesFlow
<1>16. ASSUME NEW v \in Users, NEW k \in DOMAIN rcvd'[u], IsLine(rcvd'[u][k], v)
       PROVE  /\ \A j \in 1 .. k - 1 : IsLine(rcvd'[u][j], v) => rcvd'[u][j].n < rcvd'[u][k].n
              /\ \A n \in 1 .. rcvd'[u][k].n - 1 :
                   \E j \in 1 .. k - 1 : IsLine(rcvd'[u][j], v) /\ rcvd'[u][j].n = n
  <2>1. DOMAIN rcvd[u] = 1 .. Len(rcvd[u]) /\ Len(rcvd[u]) \in Nat
    BY <1>2, <1>3, Appended
  <2>2. CASE k \in DOMAIN rcvd[u]
    <3>1. \A j \in 1 .. k : j \in DOMAIN rcvd[u] /\ rcvd'[u][j] = rcvd[u][j]
      BY <1>13, <2>1, <2>2
    <3>2. rcvd'[u][k] = rcvd[u][k] /\ IsLine(rcvd[u][k], v) /\ k \in Int
      BY <1>13, <1>16, <2>1, <2>2
    <3>3. /\ \A j \in 1 .. k - 1 : IsLine(rcvd[u][j], v) => rcvd[u][j].n < rcvd[u][k].n
          /\ \A n \in 1 .. rcvd[u][k].n - 1 :
               \E j \in 1 .. k - 1 : IsLine(rcvd[u][j], v) /\ rcvd[u][j].n = n
      BY <2>2, <3>2 DEF SeatedInv, LinesInOrder
    <3>4. \A j \in 1 .. k - 1 : rcvd'[u][j] = rcvd[u][j]
      BY <3>1, <3>2
    <3> QED
      BY <3>2, <3>3, <3>4
  <2>3. CASE k = Len(rcvd[u]) + 1 /\ rcvd'[u][k] = h /\ h.kind \in Observed
    <3>1. IsLine(h, v) /\ v # u /\ "chat" \in Observed
      BY <1>10, <1>16, <2>3 DEF IsLine
    <3>2. LinesOf(v, s)
      BY <1>1, <3>1 DEF SeatedInv, LinesFlow
    <3>3. Flow(rcvd[u], message_q[s], Pushed(chat[v], s), v)
      BY <1>1, <3>2 DEF LinesOf
    <3>4. chat[v].lines \in Nat /\ AtWork(chat[v], v)
      BY DEF SeatedInv, TypeOK, ThreadTypes, ChatStates
    <3>5. Pushed(chat[v], s) \in Nat
      BY <3>4 DEF Pushed, AtWork
    <3>6. /\ \A j \in DOMAIN rcvd[u] : IsLine(rcvd[u][j], v) => rcvd[u][j].n < h.n
          /\ \A n \in 1 .. h.n - 1 :
               \E j \in DOMAIN rcvd[u] : IsLine(rcvd[u][j], v) /\ rcvd[u][j].n = n
      BY <1>2, <3>1, <3>3, <3>5, FlowHead DEF h
    <3>7. DOMAIN rcvd[u] = 1 .. k - 1
      BY <2>1, <2>3
    <3> QED
      BY <1>13, <2>3, <3>6, <3>7
  <2> QED
    BY <1>12, <2>2, <2>3
<1>17. LinesInOrder'
  <2> SUFFICES ASSUME NEW v \in Users, NEW d \in Users, NEW k \in DOMAIN rcvd'[d],
                      IsLine(rcvd'[d][k], v)
               PROVE  /\ \A j \in 1 .. k - 1 :
                           IsLine(rcvd'[d][j], v) => rcvd'[d][j].n < rcvd'[d][k].n
                      /\ \A n \in 1 .. rcvd'[d][k].n - 1 :
                           \E j \in 1 .. k - 1 : IsLine(rcvd'[d][j], v) /\ rcvd'[d][j].n = n
    BY DEF LinesInOrder, IsLine
  <2>1. CASE d = u
    BY <1>16, <2>1
  <2>2. CASE d # u
    <3>1. rcvd'[d] = rcvd[d]
      BY <1>5, <2>2
    <3> QED
      BY <3>1 DEF SeatedInv, LinesInOrder
  <2> QED
    BY <2>1, <2>2
<1> QED
  BY <1>6, <1>7, <1>8, <1>15, <1>17 DEF SeatedInv

(***************************************************************************)
(* The theorems.                                                           *)
(***************************************************************************)
LEMMA SeatedKept ==
    ASSUME Leavers = {}
    PROVE  SeatedSpec => [](TypeOK /\ SeatedInv)
<1>1. TypeOK /\ SeatedInv /\ [Next]_vars => (TypeOK /\ SeatedInv)'
  <2> SUFFICES ASSUME TypeOK, SeatedInv, [Next]_vars PROVE (TypeOK /\ SeatedInv)'
    OBVIOUS
  <2>1. TypeOK'
    BY ThreadStep, MainStep, DataStep DEF TypeOK
  <2>2. ThreadTypes'
    BY <2>1 DEF TypeOK
  <2>3. CASE Outside
    BY <2>1, <2>3, OutsideKeeps
  <2>4. ASSUME NEW u \in Users,
               Alone(u) \/ LockQueue(u) \/ Push(u)
               \/ LockOwn(u) \/ FindEmpty(u) \/ Wait(u) \/ Wake(u)
                               \/ Unlock(u) \/ Send(u)
        PROVE  SeatedInv'
    BY <2>2, <2>4, AloneKeeps, LockQueueKeeps, PushKeeps, FindEmptyKeeps, SenderKeeps,
       SendKeeps
  <2> QED
    BY <2>1, <2>3, <2>4, SeatedSteps
<1> QED
  BY <1>1, SeatedTypeInit, SeatedStart, PTL DEF SeatedSpec

\* While nobody comes to a slot or leaves one, message_q[i] is used by one thread
\* at a time, so that no push or pop is raced.
THEOREM QueuesExclusive ==
    ASSUME Leavers = {}
    PROVE  SeatedSpec => []QueueExclusive
<1>1. TypeOK /\ SeatedInv => QueueExclusive
  <2> SUFFICES ASSUME TypeOK, SeatedInv, NEW s \in Slots PROVE Exclusive(s)
    BY DEF QueueExclusive
  <2>1. PushersOf(s) = {} \/ \E u : PushersOf(s) = {u}
    BY DEF SeatedInv, LockHeld
  <2>2. SendersOf(s) = {} \/ \E u : SendersOf(s) = {u}
    BY OneSender DEF SeatedInv
  <2>3. PushersOf(s) = {} \/ SendersOf(s) = {}
    BY DEF SeatedInv, LockHeld
  <2>4. \A u : Cardinality({u}) = 1
    BY FS_Singleton
  <2>5. Cardinality({}) = 0
    BY FS_EmptySet
  <2>6. /\ Cardinality(PushersOf(s)) = 0 \/ Cardinality(PushersOf(s)) = 1
        /\ Cardinality(SendersOf(s)) = 0 \/ Cardinality(SendersOf(s)) = 1
        /\ Cardinality(PushersOf(s)) = 0 \/ Cardinality(SendersOf(s)) = 0
    BY <2>1, <2>2, <2>3, <2>4, <2>5
  <2> QED
    BY <2>6 DEF Exclusive
<1> QED
  BY <1>1, SeatedKept, PTL

\* A send thread never sleeps while its queue has something to send.
THEOREM NoWakeupLost ==
    ASSUME Leavers = {}
    PROVE  SeatedSpec => []NoLostWakeup
<1>1. SeatedInv => NoLostWakeup
  BY DEF SeatedInv
<1> QED
  BY <1>1, SeatedKept, PTL

\* Every user gets the lines of every other one once, in order, and none is left
\* out.
THEOREM LinesArriveInOrder ==
    ASSUME Leavers = {}
    PROVE  SeatedSpec => []LinesInOrder
<1>1. SeatedInv => LinesInOrder
  BY DEF SeatedInv
<1> QED
  BY <1>1, SeatedKept, PTL
=============================================================================
