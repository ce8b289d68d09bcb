--------------------------- MODULE ChatServerProofs ---------------------------
(***************************************************************************)
(* Type correctness of ChatServer, and that slots, sockets and the online  *)
(* counter agree in every reachable state, for any number of slots and     *)
(* users.                                                                  *)
(***************************************************************************)
EXTENDS ChatServer, FiniteSetTheorems, SequenceTheorems, TLAPS

(***************************************************************************)
(* Lemmas about the state of a chat thread.                                *)
(***************************************************************************)
\* Starting a stage yields a thread state, on the same slot.
LEMMA StartType ==
    ASSUME TypeOK, NEW u \in Users, NEW c \in ChatStates, NEW stage \in Kinds
    PROVE  /\ Start(c, u, stage) \in ChatStates
           /\ Start(c, u, stage).slot = c.slot
           /\ Start(c, u, stage).stage = stage
           /\ Start(c, u, stage).pc \in {"lock", "peer"}
           /\ Start(c, u, stage).pc = "lock" => Start(c, u, stage).to \in Slots
<1>1. name[c.slot] \in Users \union {NoUser}
  BY DEF TypeOK, DataTypes, ChatStates
<1>2. /\ c.slot \in Slots
      /\ Slots \subseteq 0 .. MaxClients
      /\ 0 \in 0 .. MaxClients
  BY ConstAssumption DEF ChatStates, Slots
<1>3. [kind |-> stage, from |-> name[c.slot], by |-> u, n |-> 0] \in Messages
  BY <1>1 DEF Messages
<1> QED
  BY <1>2, <1>3 DEF Start, ChatStates, ChatPcs, Kinds, Single

\* Completing a stage yields a thread state, on the same slot, and only the
\* goodbye leads out of service.
LEMMA CompletedType ==
    ASSUME TypeOK, NEW u \in Users, NEW c \in ChatStates
    PROVE  /\ Completed(c, u) \in ChatStates
           /\ Completed(c, u).slot = c.slot
           /\ Completed(c, u).stage = "left" <=> c.stage = "left"
           /\ Completed(c, u).pc # "none"
           /\ Completed(c, u).pc \in {"spawn", "recv", "text"} => c.stage # "left"
           /\ Completed(c, u).pc \in {"lock", "push"} => Completed(c, u).to \in Slots
<1>1. \A stage \in Kinds :
        /\ Start(c, u, stage) \in ChatStates
        /\ Start(c, u, stage).slot = c.slot
        /\ Start(c, u, stage).stage = stage
        /\ Start(c, u, stage).pc \in {"lock", "peer"}
        /\ Start(c, u, stage).pc = "lock" => Start(c, u, stage).to \in Slots
  BY StartType
<1>2. c.stage \in Kinds
  BY DEF ChatStates
<1>3. CASE c.stage = "hello"
  BY <1>1, <1>3 DEF Completed, Kinds
<1>4. CASE c.stage = "nick"
  BY <1>1, <1>4 DEF Completed, Kinds
<1>5. CASE c.stage = "landed"
  <2>1. Completed(c, u) = [c EXCEPT !.pc = "spawn"]
    BY <1>5 DEF Completed
  <2> QED
    BY <1>5, <2>1 DEF ChatStates, ChatPcs
<1>6. CASE c.stage \in {"who", "error", "renamed"}
  <2>1. Completed(c, u) = [c EXCEPT !.pc = "recv"]
    BY <1>6 DEF Completed
  <2> QED
    BY <1>6, <2>1 DEF ChatStates, ChatPcs
<1>7. CASE c.stage = "chat"
  <2>1. Completed(c, u) = [c EXCEPT !.pc = "text"]
    BY <1>7 DEF Completed
  <2> QED
    BY <1>7, <2>1 DEF ChatStates, ChatPcs
<1>8. CASE c.stage = "left"
  <2>1. Completed(c, u) = [c EXCEPT !.pc = "mdestroy"]
    BY <1>8 DEF Completed
  <2> QED
    BY <1>8, <2>1 DEF ChatStates, ChatPcs
<1> QED
  BY <1>2, <1>3, <1>4, <1>5, <1>6, <1>7, <1>8 DEF Kinds

\* The operations on a mutex yield a mutex.
LEMMA MutexType ==
    ASSUME NEW m \in MutexTypes
    PROVE  /\ Locked(m) \in MutexTypes
           /\ Unlocked(m) \in MutexTypes
           /\ Released(m) \in MutexTypes
           /\ Reacquired(m) \in MutexTypes
           /\ Destroyed(m) \in MutexTypes
<1>1. Locked(m) \in MutexTypes
  BY DEF Locked, MutexTypes
<1>2. Unlocked(m) \in MutexTypes
  BY DEF Unlocked, MutexTypes
<1>3. Released(m) \in MutexTypes
  BY DEF Released, MutexTypes
<1>4. Reacquired(m) \in MutexTypes
  BY DEF Reacquired, MutexTypes
<1>5. Destroyed(m) \in MutexTypes
  BY DEF Destroyed, MutexTypes
<1> QED
  BY <1>1, <1>2, <1>3, <1>4, <1>5

\* Thread u moving to a thread state keeps ThreadTypes.
LEMMA MoveType ==
    ASSUME ThreadTypes, NEW u \in Users, NEW c \in ChatStates,
           chat' = [chat EXCEPT ![u] = c],
           c.pc \in {"lock", "push"} => c.to \in Slots
    PROVE  ThreadTypes'
BY DEF ThreadTypes

\* A thread that changes its pc to one that needs no slot keeps ThreadTypes.
LEMMA PcType ==
    ASSUME ThreadTypes, NEW u \in Users, NEW pc \in ChatPcs \ {"lock", "push"},
           chat' = [chat EXCEPT ![u] = [chat[u] EXCEPT !.pc = pc]]
    PROVE  ThreadTypes'
<1> DEFINE c == [chat[u] EXCEPT !.pc = pc]
<1>1. c \in ChatStates /\ c.pc = pc
  BY DEF ThreadTypes, ChatStates
<1> QED
  BY <1>1, MoveType

\* A broadcast loop may move on while it is not at its end.
LEMMA NextTarget ==
    ASSUME NEW c \in ChatStates, c.to # MaxClients
    PROVE  [c EXCEPT !.to = @ + 1] \in ChatStates
<1> DEFINE k == c.to + 1
<1>1. k \in 0 .. MaxClients
  BY ConstAssumption DEF ChatStates
<1> HIDE DEF k
<1>2. [c EXCEPT !.to = k] \in ChatStates
  BY <1>1 DEF ChatStates
<1> QED
  BY <1>2 DEF k

\* Every step of a chat thread, and main's creation of one, keeps ThreadTypes.
LEMMA ThreadStep == TypeOK /\ [Next]_vars => ThreadTypes'
<1> SUFFICES ASSUME TypeOK, [Next]_vars PROVE ThreadTypes'
  OBVIOUS
<1> USE DEF TypeOK
<1>1. ASSUME UNCHANGED chat PROVE ThreadTypes'
  BY <1>1 DEF ThreadTypes
<1>2. CASE CreateChat
  <2> DEFINE c == chat[main.sock]
             m == [kind |-> "hello", from |-> name[main.i], by |-> main.sock, n |-> 0]
             d == [c EXCEPT !.pc = "lock", !.slot = main.i, !.to = main.i, !.stage = "hello",
                            !.msg = m]
  <2>1. chat' = [chat EXCEPT ![main.sock] = d] /\ main.i \in Slots
    BY <1>2 DEF CreateChat, MainTypes
  <2>2. m \in Messages
    BY <2>1 DEF Messages, Kinds, DataTypes, MainTypes
  <2>3. ASSUME main.sock \in Users PROVE ThreadTypes'
    <3>1. d \in ChatStates
      <4>1. main.i \in 0 .. MaxClients /\ c \in ChatStates
        BY <2>3 DEF MainTypes, ThreadTypes
      <4> HIDE DEF m, c
      <4> QED
        BY <2>1, <2>2, <4>1 DEF ChatStates, ChatPcs, Kinds
    <3>2. d.to \in Slots
      BY <2>1, <2>3 DEF ThreadTypes, ChatStates
    <3> QED
      BY <2>1, <2>3, <3>1, <3>2, MoveType
  <2>4. ASSUME main.sock \notin Users PROVE chat' = chat
    BY <2>1, <2>4 DEF ThreadTypes
  <2> QED
    BY <2>3, <2>4, <1>1
<1> SUFFICES ASSUME NEW u \in Users, ChatNext(u) PROVE ThreadTypes'
  BY <1>1, <1>2 DEF Next, vars, MainNext, SendNext, ClientNext, Accept, AcceptFails, Scan, Fill,
                    FillSocket, InitLocks, LockOwn, FindEmpty, Wait, WaitFails, Wake, Send,
                    Unlock, SendFails, CancelledInSend, CancelledInWait, Close, Stall, ReadOn, Crash
<1> DEFINE c == chat[u]
<1>3. c \in ChatStates
  BY DEF ThreadTypes
<1>4. CASE Peer(u)
  <2>1. CASE c.to = MaxClients
    BY <1>3, <1>4, <2>1, CompletedType, MoveType DEF Peer
  <2>2. CASE c.to # MaxClients /\ valid[c.to] /\ socket[c.to] # socket[c.slot]
    <3>1. [c EXCEPT !.pc = "lock"] \in ChatStates
      BY <1>3 DEF ChatStates, ChatPcs
    <3>2. [c EXCEPT !.pc = "lock"].to \in Slots
      BY <1>3, <2>2, ConstAssumption DEF ChatStates, Slots
    <3> QED
      BY <1>4, <2>2, <3>1, <3>2, MoveType DEF Peer
  <2>3. CASE c.to # MaxClients /\ ~(valid[c.to] /\ socket[c.to] # socket[c.slot])
    <3>1. [c EXCEPT !.to = @ + 1] \in ChatStates
      BY <1>3, <2>3, NextTarget
    <3>2. [c EXCEPT !.to = @ + 1].pc = "peer"
      BY <1>3, <1>4 DEF Peer, ChatStates
    <3> QED
      BY <1>4, <2>3, <3>1, <3>2, MoveType DEF Peer
  <2> QED
    BY <2>1, <2>2, <2>3
<1>5. CASE LockQueue(u)
  <2>1. [c EXCEPT !.pc = "push"] \in ChatStates /\ [c EXCEPT !.pc = "push"].to = c.to
    BY <1>3 DEF ChatStates, ChatPcs
  <2>2. c.to \in Slots /\ chat' = [chat EXCEPT ![u] = [c EXCEPT !.pc = "push"]]
    BY <1>5 DEF LockQueue, ThreadTypes
  <2> QED
    BY <2>1, <2>2, MoveType
<1>6. CASE Push(u)
  <2>1. CASE c.stage \in Single
    BY <1>3, <1>6, <2>1, CompletedType, MoveType DEF Push
  <2>2. CASE c.stage \notin Single
    <3>1. c.to \in Slots
      BY <1>6 DEF Push, ThreadTypes
    <3>2. [c EXCEPT !.pc = "peer", !.to = @ + 1] \in ChatStates
      <4> DEFINE k == c.to + 1
      <4>1. k \in 0 .. MaxClients
        BY <3>1, ConstAssumption DEF Slots
      <4> HIDE DEF k
      <4>2. [c EXCEPT !.pc = "peer", !.to = k] \in ChatStates
        BY <1>3, <4>1 DEF ChatStates, ChatPcs
      <4> QED
        BY <4>2 DEF k
    <3>3. [c EXCEPT !.pc = "peer", !.to = @ + 1].pc = "peer"
      BY <1>3 DEF ChatStates
    <3> QED
      BY <1>6, <2>2, <3>2, <3>3, MoveType DEF Push
  <2> QED
    BY <2>1, <2>2
<1>7. CASE SpawnSender(u)
  BY <1>7, PcType DEF SpawnSender, ChatPcs
<1>8. ASSUME NEW b \in Buffers, Receive(u, b) PROVE ThreadTypes'
  <2> DEFINE d == [c EXCEPT !.reads = @ + 1]
             e == [d EXCEPT !.pc = "text", !.rest = b]
  <2>1. d \in ChatStates
    BY <1>3 DEF ChatStates
  <2>2. e \in ChatStates /\ e.pc = "text"
    <3> HIDE DEF d
    <3> QED
      BY <2>1, ConstAssumption DEF ChatStates, ChatPcs
  <2>3. chat' = [chat EXCEPT ![u] =
                   CASE Head(b) = "name" -> Start(d, u, "nick")
                     [] Head(b) = "who"  -> Start(d, u, "who")
                     [] Head(b) = "bad"  -> Start(d, u, "error")
                     [] OTHER            -> e]
    BY <1>8 DEF Receive
  <2>4. PICK f \in {Start(d, u, "nick"), Start(d, u, "who"), Start(d, u, "error"), e} :
          chat' = [chat EXCEPT ![u] = f]
    <3> HIDE DEF d, e
    <3> QED
      BY <2>3
  <2>5. f \in ChatStates /\ (f.pc \in {"lock", "push"} => f.to \in Slots)
    <3> HIDE DEF d, e
    <3>1. {"nick", "who", "error"} \subseteq Kinds
      BY DEF Kinds
    <3>2. \A stage \in Kinds :
            /\ Start(d, u, stage) \in ChatStates
            /\ Start(d, u, stage).pc \in {"lock", "peer"}
            /\ Start(d, u, stage).pc = "lock" => Start(d, u, stage).to \in Slots
      BY <2>1, StartType
    <3>3. ASSUME NEW stage \in {"nick", "who", "error"}, f = Start(d, u, stage)
          PROVE  f \in ChatStates /\ (f.pc \in {"lock", "push"} => f.to \in Slots)
      BY <3>1, <3>2, <3>3
    <3>4. ASSUME f = e
          PROVE  f \in ChatStates /\ (f.pc \in {"lock", "push"} => f.to \in Slots)
      BY <2>2, <3>4
    <3> QED
      BY <2>4, <3>3, <3>4
  <2> QED
    BY <2>4, <2>5, MoveType
<1>9. CASE Text(u)
  <2> DEFINE begun == IF c.stamp = NoUser THEN name[c.slot] ELSE c.stamp
             m == [kind |-> "chat", from |-> begun, by |-> u, n |-> c.lines + 1]
             part == [c EXCEPT !.rest = Tail(@), !.stamp = begun]
             line == [c EXCEPT !.rest = Tail(@), !.stamp = NoUser, !.lines = @ + 1,
                               !.pc = "peer", !.stage = "chat", !.to = 0, !.msg = m]
  <2>1. begun \in Users \union {NoUser}
    BY <1>3 DEF DataTypes, ChatStates
  <2>2. CASE c.rest = <<>>
    BY <1>9, <2>2, PcType DEF Text, ChatPcs
  <2>3. CASE c.rest # <<>>
    <3>1. c.rest \in Seq(Pieces)
      BY <1>3 DEF ChatStates
    <3>2. Tail(c.rest) \in Seq(Pieces)
      BY <2>3, <3>1, HeadTailProperties
    <3>3. part \in ChatStates /\ part.pc = "text"
      <4> HIDE DEF begun
      <4> QED
        BY <1>3, <1>9, <2>1, <3>2 DEF Text, ChatStates
    <3>4. m \in Messages
      <4> HIDE DEF begun
      <4> QED
        BY <1>3, <2>1 DEF Messages, Kinds, ChatStates
    <3>5. line \in ChatStates /\ line.pc = "peer"
      <4> DEFINE r == Tail(c.rest)
                 k == c.lines + 1
      <4>1. r \in Seq(Pieces) /\ k \in Nat /\ 0 \in 0 .. MaxClients
        BY <1>3, <3>2, ConstAssumption DEF ChatStates
      <4> HIDE DEF begun, m, r, k
      <4>2. LET f == [c EXCEPT !.rest = r, !.stamp = NoUser, !.lines = k, !.pc = "peer",
                               !.stage = "chat", !.to = 0, !.msg = m]
            IN  f \in ChatStates /\ f.pc = "peer"
        BY <1>3, <3>4, <4>1 DEF ChatStates, ChatPcs, Kinds
      <4> QED
        BY <4>2 DEF r, k
    <3>6. PICK f \in {part, line} : chat' = [chat EXCEPT ![u] = f]
      BY <1>9, <2>3 DEF Text
    <3>7. f \in ChatStates /\ f.pc \notin {"lock", "push"}
      <4> HIDE DEF part, line
      <4> QED
        BY <3>3, <3>5, <3>6
    <3> QED
      BY <3>6, <3>7, MoveType
  <2> QED
    BY <2>2, <2>3
<1>10. CASE Leave(u)
  <2> DEFINE d == [c EXCEPT !.pc = "count", !.stage = "left"]
  <2>1. d \in ChatStates /\ d.pc = "count"
    BY <1>3 DEF ChatStates, ChatPcs, Kinds
  <2>2. chat' = [chat EXCEPT ![u] = d]
    BY <1>10 DEF Leave
  <2> QED
    BY <2>1, <2>2, MoveType
<1>11. CASE Bye(u)
  BY <1>3, <1>11, StartType, MoveType DEF Bye, Kinds
<1>12. CASE DestroyMutex(u)
  BY <1>12, PcType DEF DestroyMutex, ChatPcs
<1>13. CASE DestroyCond(u)
  BY <1>13, PcType DEF DestroyCond, ChatPcs
<1>14. CASE CancelSender(u)
  BY <1>14, PcType DEF CancelSender, ChatPcs
<1>15. CASE CountOut(u)
  BY <1>15, PcType DEF CountOut, ChatPcs
<1> QED
  BY <1>4, <1>5, <1>6, <1>7, <1>8, <1>9, <1>10, <1>11, <1>12, <1>13, <1>14, <1>15 DEF ChatNext

\* The initial state is typed.
LEMMA TypeInit == Init => TypeOK
<1> SUFFICES ASSUME Init PROVE TypeOK
  OBVIOUS
<1>1. 0 \in Slots /\ 0 \in 0 .. MaxClients
  BY ConstAssumption DEF Slots
<1>2. NoThread \in ChatStates
  BY <1>1 DEF NoThread, ChatStates, ChatPcs, Kinds, Messages
<1>3. ThreadTypes
  BY <1>2 DEF Init, ThreadTypes, NoThread
<1>4. MainTypes
  BY <1>1 DEF Init, MainTypes
<1>5. NewMutex \in MutexTypes
  BY DEF NewMutex, MutexTypes
<1>6. DataTypes
  <2>1. mutex \in [Slots -> MutexTypes] /\ sender \in [Users -> SenderPcs]
    BY <1>5 DEF Init, SenderPcs
  <2>2. message_q \in [Slots -> Seq(Messages)] /\ rcvd \in [Users -> Seq(Messages)]
    BY EmptySeq DEF Init
  <2>3. valid \in [Slots -> BOOLEAN] /\ num_mutex \in BOOLEAN /\ crashed \in BOOLEAN
    BY DEF Init
  <2>4. /\ socket \in [Slots -> Users \union {NoUser}]
        /\ name \in [Slots -> Users \union {NoUser}]
        /\ send_thread \in [Slots -> Users \union {NoUser}]
        /\ peer \in [Users -> {"new", "up", "closed"}]
    BY DEF Init
  <2>5. /\ current_client_num \in Int /\ stale \subseteq Users /\ full \subseteq Users
        /\ cancelled \subseteq Users \union {NoUser}
    BY DEF Init
  <2> QED
    BY <2>1, <2>2, <2>3, <2>4, <2>5 DEF DataTypes
<1> QED
  BY <1>3, <1>4, <1>6 DEF TypeOK

\* Every step of the main thread keeps MainTypes; the others leave main alone.
LEMMA MainStep == TypeOK /\ [Next]_vars => MainTypes'
<1> SUFFICES ASSUME TypeOK, [Next]_vars PROVE MainTypes'
  OBVIOUS
<1> USE DEF TypeOK, MainTypes
<1>1. CASE UNCHANGED main
  BY <1>1
<1>2. ASSUME NEW u \in Users, Accept(u) PROVE MainTypes'
  BY <1>2, ConstAssumption DEF Accept
<1>3. CASE Scan
  BY <1>3, ConstAssumption DEF Scan, Slots
<1>4. CASE Fill
  BY <1>4 DEF Fill
<1>5. CASE InitLocks
  BY <1>5 DEF InitLocks
<1>6. CASE CreateChat
  BY <1>6 DEF CreateChat
<1>7. CASE FillSocket
  BY <1>7 DEF FillSocket
<1>8. ASSUME NEW u \in Users, ChatNext(u) PROVE UNCHANGED main
  BY <1>8 DEF ChatNext, Peer, LockQueue, Push, SpawnSender, Receive, Text, Leave, CountOut, Bye,
              DestroyMutex, DestroyCond, CancelSender
<1>9. ASSUME NEW u \in Users, SendNext(u) PROVE UNCHANGED main
  BY <1>9 DEF SendNext, LockOwn, FindEmpty, Wait, WaitFails, Wake, Send, Unlock, SendFails,
              CancelledInSend, CancelledInWait
<1>10. ASSUME NEW u \in Users, ClientNext(u) PROVE UNCHANGED main
  BY <1>10 DEF ClientNext, Close, Stall, ReadOn
<1>11. ASSUME AcceptFails \/ Crash PROVE UNCHANGED main
  BY <1>11 DEF AcceptFails, Crash
<1>12. UNCHANGED vars => UNCHANGED main
  BY DEF vars
<1> QED
  BY <1>1, <1>2, <1>3, <1>4, <1>5, <1>6, <1>7, <1>8, <1>9, <1>10, <1>11, <1>12
  DEF Next, MainNext

\* Replacing one mutex by a mutex keeps the array typed.
LEMMA MutexStep ==
    ASSUME DataTypes, NEW s \in Slots, NEW m \in MutexTypes, mutex' = [mutex EXCEPT ![s] = m]
    PROVE  mutex' \in [Slots -> MutexTypes]
BY DEF DataTypes

\* Every step keeps DataTypes.
LEMMA DataStep == TypeOK /\ [Next]_vars => DataTypes'
<1> SUFFICES ASSUME TypeOK, [Next]_vars PROVE DataTypes'
  OBVIOUS
<1> USE DEF slotVars, numVars, threadVars, peerVars
<1>1. DataTypes /\ MainTypes /\ ThreadTypes
  BY DEF TypeOK
<1>2. \A u \in Users : chat[u] \in ChatStates /\ chat[u].slot \in Slots
  BY <1>1 DEF ThreadTypes, ChatStates
<1>3. \A s \in Slots : mutex[s] \in MutexTypes
  BY <1>1 DEF DataTypes
<1>4. CASE UNCHANGED vars
  BY <1>1, <1>4 DEF vars, DataTypes
<1>5. ASSUME NEW u \in Users, Accept(u) PROVE DataTypes'
  BY <1>1, <1>5 DEF Accept, DataTypes
<1>6. CASE Scan
  BY <1>1, <1>6 DEF Scan, DataTypes
<1>7. CASE Fill
  BY <1>1, <1>7 DEF Fill, DataTypes, MainTypes
<1>8. CASE InitLocks
  <2>1. NewMutex \in MutexTypes
    BY DEF NewMutex, MutexTypes
  <2>2. mutex' \in [Slots -> MutexTypes]
    BY <1>1, <1>8, <2>1 DEF InitLocks, DataTypes
  <2> QED
    <3>1. current_client_num' \in Int
      BY <1>1, <1>8 DEF InitLocks, DataTypes
    <3>2. stale' \subseteq Users
      BY <1>1, <1>8 DEF InitLocks, DataTypes, Sleepers
    <3> QED
      BY <1>1, <1>8, <2>2, <3>1, <3>2 DEF InitLocks, DataTypes
<1>9. CASE CreateChat
  BY <1>1, <1>9 DEF CreateChat, DataTypes
<1>10. ASSUME NEW u \in Users, Peer(u) PROVE DataTypes'
  BY <1>1, <1>10 DEF Peer, DataTypes
<1>11. ASSUME NEW u \in Users, Text(u) PROVE DataTypes'
  BY <1>1, <1>11 DEF Text, DataTypes
<1>12. ASSUME NEW u \in Users, Bye(u) PROVE DataTypes'
  BY <1>1, <1>12 DEF Bye, DataTypes
<1>13. ASSUME NEW u \in Users, DestroyCond(u) PROVE DataTypes'
  BY <1>1, <1>13 DEF DestroyCond, DataTypes
<1>14. ASSUME NEW u \in Users, NEW b \in Buffers, Receive(u, b) PROVE DataTypes'
  BY <1>1, <1>14 DEF Receive, DataTypes
<1>15. ASSUME NEW u \in Users, LockQueue(u) PROVE DataTypes'
  <2>1. chat[u].to \in Slots
    BY <1>1, <1>15 DEF LockQueue, ThreadTypes
  <2>2. mutex' \in [Slots -> MutexTypes]
    BY <1>1, <1>3, <1>15, <2>1, MutexType, MutexStep DEF LockQueue
  <2> QED
    BY <1>1, <1>15, <2>2 DEF LockQueue, DataTypes
<1>16. ASSUME NEW u \in Users, Push(u) PROVE DataTypes'
  <2> DEFINE s == chat[u].to
  <2>1. s \in Slots /\ chat[u].msg \in Messages
    BY <1>1, <1>2, <1>16 DEF Push, ThreadTypes, ChatStates
  <2>2. mutex' \in [Slots -> MutexTypes]
    BY <1>1, <1>3, <1>16, <2>1, MutexType, MutexStep DEF Push
  <2>3. message_q' \in [Slots -> Seq(Messages)]
    <3>1. Append(message_q[s], chat[u].msg) \in Seq(Messages)
      BY <1>1, <2>1, AppendProperties DEF DataTypes
    <3> QED
      BY <1>1, <1>16, <3>1 DEF Push, DataTypes
  <2>4. name' \in [Slots -> Users \union {NoUser}]
    BY <1>1, <1>16 DEF Push, DataTypes
  <2>5. sender' \in [Users -> SenderPcs]
    BY <1>1, <1>16 DEF Push, Signal, DataTypes, SenderPcs
  <2> QED
    BY <1>1, <1>16, <2>2, <2>3, <2>4, <2>5 DEF Push, DataTypes
<1>17. ASSUME NEW u \in Users, SpawnSender(u) PROVE DataTypes'
  BY <1>1, <1>17 DEF SpawnSender, DataTypes, SenderPcs
<1>18. ASSUME NEW u \in Users, Leave(u) PROVE DataTypes'
  BY <1>1, <1>18 DEF Leave, DataTypes
<1>19. ASSUME NEW u \in Users, DestroyMutex(u) PROVE DataTypes'
  <2>1. mutex' \in [Slots -> MutexTypes]
    BY <1>1, <1>2, <1>3, <1>19, MutexType, MutexStep DEF DestroyMutex
  <2> QED
    BY <1>1, <1>19, <2>1 DEF DestroyMutex, DataTypes
<1>20. ASSUME NEW u \in Users, CancelSender(u) PROVE DataTypes'
  BY <1>1, <1>2, <1>20 DEF CancelSender, DataTypes
<1>21. ASSUME NEW u \in Users, LockOwn(u) PROVE DataTypes'
  <2>1. mutex' \in [Slots -> MutexTypes]
    BY <1>1, <1>2, <1>3, <1>21, MutexType, MutexStep DEF LockOwn
  <2> QED
    BY <1>1, <1>21, <2>1 DEF LockOwn, DataTypes, SenderPcs
<1>22. ASSUME NEW u \in Users, Wait(u) PROVE DataTypes'
  <2>1. mutex' \in [Slots -> MutexTypes]
    BY <1>1, <1>2, <1>3, <1>22, MutexType, MutexStep DEF Wait
  <2> QED
    BY <1>1, <1>22, <2>1 DEF Wait, DataTypes, SenderPcs
<1>23. ASSUME NEW u \in Users, Wake(u) PROVE DataTypes'
  <2>1. mutex' \in [Slots -> MutexTypes]
    BY <1>1, <1>2, <1>3, <1>23, MutexType, MutexStep DEF Wake
  <2> QED
    BY <1>1, <1>23, <2>1 DEF Wake, DataTypes, SenderPcs
<1>24. ASSUME NEW u \in Users, Unlock(u) PROVE DataTypes'
  <2>1. mutex' \in [Slots -> MutexTypes]
    BY <1>1, <1>2, <1>3, <1>24, MutexType, MutexStep DEF Unlock
  <2> QED
    BY <1>1, <1>24, <2>1 DEF Unlock, DataTypes, SenderPcs
<1>25. ASSUME NEW u \in Users, CancelledInWait(u) PROVE DataTypes'
  <2>1. mutex' \in [Slots -> MutexTypes]
    BY <1>1, <1>2, <1>3, <1>25, MutexType, MutexStep DEF CancelledInWait
  <2> QED
    BY <1>1, <1>25, <2>1 DEF CancelledInWait, DataTypes, SenderPcs
<1>26. ASSUME NEW u \in Users, Send(u) PROVE DataTypes'
  <2> DEFINE s == chat[u].slot
  <2>1. message_q[s] \in Seq(Messages) /\ message_q[s] # <<>>
    BY <1>1, <1>2, <1>26 DEF Send, DataTypes
  <2>2. Head(message_q[s]) \in Messages /\ Tail(message_q[s]) \in Seq(Messages)
    BY <2>1, HeadTailProperties
  <2>3. message_q' \in [Slots -> Seq(Messages)]
    BY <1>1, <1>26, <2>2 DEF Send, DataTypes
  <2>4. rcvd' \in [Users -> Seq(Messages)]
    <3>1. \A d \in Users : Append(rcvd[d], Head(message_q[s])) \in Seq(Messages)
      BY <1>1, <2>2, AppendProperties DEF DataTypes
    <3> QED
      BY <1>1, <1>26, <3>1 DEF Send, DataTypes
  <2> QED
    BY <1>1, <1>26, <2>3, <2>4 DEF Send, DataTypes, SenderPcs
<1>27. ASSUME NEW u \in Users, SendFails(u) PROVE DataTypes'
  BY <1>1, <1>27 DEF SendFails, DataTypes, SenderPcs
<1>28. ASSUME NEW u \in Users, CancelledInSend(u) PROVE DataTypes'
  BY <1>1, <1>28 DEF CancelledInSend, DataTypes, SenderPcs
<1>29. ASSUME NEW u \in Users, Close(u) PROVE DataTypes'
  BY <1>1, <1>29 DEF Close, DataTypes
<1>30. CASE Crash
  BY <1>1, <1>30 DEF Crash, DataTypes
<1>31. ASSUME NEW u \in Users, FindEmpty(u) \/ WaitFails(u) PROVE DataTypes'
  BY <1>1, <1>31 DEF FindEmpty, WaitFails, DataTypes, SenderPcs
<1>32. CASE AcceptFails
  BY <1>1, <1>32 DEF AcceptFails, DataTypes
<1>33. CASE FillSocket
  <2>1. socket' = [socket EXCEPT ![main.i] = main.sock] /\ main.sock \in Users \union {NoUser}
    BY <1>1, <1>33 DEF FillSocket, MainTypes
  <2>2. socket' \in [Slots -> Users \union {NoUser}]
    BY <1>1, <2>1 DEF DataTypes
  <2> QED
    BY <1>1, <1>33, <2>2 DEF FillSocket, DataTypes
<1>34. ASSUME NEW u \in Users, CountOut(u) PROVE DataTypes'
  <2>1. current_client_num' \in Int
    BY <1>1, <1>34 DEF CountOut, DataTypes
  <2>2. num_mutex' \in BOOLEAN
    BY <1>34 DEF CountOut
  <2> QED
    BY <1>1, <1>34, <2>1, <2>2 DEF CountOut, DataTypes
<1>35. ASSUME NEW u \in Users, Stall(u) \/ ReadOn(u) PROVE DataTypes'
  BY <1>1, <1>35 DEF Stall, ReadOn, DataTypes
<1> QED
  BY <1>4, <1>5, <1>6, <1>7, <1>8, <1>9, <1>10, <1>11, <1>12, <1>13, <1>14, <1>15,
     <1>16, <1>17, <1>18, <1>19, <1>20, <1>21, <1>22, <1>23, <1>24, <1>25, <1>26, <1>27,
     <1>28, <1>29, <1>30, <1>31, <1>32, <1>33, <1>34, <1>35
  DEF Next, MainNext, ChatNext, SendNext, ClientNext

\* TypeOK is an invariant of the chat server.
THEOREM TypeCorrect == Spec => []TypeOK
<1>1. TypeOK /\ [Next]_vars => TypeOK'
  BY DataStep, MainStep, ThreadStep DEF TypeOK
<1> QED
  BY <1>1, TypeInit, PTL DEF Spec

(***************************************************************************)
(* Slots and the online counter.                                           *)
(***************************************************************************)
\* Starting or completing a stage keeps StageInv.
LEMMA StageMoves ==
    ASSUME TypeOK, NEW u \in Users, NEW c \in ChatStates
    PROVE  /\ \A stage \in Kinds : StageInv(Start(c, u, stage))
           /\ StageInv(Completed(c, u))
           /\ Completed(c, u).pc # "count"
<1>1. ASSUME NEW stage \in Kinds PROVE StageInv(Start(c, u, stage))
  <2>1. CASE stage \in Single
    <3>1. /\ Start(c, u, stage).pc = "lock"
          /\ Start(c, u, stage).to = c.slot
      BY <2>1 DEF Start, ChatStates
    <3> QED
      BY <3>1, StartType DEF StageInv
  <2>2. CASE stage \notin Single
    <3>1. Start(c, u, stage).pc = "peer"
      BY <2>2 DEF Start, ChatStates
    <3> QED
      BY <2>2, <3>1, StartType DEF StageInv
  <2> QED
    BY <2>1, <2>2
<1>2. c.stage \in Kinds
  BY DEF ChatStates
<1>3. CASE c.stage \in {"hello", "nick"}
  <2>1. \A stage \in Kinds : Start(c, u, stage).pc # "count"
    BY StartType
  <2>2. {"landed", "renamed"} \subseteq Kinds
    BY DEF Kinds
  <2>3. Completed(c, u) \in {Start(c, u, "landed"), Start(c, u, "renamed")}
    BY <1>3 DEF Completed
  <2> QED
    BY <1>1, <2>1, <2>2, <2>3
<1>4. CASE c.stage \in {"landed", "who", "error", "renamed", "chat", "left"}
  <2>1. /\ Completed(c, u).pc \in {"spawn", "recv", "text", "mdestroy"}
        /\ Completed(c, u).pc # "mdestroy" => c.stage # "left"
        /\ Completed(c, u).stage = c.stage
    BY <1>4 DEF Completed, ChatStates
  <2> DEFINE d == Completed(c, u)
  <2>2. /\ d.pc \in {"spawn", "recv", "text"} => d.stage # "left"
        /\ d.pc \notin {"lock", "push", "peer", "count", "bye"}
    <3> HIDE DEF d
    <3> QED
      BY <2>1 DEF d
  <2> HIDE DEF d
  <2>3. StageInv(d) /\ d.pc # "count"
    BY <2>2 DEF StageInv
  <2> QED
    BY <1>1, <2>3 DEF d
<1> QED
  BY <1>1, <1>2, <1>3, <1>4 DEF Kinds

\* What num_mutex and the counter stand for is kept by whatever leaves them, the
\* taken slots and who has num_mutex alone.
LEMMA NumKept ==
    ASSUME SeatInv, ValidSlots' = ValidSlots, Leaving' = Leaving, Seating' <=> Seating,
           UNCHANGED <<current_client_num, num_mutex>>
    PROVE  NumInv' /\ CountInv'
BY DEF SeatInv, NumInv, CountInv

\* A step of a started thread that keeps its slot and stays in, or out of,
\* service keeps SeatInv.
LEMMA SeatKept ==
    ASSUME TypeOK, SeatInv, NEW u \in Users, NEW c \in ChatStates,
           chat' = [chat EXCEPT ![u] = c],
           chat[u].pc # "none", c.pc # "none",
           c.slot = chat[u].slot,
           c.stage = "left" <=> chat[u].stage = "left",
           StageInv(c), c.pc # "count", chat[u].pc # "count",
           UNCHANGED <<valid, socket, name, current_client_num, num_mutex, main, peer>>
    PROVE  SeatInv'
<1>1. \A v \in Users : /\ Serving(v)' <=> Serving(v)
                       /\ chat'[v].slot = chat[v].slot
                       /\ chat'[v].pc = "none" <=> chat[v].pc = "none"
                       /\ chat'[v].pc = "count" <=> chat[v].pc = "count"
  BY DEF Serving, TypeOK, ThreadTypes
<1>2. \A v \in Users : StageInv(chat[v])'
  <2>1. \A v \in Users : chat'[v] = IF v = u THEN c ELSE chat[v]
    BY DEF TypeOK, ThreadTypes
  <2> QED
    BY <2>1 DEF SeatInv, StageInv
<1>3. MainInv'
  BY <1>1 DEF SeatInv, MainInv
<1>4. SlotOwned'
  BY <1>1 DEF SeatInv, SlotOwned, Filling
<1>5. NumInv' /\ CountInv'
  <2>1. ValidSlots' = ValidSlots /\ Leaving' = Leaving
    BY <1>1 DEF ValidSlots, Leaving
  <2>2. Seating' <=> Seating
    BY DEF Seating
  <2> QED
    BY <2>1, <2>2, NumKept
<1> QED
  BY <1>1, <1>2, <1>3, <1>4, <1>5 DEF SeatInv

\* The same for a thread that only moves its program counter.
LEMMA PcSeatKept ==
    ASSUME TypeOK, SeatInv, NEW u \in Users, NEW pc \in ChatPcs \ {"none", "peer", "lock", "count", "bye"},
           chat' = [chat EXCEPT ![u] = [chat[u] EXCEPT !.pc = pc]],
           chat[u].pc \notin {"none", "count"},
           pc = "push" => chat[u].pc = "lock",
           pc \in {"spawn", "recv", "text"} => chat[u].stage # "left",
           UNCHANGED <<valid, socket, name, current_client_num, num_mutex, main, peer>>
    PROVE  SeatInv'
<1> DEFINE c == [chat[u] EXCEPT !.pc = pc]
<1>1. /\ c \in ChatStates /\ c.pc = pc /\ c.slot = chat[u].slot /\ c.to = chat[u].to
      /\ c.stage = chat[u].stage
  BY DEF TypeOK, ThreadTypes, ChatStates
<1>2. StageInv(c)
  BY <1>1 DEF SeatInv, StageInv
<1> QED
  BY <1>1, <1>2, SeatKept

\* The slots in use are finitely many.
LEMMA ValidSlotsFinite == IsFiniteSet(ValidSlots) /\ Cardinality(ValidSlots) \in Nat
<1>1. IsFiniteSet(Slots)
  BY ConstAssumption, FS_Interval DEF Slots
<1>2. IsFiniteSet(ValidSlots)
  BY <1>1, FS_Subset DEF ValidSlots
<1> QED
  BY <1>2, FS_CardinalityType

\* Initially no slot is in use and no thread runs.
LEMMA SeatInit == Init => SeatInv
<1> SUFFICES ASSUME Init PROVE SeatInv
  OBVIOUS
<1>1. ValidSlots = {}
  BY DEF Init, ValidSlots
<1>2. MainInv
  BY DEF Init, MainInv
<1>3. SlotOwned
  BY DEF Init, SlotOwned, Serving, Filling, NoThread
<1>4. ASSUME NEW u \in Users PROVE StageInv(chat[u]) /\ chat[u].pc = "none"
  BY DEF Init, StageInv, NoThread, Single
<1>5. /\ current_client_num = 0 /\ main.pc = "accept" /\ ~num_mutex
      /\ Cardinality(ValidSlots) = 0
  BY <1>1, FS_EmptySet DEF Init
<1>6. ~Seating /\ Leaving = {}
  BY <1>4, <1>5 DEF Seating, Leaving
<1>7. NumInv /\ CountInv
  BY <1>5, <1>6 DEF NumInv, CountInv
<1> QED
  BY <1>2, <1>3, <1>4, <1>7 DEF SeatInv

\* Send threads, clients and crashes do not touch what SeatInv speaks of.
LEMMA SeatOther ==
    ASSUME TypeOK, SeatInv,
           UNCHANGED <<valid, socket, name, current_client_num, num_mutex, main, chat>>,
           peer' = peer \/ \E u \in Users : peer' = [peer EXCEPT ![u] = "closed"]
    PROVE  SeatInv'
<1>1. \A u \in Users : peer'[u] = "new" => peer[u] = "new"
  BY DEF TypeOK, DataTypes
<1>2. MainInv'
  BY <1>1 DEF SeatInv, MainInv
<1>3. SlotOwned'
  BY DEF SeatInv, SlotOwned, Serving, Filling
<1>4. \A u \in Users : StageInv(chat[u])' /\ (peer'[u] = "new" => chat'[u].pc = "none")
  BY <1>1 DEF SeatInv, StageInv
<1>5. /\ ValidSlots' = ValidSlots /\ Leaving' = Leaving
      /\ Seating' <=> Seating
  BY DEF ValidSlots, Leaving, Seating
<1>6. NumInv' /\ CountInv'
  BY <1>5, NumKept
<1> QED
  BY <1>2, <1>3, <1>4, <1>6 DEF SeatInv

\* Seating a connection: each step of main keeps SeatInv.
LEMMA SeatMain == TypeOK /\ SeatInv /\ MainNext => SeatInv'
<1> SUFFICES ASSUME TypeOK, SeatInv, MainNext PROVE SeatInv'
  OBVIOUS
<1> USE DEF slotVars, numVars, peerVars
<1>1. MainInv /\ SlotOwned
  BY DEF SeatInv
<1>2. \A u \in Users : StageInv(chat[u]) /\ (peer[u] = "new" => chat[u].pc = "none")
  BY DEF SeatInv
<1>3. NumInv /\ CountInv
  BY DEF SeatInv
<1>4. main \in [pc : {"accept", "scan", "fill", "publish", "init", "create"},
                sock : Users \union {NoUser}, i : 0 .. MaxClients]
  BY DEF TypeOK, MainTypes
<1>5. ASSUME NEW u \in Users, Accept(u) PROVE SeatInv'
  <2>1. /\ main' = [pc |-> "scan", sock |-> u, i |-> 0] /\ peer' = [peer EXCEPT ![u] = "up"]
        /\ UNCHANGED <<valid, socket, name, chat, num_mutex, current_client_num>>
        /\ main.pc = "accept" /\ peer[u] = "new"
    BY <1>5 DEF Accept
  <2>2. MainInv'
    BY <1>1, <1>2, <1>5, <2>1 DEF MainInv, TypeOK, DataTypes
  <2>3. SlotOwned'
    BY <1>1, <2>1 DEF SlotOwned, Serving, Filling
  <2>4. \A v \in Users : StageInv(chat[v])' /\ (peer'[v] = "new" => chat'[v].pc = "none")
    BY <1>2, <2>1 DEF StageInv, TypeOK, DataTypes
  <2>5. /\ ValidSlots' = ValidSlots /\ Leaving' = Leaving
        /\ Seating' <=> Seating
    BY <2>1 DEF ValidSlots, Leaving, Seating
  <2>6. NumInv' /\ CountInv'
    BY <2>1, <2>5, NumKept
  <2> QED
    BY <2>2, <2>3, <2>4, <2>6 DEF SeatInv
<1>6. CASE Scan
  <2>1. /\ main'.pc \in {"accept", "scan", "fill"} /\ main'.sock = main.sock /\ main.pc = "scan"
        /\ main'.pc = "fill" => ~valid[main'.i]
        /\ UNCHANGED <<valid, socket, name, chat, num_mutex, current_client_num, peer>>
    BY <1>4, <1>6 DEF Scan
  <2>2. MainInv'
    BY <1>1, <2>1 DEF MainInv
  <2>3. SlotOwned'
    BY <1>1, <2>1 DEF SlotOwned, Serving, Filling
  <2>4. \A v \in Users : StageInv(chat[v])' /\ (peer'[v] = "new" => chat'[v].pc = "none")
    BY <1>2, <2>1 DEF StageInv
  <2>5. /\ ValidSlots' = ValidSlots /\ Leaving' = Leaving
        /\ Seating' <=> Seating
    BY <2>1 DEF ValidSlots, Leaving, Seating
  <2>6. NumInv' /\ CountInv'
    BY <2>1, <2>5, NumKept
  <2> QED
    BY <2>2, <2>3, <2>4, <2>6 DEF SeatInv
<1>7. CASE Fill
  <2>1. /\ main.pc = "fill" /\ main'.pc = "publish" /\ main'.i = main.i /\ main'.sock = main.sock
        /\ ~num_mutex /\ num_mutex' = TRUE /\ valid' = [valid EXCEPT ![main.i] = TRUE]
        /\ name' = [name EXCEPT ![main.i] = main.sock]
        /\ UNCHANGED <<socket, chat, current_client_num, peer>>
    BY <1>4, <1>7 DEF Fill
  <2>2. main.i \in Slots /\ ~valid[main.i] /\ main.sock \in Users
    BY <1>1, <2>1 DEF TypeOK, MainTypes, MainInv
  <2>3. /\ valid'[main.i] /\ name'[main.i] = main.sock
        /\ \A s \in Slots \ {main.i} : valid'[s] = valid[s] /\ name'[s] = name[s]
    BY <2>1, <2>2 DEF TypeOK, DataTypes
  <2>4. MainInv'
    BY <1>1, <2>1, <2>3 DEF MainInv
  <2>5. \A v \in Users : Serving(v) => chat[v].slot \in Slots \ {main.i}
    BY <1>1, <2>2 DEF SlotOwned, TypeOK, ThreadTypes, ChatStates
  <2>6. SlotOwned'
    BY <1>1, <2>1, <2>3, <2>5 DEF SlotOwned, Serving, Filling
  <2>7. \A v \in Users : StageInv(chat[v])' /\ (peer'[v] = "new" => chat'[v].pc = "none")
    BY <1>2, <2>1 DEF StageInv
  <2>8. ValidSlots' = ValidSlots \union {main.i} /\ main.i \notin ValidSlots
    BY <2>2, <2>3 DEF ValidSlots
  <2>9. Cardinality(ValidSlots') = Cardinality(ValidSlots) + 1
    BY <2>8, ValidSlotsFinite, FS_AddElement
  <2>10. ~Seating /\ Leaving = {} /\ Leaving' = {} /\ Seating'
    BY <1>3, <2>1 DEF NumInv, Seating, Leaving
  <2>11. NumInv' /\ CountInv'
    BY <1>3, <2>1, <2>9, <2>10, ValidSlotsFinite DEF NumInv, CountInv
  <2> QED
    BY <2>4, <2>6, <2>7, <2>11 DEF SeatInv
<1>8. CASE InitLocks
  <2>1. /\ main.pc = "init" /\ main'.pc = "create" /\ main'.i = main.i /\ main'.sock = main.sock
        /\ ~num_mutex' /\ current_client_num' = current_client_num + 1
        /\ UNCHANGED <<valid, socket, name, chat, peer>>
    BY <1>4, <1>8 DEF InitLocks
  <2>2. MainInv'
    BY <1>1, <2>1 DEF MainInv
  <2>3. SlotOwned'
    BY <1>1, <2>1 DEF SlotOwned, Serving, Filling
  <2>4. \A v \in Users : StageInv(chat[v])' /\ (peer'[v] = "new" => chat'[v].pc = "none")
    BY <1>2, <2>1 DEF StageInv
  <2>5. ValidSlots' = ValidSlots
    BY <2>1 DEF ValidSlots
  <2>6. Seating /\ ~Seating' /\ Leaving = {} /\ Leaving' = {}
    BY <1>3, <2>1 DEF NumInv, Seating, Leaving
  <2>7. NumInv' /\ CountInv'
    BY <1>3, <2>1, <2>5, <2>6, ValidSlotsFinite DEF NumInv, CountInv
  <2> QED
    BY <2>2, <2>3, <2>4, <2>7 DEF SeatInv
<1>9. CASE CreateChat
  <2>0. PICK w \in Users : w = main.sock
    BY <1>1, <1>9 DEF MainInv, CreateChat
  <2> DEFINE d == [chat[w] EXCEPT !.pc = "lock", !.slot = main.i, !.to = main.i,
                                  !.stage = "hello",
                                  !.msg = [kind |-> "hello", from |-> name[main.i],
                                           by |-> w, n |-> 0]]
  <2>1. /\ main.pc = "create" /\ main'.pc = "accept" /\ chat' = [chat EXCEPT ![w] = d]
        /\ UNCHANGED <<valid, socket, name, peer, num_mutex, current_client_num>>
    BY <1>4, <1>9, <2>0 DEF CreateChat
  <2>2. /\ peer[w] # "new" /\ valid[main.i] /\ socket[main.i] = w
        /\ name[main.i] = w
    BY <1>1, <2>0, <2>1 DEF MainInv
  <2>3. d.pc = "lock" /\ d.slot = main.i /\ d.to = main.i /\ d.stage = "hello"
    BY <2>2 DEF TypeOK, ThreadTypes, ChatStates
  <2>4. chat'[w] = d /\ \A v \in Users \ {w} : chat'[v] = chat[v]
    BY <2>1, <2>2 DEF TypeOK, ThreadTypes
  <2>5. MainInv'
    BY <2>1, <2>2 DEF MainInv
  <2> HIDE DEF d
  <2>6. SlotOwned'
    <3>1. Serving(w)' /\ \A v \in Users \ {w} : Serving(v)' <=> Serving(v)
      BY <2>3, <2>4 DEF Serving
    <3>2. \A s \in Slots : ~Filling(s)' /\ (Filling(s) => s = main.i)
      BY <2>1 DEF Filling
    <3>3. ~Serving(w)
      BY <1>1, <2>0, <2>1 DEF MainInv, Serving
    <3> QED
      BY <1>1, <2>1, <2>2, <2>3, <2>4, <3>1, <3>2, <3>3 DEF SlotOwned
  <2>7. ASSUME NEW v \in Users
        PROVE  StageInv(chat[v])' /\ (peer'[v] = "new" => chat'[v].pc = "none")
    BY <1>2, <2>1, <2>2, <2>3, <2>4 DEF StageInv
  <2>8. /\ ValidSlots' = ValidSlots
        /\ Seating' <=> Seating
    BY <2>1 DEF ValidSlots, Seating
  <2>9. Leaving' = Leaving
    <3>1. w \notin Leaving /\ w \notin Leaving'
      BY <1>1, <2>0, <2>1, <2>3, <2>4 DEF MainInv, Leaving
    <3> QED
      BY <2>4, <3>1 DEF Leaving
  <2>10. NumInv' /\ CountInv'
    BY <2>1, <2>8, <2>9, NumKept
  <2> QED
    BY <2>5, <2>6, <2>7, <2>10 DEF SeatInv
<1>10. CASE FillSocket
  <2>1. /\ main.pc = "publish" /\ main'.pc = "init" /\ main'.i = main.i /\ main'.sock = main.sock
        /\ socket' = [socket EXCEPT ![main.i] = main.sock]
        /\ UNCHANGED <<valid, name, chat, current_client_num, num_mutex, peer>>
    BY <1>4, <1>10 DEF FillSocket
  <2>2. main.i \in Slots /\ main.sock \in Users
    BY <1>1, <2>1 DEF TypeOK, MainTypes, MainInv
  <2>3. /\ socket'[main.i] = main.sock
        /\ \A s \in Slots \ {main.i} : socket'[s] = socket[s]
    BY <2>1, <2>2 DEF TypeOK, DataTypes
  <2>4. MainInv'
    BY <1>1, <2>1, <2>2, <2>3 DEF MainInv
  <2>5. SlotOwned'
    <3>1. \A s \in Slots : Filling(s)' <=> Filling(s)
      BY <2>1 DEF Filling
    <3>2. \A v \in Users : Serving(v)' <=> Serving(v)
      BY <2>1 DEF Serving
    <3>3. \A v \in Users : Serving(v) => chat[v].slot \in Slots \ {main.i}
      BY <1>1, <2>1, <2>2 DEF SlotOwned, Filling, TypeOK, ThreadTypes, ChatStates
    <3> QED
      BY <1>1, <2>1, <2>3, <3>1, <3>2, <3>3 DEF SlotOwned
  <2>6. \A v \in Users : StageInv(chat[v])' /\ (peer'[v] = "new" => chat'[v].pc = "none")
    BY <1>2, <2>1 DEF StageInv
  <2>7. /\ ValidSlots' = ValidSlots /\ Leaving' = Leaving
        /\ Seating' <=> Seating
    BY <2>1 DEF ValidSlots, Leaving, Seating
  <2>8. NumInv' /\ CountInv'
    BY <2>1, <2>7, NumKept
  <2> QED
    BY <2>4, <2>5, <2>6, <2>8 DEF SeatInv
<1>11. CASE AcceptFails
  <2>1. UNCHANGED <<valid, socket, name, current_client_num, num_mutex, main, chat, peer>>
    BY <1>11 DEF AcceptFails
  <2> QED
    BY <2>1, SeatOther
<1> QED
  BY <1>5, <1>6, <1>7, <1>8, <1>9, <1>10, <1>11 DEF MainNext

\* Leaving: the thread takes num_mutex and gives its slot up.
LEMMA SeatLeave ==
    ASSUME TypeOK, SeatInv, NEW u \in Users, Leave(u)
    PROVE  SeatInv'
<1> USE DEF slotVars, peerVars
<1> DEFINE z == chat[u].slot
           d == [chat[u] EXCEPT !.pc = "count", !.stage = "left"]
<1>1. MainInv /\ SlotOwned
  BY DEF SeatInv
<1>2. /\ chat[u].pc = "recv" /\ ~num_mutex /\ num_mutex' = TRUE
      /\ valid' = [valid EXCEPT ![z] = FALSE]
      /\ chat' = [chat EXCEPT ![u] = d]
      /\ UNCHANGED <<socket, name, current_client_num, peer, main>>
  BY DEF Leave
<1>3. Serving(u) /\ z \in Slots /\ valid[z] /\ socket[z] = u
  BY <1>1, <1>2 DEF SeatInv, StageInv, Serving, SlotOwned, TypeOK, ThreadTypes, ChatStates
<1>4. d.pc = "count" /\ d.stage = "left" /\ chat'[u] = d
      /\ \A v \in Users \ {u} : chat'[v] = chat[v]
  BY <1>2 DEF TypeOK, ThreadTypes, ChatStates
<1>5. ~valid'[z] /\ \A s \in Slots \ {z} : valid'[s] = valid[s]
  BY <1>2, <1>3 DEF TypeOK, DataTypes
<1> HIDE DEF d
<1>6. ~Serving(u)' /\ \A v \in Users \ {u} : Serving(v)' <=> Serving(v)
  BY <1>4 DEF Serving
<1>7. \A v \in Users \ {u} : Serving(v) => chat[v].slot \in Slots \ {z}
  BY <1>1, <1>3 DEF SlotOwned, TypeOK, ThreadTypes, ChatStates
<1>8. ~Filling(z) /\ \A s \in Slots : Filling(s)' <=> Filling(s)
  BY <1>1, <1>2, <1>3 DEF SlotOwned, Filling
<1>9. MainInv'
  <2>1. main.pc # "accept" => main.sock \in Users \ {u}
    BY <1>1, <1>2 DEF MainInv
  <2>2. main.pc \in {"fill", "publish", "init", "create"} => main.i \in Slots
    BY DEF TypeOK, MainTypes
  <2> QED
    BY <1>1, <1>2, <1>4, <1>5, <1>8, <2>1, <2>2 DEF MainInv, Filling
<1>10. SlotOwned'
  BY <1>1, <1>2, <1>3, <1>4, <1>5, <1>6, <1>7, <1>8 DEF SlotOwned
<1>11. ASSUME NEW v \in Users
       PROVE  StageInv(chat[v])' /\ (peer'[v] = "new" => chat'[v].pc = "none")
  BY <1>2, <1>4 DEF SeatInv, StageInv
<1>12. ValidSlots' = ValidSlots \ {z} /\ z \in ValidSlots
  BY <1>3, <1>5 DEF ValidSlots
<1>13. Cardinality(ValidSlots') = Cardinality(ValidSlots) - 1
  BY <1>12, ValidSlotsFinite, FS_RemoveElement
<1>14. ~Seating /\ Leaving = {} /\ ~Seating' /\ Leaving' = {u}
  <2>1. ~Seating /\ Leaving = {}
    BY <1>2 DEF SeatInv, NumInv
  <2> QED
    BY <1>2, <1>4, <2>1 DEF Seating, Leaving
<1>15. NumInv' /\ CountInv'
  <2>1. Cardinality(ValidSlots') = Cardinality(ValidSlots) - 1 /\ current_client_num = Cardinality(ValidSlots)
    BY <1>13, <1>14 DEF SeatInv, CountInv
  <2> QED
    BY <1>2, <1>14, <2>1, ValidSlotsFinite DEF NumInv, CountInv
<1> QED
  BY <1>9, <1>10, <1>11, <1>15 DEF SeatInv

\* Counting out: the counter follows, and num_mutex is free again.
LEMMA SeatCountOut ==
    ASSUME TypeOK, SeatInv, NEW u \in Users, CountOut(u)
    PROVE  SeatInv'
<1> USE DEF slotVars, peerVars
<1> DEFINE d == [chat[u] EXCEPT !.pc = "bye"]
<1>1. /\ chat[u].pc = "count" /\ chat' = [chat EXCEPT ![u] = d]
      /\ current_client_num' = current_client_num - 1 /\ num_mutex' = FALSE
      /\ UNCHANGED <<valid, socket, name, peer, main>>
  BY DEF CountOut
<1>2. /\ d.pc = "bye" /\ d.stage = chat[u].stage /\ d.slot = chat[u].slot /\ chat'[u] = d
      /\ \A v \in Users \ {u} : chat'[v] = chat[v]
  BY <1>1 DEF TypeOK, ThreadTypes, ChatStates
<1>3. chat[u].stage = "left"
  BY <1>1 DEF SeatInv, StageInv
<1> HIDE DEF d
<1>4. \A v \in Users : /\ Serving(v)' <=> Serving(v)
                       /\ chat'[v].slot = chat[v].slot
                       /\ chat'[v].pc = "none" <=> chat[v].pc = "none"
  BY <1>1, <1>2 DEF Serving
<1>5. MainInv'
  BY <1>1, <1>4 DEF SeatInv, MainInv
<1>6. SlotOwned'
  BY <1>1, <1>4 DEF SeatInv, SlotOwned, Filling
<1>7. ASSUME NEW v \in Users
      PROVE  StageInv(chat[v])' /\ (peer'[v] = "new" => chat'[v].pc = "none")
  BY <1>1, <1>2, <1>3 DEF SeatInv, StageInv
<1>8. Leaving # {} /\ ~Seating /\ Leaving' = {} /\ ~Seating'
  <2>1. u \in Leaving
    BY <1>1 DEF Leaving
  <2>2. Leaving = {u} /\ ~Seating
    BY <2>1 DEF SeatInv, NumInv
  <2> QED
    BY <1>1, <1>2, <2>2 DEF Leaving, Seating
<1>9. NumInv' /\ CountInv'
  <2>1. ValidSlots' = ValidSlots /\ current_client_num = Cardinality(ValidSlots) + 1
    BY <1>1, <1>8 DEF ValidSlots, SeatInv, CountInv
  <2> QED
    BY <1>1, <1>8, <2>1, ValidSlotsFinite DEF NumInv, CountInv
<1> QED
  BY <1>5, <1>6, <1>7, <1>9 DEF SeatInv

\* The other steps of a chat thread keep it in its slot.
LEMMA SeatChat ==
    ASSUME TypeOK, SeatInv, [Next]_vars, NEW u \in Users, ChatNext(u)
    PROVE  SeatInv'
<1> USE DEF slotVars, numVars, peerVars
<1> DEFINE c == chat[u]
<1>1. c \in ChatStates /\ StageInv(c)
  BY DEF TypeOK, ThreadTypes, SeatInv
<1>2. CASE Peer(u)
  <2>1. UNCHANGED <<valid, socket, name, current_client_num, num_mutex, main, peer>>
    BY <1>2 DEF Peer
  <2>2. CASE c.to = MaxClients
    <3>1. chat' = [chat EXCEPT ![u] = Completed(c, u)] /\ c.pc = "peer"
      BY <1>2, <2>2 DEF Peer
    <3> QED
      BY <1>1, <2>1, <3>1, CompletedType, StageMoves, SeatKept
  <2>3. CASE c.to # MaxClients
    <3>1. c.pc = "peer" /\ c.stage \notin Single
      BY <1>1, <1>2 DEF Peer, StageInv
    <3>2. PICK d \in {[c EXCEPT !.pc = "lock"], [c EXCEPT !.to = @ + 1]} :
            chat' = [chat EXCEPT ![u] = d]
      BY <1>2, <2>3 DEF Peer
    <3>3. /\ d.pc \in {"lock", "peer"} /\ d.slot = c.slot /\ d.stage = c.stage
          /\ d \in ChatStates
      <4>1. [c EXCEPT !.pc = "lock"] \in ChatStates
        BY <1>1 DEF ChatStates, ChatPcs
      <4>2. [c EXCEPT !.to = @ + 1] \in ChatStates
        BY <1>1, <2>3, NextTarget
      <4> QED
        BY <1>1, <3>1, <3>2, <4>1, <4>2 DEF ChatStates
    <3>4. StageInv(d)
      BY <3>1, <3>3 DEF StageInv
    <3> QED
      BY <2>1, <3>1, <3>2, <3>3, <3>4, SeatKept
  <2> QED
    BY <2>2, <2>3
<1>3. CASE LockQueue(u)
  <2>1. UNCHANGED <<valid, socket, name, current_client_num, num_mutex, main, peer>>
    BY <1>3 DEF LockQueue
  <2>2. c.pc = "lock" /\ chat' = [chat EXCEPT ![u] = [c EXCEPT !.pc = "push"]]
    BY <1>3 DEF LockQueue
  <2> QED
    BY <2>1, <2>2, PcSeatKept DEF ChatPcs
<1>4. CASE Push(u)
  <2>1. c.pc = "push"
    BY <1>4 DEF Push
  <2>2. name' = name
    <3>1. c.stage = "nick" => c.to = c.slot /\ name[c.slot] = u
      BY <1>1, <2>1 DEF StageInv, Single, SeatInv, SlotOwned, Serving
    <3> QED
      BY <1>1, <1>4, <3>1 DEF Push, TypeOK, DataTypes, ChatStates
  <2>3. UNCHANGED <<valid, socket, name, current_client_num, num_mutex, main, peer>>
    BY <1>4, <2>2 DEF Push
  <2>4. CASE c.stage \in Single
    <3>1. chat' = [chat EXCEPT ![u] = Completed(c, u)]
      BY <1>4, <2>4 DEF Push
    <3> QED
      BY <1>1, <2>1, <2>3, <3>1, CompletedType, StageMoves, SeatKept
  <2>5. CASE c.stage \notin Single
    <3> DEFINE k == c.to + 1
               d == [c EXCEPT !.pc = "peer", !.to = k]
    <3>1. k \in 0 .. MaxClients
      BY <2>1, ConstAssumption DEF TypeOK, ThreadTypes, Slots
    <3>2. chat' = [chat EXCEPT ![u] = d]
      BY <1>4, <2>5 DEF Push
    <3> HIDE DEF k
    <3>3. d \in ChatStates /\ d.pc = "peer" /\ d.slot = c.slot /\ d.stage = c.stage
      BY <1>1, <3>1 DEF ChatStates, ChatPcs
    <3> HIDE DEF d
    <3>4. StageInv(d)
      BY <2>5, <3>3 DEF StageInv
    <3> QED
      BY <2>1, <2>3, <3>2, <3>3, <3>4, SeatKept
  <2> QED
    BY <2>4, <2>5
<1>5. CASE SpawnSender(u)
  <2>1. UNCHANGED <<valid, socket, name, current_client_num, num_mutex, main, peer>>
    BY <1>5 DEF SpawnSender
  <2>2. c.pc = "spawn" /\ chat' = [chat EXCEPT ![u] = [c EXCEPT !.pc = "recv"]]
    BY <1>5 DEF SpawnSender
  <2>3. c.stage # "left"
    BY <1>1, <2>2 DEF StageInv
  <2> QED
    BY <2>1, <2>2, <2>3, PcSeatKept DEF ChatPcs
<1>6. ASSUME NEW b \in Buffers, Receive(u, b) PROVE SeatInv'
  <2> DEFINE d == [c EXCEPT !.reads = @ + 1]
             e == [d EXCEPT !.pc = "text", !.rest = b]
  <2>1. UNCHANGED <<valid, socket, name, current_client_num, num_mutex, main, peer>>
    BY <1>6 DEF Receive
  <2>2. c.pc = "recv" /\ c.stage # "left"
    BY <1>1, <1>6 DEF Receive, StageInv
  <2>3. d \in ChatStates /\ d.slot = c.slot /\ d.stage = c.stage
    BY <1>1 DEF ChatStates
  <2>4. e \in ChatStates /\ e.pc = "text" /\ e.slot = d.slot /\ e.stage = d.stage
    <3> HIDE DEF d
    <3> QED
      BY <2>3, ConstAssumption DEF ChatStates, ChatPcs
  <2>5. chat' = [chat EXCEPT ![u] =
                   CASE Head(b) = "name" -> Start(d, u, "nick")
                     [] Head(b) = "who"  -> Start(d, u, "who")
                     [] Head(b) = "bad"  -> Start(d, u, "error")
                     [] OTHER            -> e]
    BY <1>6 DEF Receive
  <2> HIDE DEF d, e
  <2>6. PICK f \in {Start(d, u, "nick"), Start(d, u, "who"), Start(d, u, "error"), e} :
          chat' = [chat EXCEPT ![u] = f]
    BY <2>5
  <2>7. ASSUME NEW stage \in {"nick", "who", "error"}, f = Start(d, u, stage)
        PROVE  SeatInv'
    <3>1. stage \in Kinds /\ stage # "left"
      BY DEF Kinds
    <3>2. /\ f \in ChatStates /\ f.slot = c.slot /\ f.stage = stage /\ f.pc \in {"lock", "peer"}
          /\ StageInv(f)
      BY <2>3, <2>7, <3>1, StartType, StageMoves
    <3> QED
      BY <2>1, <2>2, <2>6, <3>1, <3>2, SeatKept
  <2>8. ASSUME f = e PROVE SeatInv'
    <3>1. StageInv(e)
      BY <2>2, <2>3, <2>4 DEF StageInv
    <3> QED
      BY <2>1, <2>2, <2>3, <2>4, <2>6, <2>8, <3>1, SeatKept
  <2> QED
    BY <2>6, <2>7, <2>8
<1>7. CASE Text(u)
  <2> DEFINE begun == IF c.stamp = NoUser THEN name[c.slot] ELSE c.stamp
             part == [c EXCEPT !.rest = Tail(@), !.stamp = begun]
             line == [c EXCEPT !.rest = Tail(@), !.stamp = NoUser, !.lines = @ + 1,
                               !.pc = "peer", !.stage = "chat", !.to = 0,
                               !.msg = [kind |-> "chat", from |-> begun,
                                        by |-> u, n |-> c.lines + 1]]
  <2>1. UNCHANGED <<valid, socket, name, current_client_num, num_mutex, main, peer>>
    BY <1>7 DEF Text
  <2>2. c.pc = "text" /\ c.stage # "left"
    BY <1>1, <1>7 DEF Text, StageInv
  <2>3. CASE c.rest = <<>>
    BY <1>7, <2>1, <2>2, <2>3, PcSeatKept DEF Text, ChatPcs
  <2>4. CASE c.rest # <<>>
    <3>1. PICK f \in {part, line} : chat' = [chat EXCEPT ![u] = f]
      BY <1>7, <2>4 DEF Text
    <3>2. /\ part.pc = "text" /\ part.slot = c.slot /\ part.stage = c.stage
          /\ line.pc = "peer" /\ line.slot = c.slot /\ line.stage = "chat"
      <4> HIDE DEF begun
      <4> QED
        BY <1>1, <2>2 DEF ChatStates
    <3> HIDE DEF part, line
    <3>3. chat'[u] = f
      BY <3>1 DEF TypeOK, ThreadTypes
    <3>4. f \in ChatStates
      BY <3>3, ThreadStep DEF ThreadTypes
    <3>5. StageInv(f) /\ f.pc \notin {"none", "count"} /\ f.slot = c.slot /\ f.stage # "left"
      BY <2>2, <3>1, <3>2 DEF StageInv, Single
    <3> QED
      BY <2>1, <2>2, <3>1, <3>4, <3>5, SeatKept
  <2> QED
    BY <2>3, <2>4
<1>8. CASE Leave(u)
  BY <1>8, SeatLeave
<1>9. CASE Bye(u)
  <2>1. UNCHANGED <<valid, socket, name, current_client_num, num_mutex, main, peer>>
    BY <1>9 DEF Bye
  <2>2. c.pc = "bye" /\ chat' = [chat EXCEPT ![u] = Start(c, u, "left")]
    BY <1>9 DEF Bye
  <2>3. "left" \in Kinds
    BY DEF Kinds
  <2>4. c.stage = "left"
    BY <1>1, <2>2 DEF StageInv
  <2> DEFINE d == Start(c, u, "left")
  <2>5. d \in ChatStates /\ d.slot = c.slot /\ d.stage = "left" /\ d.pc \in {"lock", "peer"}
    BY <1>1, <2>3, StartType
  <2>6. StageInv(d)
    BY <1>1, <2>3, StageMoves
  <2> HIDE DEF d
  <2> QED
    BY <2>1, <2>2, <2>4, <2>5, <2>6, SeatKept DEF d
<1>10. CASE DestroyMutex(u)
  BY <1>10, PcSeatKept DEF DestroyMutex, ChatPcs
<1>11. CASE DestroyCond(u)
  BY <1>11, PcSeatKept DEF DestroyCond, ChatPcs
<1>12. CASE CancelSender(u)
  BY <1>12, PcSeatKept DEF CancelSender, ChatPcs
<1>13. CASE CountOut(u)
  BY <1>13, SeatCountOut
<1> QED
  BY <1>2, <1>3, <1>4, <1>5, <1>6, <1>7, <1>8, <1>9, <1>10, <1>11, <1>12, <1>13 DEF ChatNext

\* SeatInv is inductive, relative to the types.
LEMMA SeatStep == TypeOK /\ SeatInv /\ [Next]_vars => SeatInv'
<1> SUFFICES ASSUME TypeOK, SeatInv, [Next]_vars PROVE SeatInv'
  OBVIOUS
<1> USE DEF slotVars, numVars, peerVars
<1>1. CASE UNCHANGED vars
  BY <1>1, SeatOther DEF vars
<1>2. CASE MainNext
  BY <1>2, SeatMain
<1>3. ASSUME NEW u \in Users, ChatNext(u) PROVE SeatInv'
  BY <1>3, SeatChat
<1>4. ASSUME NEW u \in Users, SendNext(u) PROVE SeatInv'
  <2>1. UNCHANGED <<valid, socket, name, current_client_num, num_mutex, main, chat, peer>>
    BY <1>4 DEF SendNext, LockOwn, FindEmpty, Wait, WaitFails, Wake, Send, Unlock, SendFails,
                CancelledInSend, CancelledInWait
  <2> QED
    BY <2>1, SeatOther
<1>5. ASSUME NEW u \in Users, ClientNext(u) PROVE SeatInv'
  BY <1>5, SeatOther DEF ClientNext, Close, Stall, ReadOn
<1>6. CASE Crash
  BY <1>6, SeatOther DEF Crash
<1> QED
  BY <1>1, <1>2, <1>3, <1>4, <1>5, <1>6 DEF Next

\* SeatInv holds in every reachable state.
LEMMA Seated == Spec => []SeatInv
<1>1. TypeOK /\ SeatInv /\ [Next]_vars => SeatInv'
  BY SeatStep
<1> QED
  BY <1>1, SeatInit, TypeCorrect, PTL DEF Spec

\* Whenever num_mutex is free the counter is the number of valid slots.
THEOREM OnlineCountCorrect == Spec => []OnlineCount
<1>1. TypeOK /\ SeatInv => OnlineCount
  BY DEF SeatInv, NumInv, CountInv, OnlineCount, ValidSlots
<1> QED
  BY <1>1, Seated, TypeCorrect, PTL

\* A slot is valid exactly while one connection has it, under its own socket.
THEOREM SlotsOwned == Spec => []SlotOwned
<1>1. SeatInv => SlotOwned
  BY DEF SeatInv
<1> QED
  BY <1>1, Seated, PTL
=============================================================================
