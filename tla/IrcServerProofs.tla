--------------------------- MODULE IrcServerProofs ---------------------------
(***************************************************************************)
(* Type correctness of IrcServer, that the tables of its main loop agree,  *)
(* that no round of select leaves a reported client unread, that the       *)
(* channels clients are in are listed once, and what their numbers of      *)
(* users count, for any number of slots, connections, channels and         *)
(* commands.                                                               *)
(***************************************************************************)
EXTENDS IrcServer, FiniteSetTheorems, SequenceTheorems, TLAPS

\* The inductive invariant: each part needs the others.
IrcInv == TypeOK /\ TablesAgree /\ RoundInv /\ ChannelsListed

(***************************************************************************)
(* Lemmas.                                                                 *)
(***************************************************************************)
\* What the arguments of a command are.
LEMMA CommandArgs ==
    ASSUME NEW m \in Commands
    PROVE  /\ m.cmd = "NICK" => m.arg \in Nicks
           /\ m.cmd \in {"JOIN", "PART", "PRIVMSG", "TOPIC"} => m.arg \in Channels
           /\ m.cmd = "TOPIC" => m.topic \in Topics \union {NoTopic}
<1>1. CASE m \in [cmd : {"NICK"}, arg : Nicks]
  BY <1>1
<1>2. CASE m \in [cmd : {"JOIN", "PART", "PRIVMSG"}, arg : Channels]
  BY <1>2
<1>3. CASE m \in [cmd : {"TOPIC"}, arg : Channels, topic : Topics \union {NoTopic}]
  BY <1>3
<1>4. CASE m \in [cmd : {"ASK", "USER", "QUIT"}]
  BY <1>4
<1> QED
  BY <1>1, <1>2, <1>3, <1>4 DEF Commands

\* The sets of slots and of descriptors are finite.
LEMMA Finite ==
    /\ IsFiniteSet(Slots)
    /\ IsFiniteSet({ListenFd} \union Fds)
    /\ \A S \in SUBSET Slots : IsFiniteSet(S) /\ Cardinality(S) \in Nat
    /\ \A D \in SUBSET ({ListenFd} \union Fds) : IsFiniteSet(D) /\ Cardinality(D) \in Nat
<1>1. MaxClients \in Nat
  BY ConstAssumption
<1>2. IsFiniteSet(Slots)
  BY <1>1, FS_Interval DEF Slots
<1>3. IsFiniteSet(Fds)
  BY <1>1, FS_Interval DEF Fds
<1>4. IsFiniteSet({ListenFd} \union Fds)
  BY <1>3, FS_AddElement
<1> QED
  BY <1>2, <1>4, FS_Subset, FS_CardinalityType

\* What is true while a client is being read.
LEMMA ReadingFacts ==
    ASSUME IrcInv, Reading
    PROVE  /\ pc = "walk"
           /\ i \in Used
           /\ i <= maxi
           /\ fd[i] \in Fds
           /\ fd[i] \in DOMAIN owner
           /\ Client \in Conns
           /\ Buf \in Seq(Commands)
           /\ fd[i] \in unserved
           /\ nready \in Nat \ {0}
           /\ current_client_num \in Nat \ {0}
<1> USE DEF IrcInv
<1>1. pc = "walk" /\ i \in Slots /\ fd[i] \in rset
  BY DEF Reading, TypeOK, LoopTypes
<1>2. fd[i] \in Fds \union {NoFd} /\ rset \subseteq {ListenFd} \union Fds
  BY <1>1 DEF TypeOK, TableTypes, LoopTypes
<1>3. fd[i] # NoFd
  BY <1>1, <1>2 DEF NoFd, ListenFd, Fds
<1>4. i \in Used /\ fd[i] \in Fds
  BY <1>1, <1>2, <1>3 DEF Used
<1>5. fd[i] \in DOMAIN owner /\ i <= maxi
  BY <1>4 DEF TablesAgree
<1>6. Client \in Conns
  BY <1>5 DEF Client, TypeOK, ClientTypes
<1>7. Buf \in Seq(Commands)
  BY <1>6 DEF Buf, TypeOK, ClientTypes
<1>8. fd[i] \in unserved
  <2>1. i <= i
    BY <1>1 DEF Slots
  <2> QED
    BY <1>1, <1>4, <2>1 DEF RoundInv
<1>9. nready \in Nat \ {0}
  <2>1. unserved \in SUBSET ({ListenFd} \union Fds)
    BY DEF TypeOK, LoopTypes
  <2>2. nready = Cardinality(unserved)
    BY <1>1 DEF RoundInv
  <2> QED
    BY <1>8, <2>1, <2>2, Finite, FS_EmptySet
<1>10. current_client_num \in Nat \ {0}
  <2>1. Used \in SUBSET Slots
    BY DEF Used
  <2>2. current_client_num = Cardinality(Used) + failed /\ failed \in Nat
    BY DEF TablesAgree, TypeOK, ClientTypes
  <2>3. Cardinality(Used) \in Nat \ {0}
    BY <1>4, <2>1, Finite, FS_EmptySet
  <2> QED
    BY <2>2, <2>3
<1> QED
  BY <1>1, <1>4, <1>5, <1>6, <1>7, <1>8, <1>9, <1>10

\* Moving on keeps the index inside client[].
LEMMA OnwardType ==
    ASSUME TypeOK, NEW break, Onward(break)
    PROVE  i' \in Slots /\ pc' \in {"select", "walk"}
BY ConstAssumption DEF Onward, TypeOK, LoopTypes, Slots

\* Reading a client keeps the types of what the loop and the clients share.
LEMMA ServedTypes ==
    ASSUME IrcInv, Reading, Served, allset' \subseteq {ListenFd, StrayFd} \union Fds,
           spoilt' \subseteq Names,
           link' \in [Conns -> {"none", "up", "closed", "reset", "gone"}],
           owner' \in [DOMAIN owner' -> Conns]
    PROVE  LoopTypes' /\ ClientTypes'
<1>1. nready' \in Nat
  BY ReadingFacts DEF Served
<1>2. i' \in Slots /\ pc' \in {"select", "walk"}
  BY OnwardType DEF Served, IrcInv
<1>3. unserved' \subseteq Fds /\ cleared' = TRUE
  BY DEF Served, IrcInv, TypeOK, LoopTypes
<1>4. inbox' \in [Conns -> Seq(Commands)]
  <2>1. <<>> \in Seq(Commands)
    OBVIOUS
  <2> QED
    BY <2>1 DEF Served, IrcInv, TypeOK, ClientTypes
<1>5. LoopTypes'
  BY <1>1, <1>2, <1>3 DEF Served, IrcInv, TypeOK, LoopTypes
<1> QED
  BY <1>4, <1>5 DEF Served, IrcInv, TypeOK, ClientTypes

\* Reading a client keeps RoundInv, whether or not the client is the one whose
\* descriptor the command closes.
LEMMA ServedRound ==
    ASSUME IrcInv, Reading, Served, fd' = fd \/ fd' = [fd EXCEPT ![i] = NoFd]
    PROVE  RoundInv'
<1> USE DEF IrcInv
<1> DEFINE Rest == {t \in Used : i + 1 <= t}
<1>1. i \in Slots /\ maxi \in Int /\ i \in Int /\ \A t \in Slots : t \in Int
  BY ConstAssumption DEF TypeOK, LoopTypes, Slots
<1>2. /\ unserved = rset \intersect {fd[s] : s \in {t \in Used : i <= t}}
      /\ nready = Cardinality(unserved)
      /\ fd[i] \in unserved
      /\ i \in Used
      /\ i <= maxi
  BY ReadingFacts DEF RoundInv
<1>3. unserved' = rset \intersect {fd[s] : s \in Rest}
  <2>1. {t \in Used : i <= t} = {i} \union Rest
    <3>1. \A t \in Used : i <= t <=> t = i \/ i + 1 <= t
      BY <1>1 DEF Used
    <3> QED
      BY <1>2, <3>1
  <2>2. \A s \in Rest : fd[s] # fd[i]
    <3>1. \A s \in Rest : s # i
      BY <1>1 DEF Used
    <3> QED
      BY <1>2, <3>1 DEF TablesAgree
  <2> QED
    BY <1>2, <2>1, <2>2 DEF Served
<1>4. nready' = Cardinality(unserved') /\ nready' \in Nat /\ nready' = nready - 1
  <2>1. unserved \in SUBSET ({ListenFd} \union Fds)
    BY DEF TypeOK, LoopTypes
  <2>2. Cardinality(unserved \ {fd[i]}) = Cardinality(unserved) - 1
    BY <1>2, <2>1, Finite, FS_RemoveElement
  <2> QED
    BY <1>2, <2>2, ReadingFacts DEF Served
<1>5. rset' = rset
  BY DEF Served
<1>6. unserved' \in SUBSET ({ListenFd} \union Fds)
  BY DEF Served, TypeOK, LoopTypes
<1>7. CASE nready <= 1
  <2>1. pc' = "select"
    BY <1>7 DEF Served, Onward
  <2>2. nready' = 0
    BY <1>4, <1>7, ReadingFacts
  <2>3. unserved' = {}
    BY <1>4, <1>6, <2>2, Finite, FS_EmptySet
  <2> QED
    BY <2>1, <2>3 DEF RoundInv, RoundServed
<1>8. CASE ~(nready <= 1)
  <2>1. unserved' # {}
    <3>1. nready' # 0
      BY <1>4, <1>8, ReadingFacts
    <3> QED
      BY <1>4, <3>1, FS_EmptySet
  <2>2. PICK s \in Rest : TRUE
    BY <1>3, <2>1
  <2>3. s <= maxi /\ i + 1 <= s /\ s \in Int
    BY <1>1, <2>2 DEF TablesAgree, Used
  <2>4. pc' = "walk" /\ i' = i + 1
    BY <1>1, <1>8, <2>3 DEF Served, Onward
  <2>5. {fd'[t] : t \in {t \in Used' : i' <= t}} = {fd[t] : t \in Rest}
    <3>1. fd \in [Slots -> Fds \union {NoFd}]
      BY DEF TypeOK, TableTypes
    <3>2. \A t \in Slots : i + 1 <= t => t # i /\ fd'[t] = fd[t]
      BY <1>1, <3>1
    <3>3. \A t \in Slots : i + 1 <= t => (t \in Used' <=> t \in Used)
      BY <3>2 DEF Used
    <3>4. {t \in Used' : i' <= t} = Rest
      BY <2>4, <3>3 DEF Used
    <3>5. \A t \in Rest : fd'[t] = fd[t]
      BY <3>2 DEF Used
    <3> HIDE DEF Rest
    <3> QED
      BY <3>4, <3>5
  <2> QED
    BY <1>3, <1>4, <1>5, <2>1, <2>4, <2>5 DEF RoundInv, RoundServed
<1> QED
  BY <1>7, <1>8, <1>4, ReadingFacts

\* The reply keeps the type of link.
LEMMA WrittenType ==
    ASSUME TypeOK, Written
    PROVE  link' \in [Conns -> {"none", "up", "closed", "reset", "gone"}]
BY DEF Written, TypeOK, ClientTypes

\* The first command of the buffer, and the names NICK and JOIN may take from it.
LEMMA BufferArgs ==
    ASSUME IrcInv, NEW cmds, Reads(cmds)
    PROVE  /\ Reading
           /\ Buf \in Seq(Commands)
           /\ Buf[1] \in Commands
           /\ Buf[1].cmd \in cmds
           /\ Args \subseteq {Buf[1].arg} \union Seq(Commands)
<1>1. Reading /\ Buf # <<>> /\ Buf[1].cmd \in cmds
  BY DEF Reads
<1>2. Buf \in Seq(Commands)
  BY <1>1, ReadingFacts
<1>3. Buf[1] \in Commands
  BY <1>1, <1>2
<1>4. Args \subseteq {Buf[1].arg} \union Seq(Commands)
  BY <1>2 DEF Args
<1> QED
  BY <1>1, <1>2, <1>3, <1>4

\* First finds a channel that is listed.
LEMMA FirstListed ==
    ASSUME IrcInv, NEW ch, Listed(ch)
    PROVE  First(ch) \in DOMAIN ch_list /\ ch_list[First(ch)].ch_name = ch
<1>1. PICK k \in DOMAIN ch_list : ch_list[k].ch_name = ch
  BY DEF Listed
<1>2. \A m \in 1 .. k - 1 : ch_list[m].ch_name # ch
  <2>1. ch_list \in Seq(ChannelRecords)
    BY DEF IrcInv, TypeOK, TableTypes
  <2>2. \A m \in 1 .. k - 1 : m \in DOMAIN ch_list /\ m # k
    BY <1>1, <2>1
  <2> QED
    BY <1>1, <2>2 DEF IrcInv, ChannelsListed
<1> QED
  BY <1>1, <1>2 DEF First

\* Changing the users or the topic of a listed channel keeps the type of the
\* list and every name in it.
LEMMA RecordChanged ==
    ASSUME IrcInv, NEW ch, Listed(ch), NEW r \in ChannelRecords, r.ch_name = ch,
           ch_list' = [ch_list EXCEPT ![First(ch)] = r]
    PROVE  /\ ch_list' \in Seq(ChannelRecords)
           /\ DOMAIN ch_list' = DOMAIN ch_list
           /\ \A k \in DOMAIN ch_list : ch_list'[k].ch_name = ch_list[k].ch_name
<1>1. ch_list \in Seq(ChannelRecords)
  BY DEF IrcInv, TypeOK, TableTypes
<1>2. First(ch) \in DOMAIN ch_list /\ ch_list[First(ch)].ch_name = ch
  BY FirstListed
<1>3. ch_list' \in Seq(ChannelRecords)
  BY <1>1, <1>2
<1> QED
  BY <1>1, <1>2, <1>3

\* ChannelsListed survives a step that keeps every name in the list and lets no
\* client be in a channel that it was not in and that is not listed.
LEMMA NamesKept ==
    ASSUME IrcInv,
           DOMAIN ch_list' = DOMAIN ch_list,
           \A k \in DOMAIN ch_list : ch_list'[k].ch_name = ch_list[k].ch_name,
           \A s \in Slots : \A ch \in joined_ch'[s] \union ({cur_ch'[s]} \ {NoChannel}) :
              Listed(ch) \/ ch \in joined_ch[s] \union ({cur_ch[s]} \ {NoChannel})
    PROVE  ChannelsListed'
<1>1. \A ch : Listed(ch) => Listed(ch)'
  BY DEF Listed
<1>2. \A s \in Slots : \A ch \in joined_ch'[s] \union ({cur_ch'[s]} \ {NoChannel}) : Listed(ch)
  BY DEF IrcInv, ChannelsListed
<1>3. \A s \in Slots : \A ch \in joined_ch'[s] \union ({cur_ch'[s]} \ {NoChannel}) : Listed(ch)'
  BY <1>1, <1>2
<1>4. \A j, k \in DOMAIN ch_list' : ch_list'[j].ch_name = ch_list'[k].ch_name => j = k
  BY DEF IrcInv, ChannelsListed
<1> QED
  BY <1>3, <1>4 DEF ChannelsListed

(***************************************************************************)
(* The inductive invariant, action by action.                              *)
(***************************************************************************)
\* In the initial state nothing is connected and nothing is listed.
LEMMA InitInv == Init => IrcInv
<1> SUFFICES ASSUME Init PROVE IrcInv
  OBVIOUS
<1> USE ConstAssumption DEF Init
<1>1. TypeOK
  <2>1. TableTypes
    <3>1. fd \in [Slots -> Fds \union {NoFd}] /\ current_client_num \in Nat
      OBVIOUS
    <3>2. name \in [Slots -> Nicks \union {NoNick} \union Seq(Commands)]
      OBVIOUS
    <3>3. cur_ch \in [Slots -> Names] /\ joined_ch \in [Slots -> SUBSET Names]
      BY DEF Names
    <3>4. ch_list \in Seq(ChannelRecords)
      OBVIOUS
    <3> QED
      BY <3>1, <3>2, <3>3, <3>4 DEF TableTypes
  <2>2. LoopTypes
    <3>1. maxi \in -1 .. MaxClients - 1 /\ i \in Slots
      BY DEF Slots
    <3>2. nready \in Nat /\ pc \in {"select", "accept", "walk", "overrun", "killed"}
      OBVIOUS
    <3> QED
      BY <3>1, <3>2 DEF LoopTypes
  <2>3. ClientTypes
    <3>1. <<>> \in Seq(Commands)
      OBVIOUS
    <3> QED
      BY <3>1 DEF ClientTypes
  <2> QED
    BY <2>1, <2>2, <2>3 DEF TypeOK
<1>2. Used = {}
  BY DEF Used
<1>3. TablesAgree
  BY <1>2, FS_EmptySet DEF TablesAgree, Watched
<1>4. RoundInv
  BY DEF RoundInv, RoundServed
<1>5. ChannelsListed
  BY DEF ChannelsListed, Listed
<1> QED
  BY <1>1, <1>3, <1>4, <1>5 DEF IrcInv

\* select: what it reports is watched, so it is the listening socket or in a slot.
LEMMA SelectInv == IrcInv /\ Select => IrcInv'
<1> SUFFICES ASSUME IrcInv, Select PROVE IrcInv'
  OBVIOUS
<1> USE DEF IrcInv
<1>1. Ready \subseteq {ListenFd} \union Fds /\ Ready \subseteq DOMAIN owner \union {ListenFd}
  <2>1. \A s \in Used : fd[s] \in Fds
    BY DEF Used, TypeOK, TableTypes
  <2> QED
    BY <2>1 DEF Ready, TablesAgree
<1>2. IsFiniteSet(Ready) /\ Cardinality(Ready) \in Nat
  BY <1>1, Finite
<1>3. ListenFd \notin Fds /\ 0 \in Slots
  BY ConstAssumption DEF ListenFd, Fds, Slots
<1>4. TypeOK'
  <2>1. TableTypes'
    BY DEF Select, tableVars, TypeOK, TableTypes
  <2>2. LoopTypes'
    BY <1>1, <1>2, <1>3 DEF Select, TypeOK, LoopTypes
  <2>3. ClientTypes'
    BY DEF Select, clientVars, historyVars, TypeOK, ClientTypes
  <2> QED
    BY <2>1, <2>2, <2>3 DEF TypeOK
<1>5. UNCHANGED <<fd, current_client_num, allset, owner, maxi, maxfd, ch_list, joined_ch,
                  cur_ch, failed>>
  BY DEF Select, tableVars, historyVars
<1>6. TablesAgree'
  BY <1>5 DEF TablesAgree, Watched, Used
<1>7. RoundInv'
  <2>1. CASE ListenFd \in Ready
    <3>1. pc' = "accept" /\ rset' = Ready /\ unserved' = Ready \ {ListenFd}
          /\ nready' = Cardinality(Ready) /\ i' = 0
      BY <2>1 DEF Select
    <3>2. Ready \subseteq {ListenFd} \union DOMAIN owner'
      BY <1>1, <1>5
    <3> QED
      BY <2>1, <3>1, <3>2 DEF RoundInv, RoundServed
  <2>2. CASE ListenFd \notin Ready
    <3>1. pc' = "walk" /\ rset' = Ready /\ unserved' = Ready /\ nready' = Cardinality(Ready)
          /\ i' = 0 /\ Ready # {}
      BY <2>2 DEF Select
    <3>2. Ready \subseteq {fd[s] : s \in Used}
      BY <1>1, <2>2 DEF TablesAgree
    <3>3. {t \in Used' : i' <= t} = Used
      BY <1>5, <3>1 DEF Used, Slots
    <3>4. unserved' = rset' \intersect {fd'[s] : s \in {t \in Used' : i' <= t}}
      BY <1>5, <3>1, <3>2, <3>3
    <3> QED
      BY <3>1, <3>4 DEF RoundInv, RoundServed
  <2> QED
    BY <2>1, <2>2
<1>8. ChannelsListed'
  BY <1>5 DEF ChannelsListed, Listed
<1> QED
  BY <1>4, <1>6, <1>7, <1>8

\* accept: the new descriptor is not one that select reported.
LEMMA AcceptInv == \A c \in Conns : IrcInv /\ Accept(c) => IrcInv'
<1> SUFFICES ASSUME NEW c \in Conns, IrcInv, Accept(c) PROVE IrcInv'
  OBVIOUS
<1> USE DEF IrcInv
<1>1. PICK s \in Slots, d \in Fds : IsFirstFree(s) /\ IsLowestFd(d) /\ Seat(c, s, d)
  BY DEF Accept
<1>2. /\ rset \subseteq {ListenFd} \union DOMAIN owner
      /\ ListenFd \in rset
      /\ unserved = rset \ {ListenFd}
      /\ nready = Cardinality(rset)
      /\ i = 0
  BY DEF Accept, RoundInv
<1>3. /\ ListenFd \notin Fds
      /\ NoFd \notin Fds
      /\ \A t \in Slots : t \in Int /\ 0 <= t /\ t <= MaxClients - 1
      /\ maxi \in Int
      /\ MaxClients \in Nat \ {0}
  BY ConstAssumption DEF ListenFd, NoFd, Fds, Slots, TypeOK, LoopTypes
<1>4. d \notin rset /\ d \notin DOMAIN owner /\ \A t \in Used : fd[t] # d
  BY <1>1, <1>2, <1>3 DEF IsLowestFd, TablesAgree
<1>5. fd \in [Slots -> Fds \union {NoFd}] /\ fd' = [fd EXCEPT ![s] = d] /\ fd[s] = NoFd
  BY <1>1 DEF Seat, IsFirstFree, TypeOK, TableTypes
<1>6. Used' = Used \union {s} /\ s \notin Used
  <2>1. \A t \in Slots : fd'[t] # NoFd <=> fd[t] # NoFd \/ t = s
    BY <1>3, <1>5
  <2> QED
    BY <1>5, <2>1 DEF Used
<1>7. nready \in Nat \ {0} /\ nready - 1 = Cardinality(unserved)
  <2>1. rset \in SUBSET ({ListenFd} \union Fds)
    BY DEF TypeOK, LoopTypes
  <2>2. IsFiniteSet(rset) /\ Cardinality(rset) \in Nat
    BY <2>1, Finite
  <2>3. Cardinality(rset) # 0
    BY <1>2, <2>2, FS_EmptySet
  <2>4. Cardinality(rset \ {ListenFd}) = Cardinality(rset) - 1
    BY <1>2, <2>2, FS_RemoveElement
  <2> QED
    BY <1>2, <2>2, <2>3, <2>4
<1>8. TypeOK'
  <2>1. fd' \in [Slots -> Fds \union {NoFd}]
    BY <1>5
  <2>2. current_client_num' \in Nat
    BY <1>1 DEF Seat, TypeOK, TableTypes
  <2>3. TableTypes'
    BY <2>1, <2>2 DEF Accept, TypeOK, TableTypes
  <2>4. maxi' \in -1 .. MaxClients - 1
    BY <1>1, <1>3 DEF Seat, TypeOK, LoopTypes
  <2>5. maxfd' \in {ListenFd} \union Fds /\ allset' \subseteq {ListenFd, StrayFd} \union Fds
    BY <1>1 DEF Seat, TypeOK, LoopTypes
  <2>6. nready' \in Nat /\ pc' \in {"select", "walk"}
    BY <1>7 DEF Accept
  <2>7. LoopTypes'
    BY <2>4, <2>5, <2>6 DEF Accept, TypeOK, LoopTypes
  <2>8. owner' \in [DOMAIN owner' -> Conns]
    BY <1>1 DEF Seat, TypeOK, ClientTypes
  <2>9. ClientTypes'
    BY <2>8 DEF Accept, historyVars, TypeOK, ClientTypes
  <2> QED
    BY <2>3, <2>7, <2>9 DEF TypeOK
<1>9. \A t \in Used : fd'[t] = fd[t]
  BY <1>5, <1>6 DEF Used
<1>10. fd'[s] = d
  BY <1>5
<1>11. {fd'[t] : t \in Used'} = {fd[t] : t \in Used} \union {d}
  BY <1>6, <1>9, <1>10
<1>12. TablesAgree'
  <2>1. current_client_num' = Cardinality(Used') + failed'
    <3>1. Used \in SUBSET Slots
      BY DEF Used
    <3>2. Cardinality(Used \union {s}) = Cardinality(Used) + 1 /\ Cardinality(Used) \in Nat
      BY <1>6, <3>1, Finite, FS_AddElement
    <3>3. failed' = failed /\ failed \in Nat
      BY DEF Accept, historyVars, TypeOK, ClientTypes
    <3> QED
      BY <1>1, <1>6, <3>2, <3>3 DEF Seat, TablesAgree
  <2>2. \A t, u \in Used' : fd'[t] = fd'[u] => t = u
    BY <1>4, <1>6, <1>9, <1>10 DEF TablesAgree
  <2>3. /\ Watched' \subseteq allset'
        /\ allset' \subseteq Watched' \union (IF failed' = 0 THEN {} ELSE {StrayFd})
    <3>1. Watched' = Watched \union {d} /\ failed' = failed
      BY <1>11 DEF Watched, Accept, historyVars
    <3> QED
      BY <1>1, <3>1 DEF Seat, TablesAgree
  <2>4. DOMAIN owner' = {fd'[t] : t \in Used'}
    BY <1>1, <1>11 DEF Seat, TablesAgree
  <2>5. \A t \in Used' : t <= maxi' /\ fd'[t] <= maxfd'
    <3>1. maxi' \in Int /\ maxi <= maxi' /\ s <= maxi'
      BY <1>1, <1>3 DEF Seat
    <3>2. maxfd \in Int /\ maxfd' \in Int /\ d \in Int /\ maxfd <= maxfd' /\ d <= maxfd'
      BY <1>1, <1>3 DEF Seat, TypeOK, LoopTypes, Fds, ListenFd
    <3>3. \A t \in Used : t \in Int /\ fd[t] \in Int /\ t <= maxi /\ fd[t] <= maxfd
      BY <1>3, <1>5 DEF TablesAgree, Used, Fds, NoFd
    <3> QED
      BY <1>3, <1>6, <1>9, <1>10, <3>1, <3>2, <3>3
  <2> QED
    BY <2>1, <2>2, <2>3, <2>4, <2>5 DEF TablesAgree
<1>13. RoundInv'
  <2>1. UNCHANGED <<rset, unserved, i>> /\ nready' = nready - 1
    BY DEF Accept
  <2>2. CASE nready <= 1
    <3>1. pc' = "select"
      BY <2>2 DEF Accept
    <3>2. nready - 1 = 0
      BY <1>7, <2>2
    <3>3. unserved = {}
      <4>1. unserved \in SUBSET ({ListenFd} \union Fds)
        BY DEF TypeOK, LoopTypes
      <4> QED
        BY <1>7, <3>2, <4>1, Finite, FS_EmptySet
    <3> QED
      BY <2>1, <3>1, <3>3 DEF RoundInv, RoundServed
  <2>3. CASE ~(nready <= 1)
    <3>1. pc' = "walk"
      BY <2>3 DEF Accept
    <3>2. unserved # {}
      <4>1. nready - 1 # 0
        BY <1>7, <2>3
      <4> QED
        BY <1>7, <4>1, FS_EmptySet
    <3>3. {t \in Used' : i' <= t} = Used'
      BY <1>2, <1>3, <2>1 DEF Used
    <3>4. unserved = rset \intersect {fd'[t] : t \in Used'}
      <4>1. rset \ {ListenFd} \subseteq {fd[t] : t \in Used}
        BY <1>2 DEF TablesAgree
      <4>2. ListenFd \notin {fd[t] : t \in Used} \union {d}
        BY <1>3, <1>5 DEF Used
      <4> QED
        BY <1>2, <1>4, <1>11, <4>1, <4>2
    <3> QED
      BY <1>7, <2>1, <3>1, <3>2, <3>3, <3>4 DEF RoundInv, RoundServed
  <2> QED
    BY <1>7, <2>2, <2>3
<1>14. ChannelsListed'
  BY DEF Accept, ChannelsListed, Listed
<1> QED
  BY <1>8, <1>12, <1>13, <1>14

\* accept fails: the slot it would have taken stays free, one more failure is
\* counted, and one more bit may be set in allset.
LEMMA AcceptFailsInv == IrcInv /\ AcceptFails => IrcInv'
<1> SUFFICES ASSUME IrcInv, AcceptFails PROVE IrcInv'
  OBVIOUS
<1> USE DEF IrcInv
<1>1. PICK s \in Slots : IsFirstFree(s) /\ maxi' = IF s > maxi THEN s ELSE maxi
  BY DEF AcceptFails
<1>2. /\ rset \subseteq {ListenFd} \union DOMAIN owner
      /\ ListenFd \in rset
      /\ unserved = rset \ {ListenFd}
      /\ nready = Cardinality(rset)
      /\ i = 0
  BY DEF AcceptFails, RoundInv
<1>3. /\ UNCHANGED <<fd, name, cur_ch, joined_ch, maxfd, rset, unserved, sent, spoilt,
                     ch_list, cleared, owner, i>>
      /\ failed' = failed + 1
      /\ current_client_num' = current_client_num + 1
      /\ allset' = allset \union {StrayFd}
      /\ nready' = nready - 1
      /\ pc' \in {IF nready <= 1 THEN "select" ELSE "walk", "killed"}
  BY DEF AcceptFails
<1>4. failed \in Nat /\ current_client_num \in Nat /\ maxi \in -1 .. MaxClients - 1
      /\ \A t \in Slots : t \in Int /\ 0 <= t /\ t <= MaxClients - 1
  BY ConstAssumption DEF Slots, TypeOK, TableTypes, LoopTypes, ClientTypes
<1>5. maxi' \in -1 .. MaxClients - 1 /\ maxi <= maxi'
  BY <1>1, <1>4
<1>6. nready \in Nat \ {0} /\ nready - 1 = Cardinality(unserved) /\ IsFiniteSet(unserved)
  <2>1. rset \in SUBSET ({ListenFd} \union Fds)
    BY DEF TypeOK, LoopTypes
  <2>2. IsFiniteSet(rset) /\ Cardinality(rset) \in Nat
    BY <2>1, Finite
  <2>3. Cardinality(rset) # 0
    BY <1>2, <2>2, FS_EmptySet
  <2>4. Cardinality(rset \ {ListenFd}) = Cardinality(rset) - 1 /\ IsFiniteSet(rset \ {ListenFd})
    BY <1>2, <2>2, FS_RemoveElement
  <2> QED
    BY <1>2, <2>2, <2>3, <2>4
<1>7. TypeOK'
  <2>1. TableTypes'
    BY <1>3, <1>4 DEF TypeOK, TableTypes
  <2>2. nready' \in Nat /\ pc' \in {"select", "walk", "killed"}
    BY <1>3, <1>6
  <2>3. LoopTypes'
    BY <1>3, <1>5, <2>2 DEF TypeOK, LoopTypes
  <2>4. backlog' \subseteq Conns
        /\ link' \in [Conns -> {"none", "up", "closed", "reset", "gone"}]
        /\ inbox' \in [Conns -> Seq(Commands)]
    <3>1. CASE UNCHANGED <<backlog, link, inbox>>
      BY <3>1 DEF TypeOK, ClientTypes
    <3>2. CASE \E c \in backlog : /\ backlog' = backlog \ {c}
                                  /\ link' = [link EXCEPT ![c] = "gone"]
                                  /\ inbox' = [inbox EXCEPT ![c] = <<>>]
      <4>1. <<>> \in Seq(Commands)
        OBVIOUS
      <4> QED
        BY <3>2, <4>1 DEF TypeOK, ClientTypes
    <3> QED
      BY <3>1, <3>2 DEF AcceptFails
  <2>5. failed' \in Nat
    BY <1>3, <1>4
  <2>6. ClientTypes'
    BY <1>3, <2>4, <2>5 DEF TypeOK, ClientTypes
  <2> QED
    BY <2>1, <2>3, <2>6 DEF TypeOK
<1>8. Used' = Used /\ Watched' = Watched
  BY <1>3 DEF Used, Watched
<1>9. TablesAgree'
  <2>1. current_client_num' = Cardinality(Used') + failed'
    <3>1. Cardinality(Used) \in Nat
      BY Finite DEF Used
    <3> QED
      BY <1>3, <1>4, <1>8, <3>1 DEF TablesAgree
  <2>2. failed' # 0
    BY <1>3, <1>4
  <2>3. /\ Watched' \subseteq allset'
        /\ allset' \subseteq Watched' \union (IF failed' = 0 THEN {} ELSE {StrayFd})
    BY <1>3, <1>8, <2>2 DEF TablesAgree
  <2>4. \A t \in Used' : t <= maxi' /\ fd'[t] <= maxfd'
    <3>1. maxi \in Int /\ maxi' \in Int
      BY <1>4, <1>5
    <3>2. \A t \in Used : t \in Int /\ t <= maxi
      BY <1>4 DEF TablesAgree, Used
    <3>3. \A t \in Used : fd'[t] <= maxfd'
      BY <1>3 DEF TablesAgree
    <3> QED
      BY <1>5, <1>8, <3>1, <3>2, <3>3
  <2> QED
    BY <1>3, <1>8, <2>1, <2>3, <2>4 DEF TablesAgree
<1>10. RoundInv'
  <2>1. CASE pc' = "killed"
    BY <2>1 DEF RoundInv, RoundServed
  <2>2. CASE nready <= 1 /\ pc' = "select"
    <3>1. unserved = {}
      <4>1. Cardinality(unserved) = 0
        BY <1>6, <2>2
      <4> QED
        BY <1>6, <4>1, FS_EmptySet
    <3> QED
      BY <1>3, <2>2, <3>1 DEF RoundInv, RoundServed
  <2>3. CASE ~(nready <= 1) /\ pc' = "walk"
    <3>1. unserved # {}
      <4>1. Cardinality(unserved) # 0
        BY <1>6, <2>3
      <4> QED
        BY <4>1, FS_EmptySet
    <3>2. {t \in Used' : i' <= t} = Used
      BY <1>2, <1>3, <1>4, <1>8 DEF Used
    <3>3. unserved = rset \intersect {fd[t] : t \in Used}
      <4>1. rset \ {ListenFd} \subseteq {fd[t] : t \in Used}
        BY <1>2 DEF TablesAgree
      <4>2. ListenFd \notin {fd[t] : t \in Used}
        BY DEF Used, TypeOK, TableTypes, ListenFd, NoFd, Fds
      <4> QED
        BY <1>2, <4>1, <4>2
    <3>4. unserved' = rset' \intersect {fd'[t] : t \in {t \in Used' : i' <= t}}
      BY <1>3, <3>2, <3>3
    <3> QED
      BY <1>3, <1>6, <2>3, <3>1, <3>4 DEF RoundInv, RoundServed
  <2> QED
    BY <1>3, <2>1, <2>2, <2>3
<1>11. ChannelsListed'
  BY <1>3 DEF ChannelsListed, Listed
<1> QED
  BY <1>7, <1>9, <1>10, <1>11

\* A slot that is free, or whose client was not reported, holds none of the
\* clients that are still to be read.
LEMMA SkipInv == IrcInv /\ Skip => IrcInv'
<1> SUFFICES ASSUME IrcInv, Skip PROVE IrcInv'
  OBVIOUS
<1> USE DEF IrcInv
<1>1. UNCHANGED <<tableVars, selectVars, clientVars, historyVars, ch_list, cleared, owner>>
  BY DEF Skip
<1>2. i' \in Slots /\ pc' \in {"select", "walk"}
  BY OnwardType DEF Skip
<1>3. TypeOK'
  BY <1>1, <1>2 DEF tableVars, selectVars, clientVars, historyVars, TypeOK, TableTypes, LoopTypes,
                    ClientTypes
<1>4. TablesAgree'
  BY <1>1 DEF tableVars, selectVars, historyVars, TablesAgree, Watched, Used
<1>5. ChannelsListed'
  BY <1>1 DEF tableVars, ChannelsListed, Listed
<1>6. RoundInv'
  <2>1. /\ pc = "walk"
        /\ fd[i] \notin rset
        /\ unserved = rset \intersect {fd[s] : s \in {t \in Used : i <= t}}
        /\ unserved # {}
        /\ nready = Cardinality(unserved)
    BY DEF Skip, RoundInv
  <2>2. i \in Int /\ maxi \in Int /\ \A t \in Slots : t \in Int
    BY DEF TypeOK, LoopTypes, Slots
  <2>3. unserved = rset \intersect {fd[s] : s \in {t \in Used : i + 1 <= t}}
    <3>1. \A t \in Used : i <= t <=> t = i \/ i + 1 <= t
      BY <2>2 DEF Used
    <3> QED
      BY <2>1, <3>1
  <2>4. PICK s \in Used : i + 1 <= s
    BY <2>1, <2>3
  <2>5. pc' = "walk" /\ i' = i + 1
    <3>1. s \in Int /\ s <= maxi
      BY <2>2, <2>4 DEF TablesAgree, Used
    <3> QED
      BY <2>2, <2>4, <3>1 DEF Skip, Onward
  <2>6. UNCHANGED <<unserved, rset, nready, fd, Used>>
    BY <1>1 DEF selectVars, tableVars, Used
  <2> QED
    BY <2>1, <2>3, <2>5, <2>6 DEF RoundInv, RoundServed
<1> QED
  BY <1>3, <1>4, <1>5, <1>6

\* A process that stops changes nothing but pc.
LEMMA StopInv == IrcInv /\ (SelectFails \/ AcceptOverrun \/ Sigpipe) => IrcInv'
<1> SUFFICES ASSUME IrcInv, SelectFails \/ AcceptOverrun \/ Sigpipe PROVE IrcInv'
  OBVIOUS
<1> USE DEF IrcInv
<1>1. /\ UNCHANGED <<tableVars, selectVars, clientVars, historyVars, ch_list, cleared, i, owner>>
      /\ pc' \in {"overrun", "lost", "killed"}
  BY DEF SelectFails, AcceptOverrun, Sigpipe
<1>2. TypeOK'
  BY <1>1 DEF tableVars, selectVars, clientVars, historyVars, TypeOK, TableTypes, LoopTypes,
              ClientTypes
<1>3. TablesAgree' /\ ChannelsListed'
  BY <1>1 DEF tableVars, selectVars, historyVars, TablesAgree, Watched, Used, ChannelsListed, Listed
<1>4. RoundInv'
  BY <1>1 DEF RoundInv, RoundServed
<1> QED
  BY <1>2, <1>3, <1>4

\* Clients touch only their own end.
LEMMA ClientInv == \A c \in Conns : IrcInv /\ ClientNext(c) => IrcInv'
<1> SUFFICES ASSUME NEW c \in Conns, IrcInv, ClientNext(c) PROVE IrcInv'
  OBVIOUS
<1> USE DEF IrcInv
<1>1. UNCHANGED serverVars
  BY DEF ClientNext, Connect, SendCmd, CloseByClient
<1>2. ClientTypes'
  <2>1. owner' \in [DOMAIN owner' -> Conns]
    BY <1>1 DEF serverVars, TypeOK, ClientTypes
  <2>5. failed' \in Nat /\ spoilt' \subseteq Names
    BY <1>1 DEF serverVars, historyVars, TypeOK, ClientTypes
  <2>2. CASE Connect(c)
    BY <2>1, <2>2, <2>5 DEF Connect, TypeOK, ClientTypes
  <2>3. ASSUME NEW m \in Input[c], SendCmd(c, m) PROVE ClientTypes'
    <3>1. m \in Commands
      BY ConstAssumption
    <3>2. inbox' \in [Conns -> Seq(Commands)]
      BY <2>3, <3>1 DEF SendCmd, TypeOK, ClientTypes
    <3> QED
      BY <2>1, <2>3, <2>5, <3>2 DEF SendCmd, TypeOK, ClientTypes
  <2>4. CASE CloseByClient(c)
    BY <2>1, <2>4, <2>5 DEF CloseByClient, TypeOK, ClientTypes
  <2> QED
    BY <2>2, <2>3, <2>4 DEF ClientNext
<1>3. TypeOK'
  BY <1>1, <1>2 DEF serverVars, tableVars, selectVars, TypeOK, TableTypes, LoopTypes
<1>4. TablesAgree' /\ ChannelsListed'
  BY <1>1 DEF serverVars, tableVars, selectVars, historyVars, TablesAgree, Watched, Used,
              ChannelsListed, Listed
<1>5. RoundInv'
  BY <1>1 DEF serverVars, tableVars, selectVars, RoundInv, RoundServed, Used
<1> QED
  BY <1>3, <1>4, <1>5

\* Commands that change no table.
LEMMA AnswerInv == IrcInv /\ Answer => IrcInv'
<1> SUFFICES ASSUME IrcInv, Answer PROVE IrcInv'
  OBVIOUS
<1> USE DEF IrcInv
<1>1. Reading /\ Served /\ Written /\ UNCHANGED <<tableVars, ch_list, allset, owner, spoilt>>
  BY DEF Answer, Reads
<1>2. LoopTypes' /\ ClientTypes'
  BY <1>1, WrittenType, ServedTypes DEF TypeOK, LoopTypes, ClientTypes
<1>3. TypeOK'
  BY <1>1, <1>2 DEF tableVars, TypeOK, TableTypes
<1>4. TablesAgree' /\ ChannelsListed'
  BY <1>1 DEF Served, tableVars, TablesAgree, Watched, Used, ChannelsListed, Listed
<1>5. RoundInv'
  BY <1>1, ServedRound DEF tableVars
<1> QED
  BY <1>3, <1>4, <1>5

\* NICK.
LEMMA NickInv == IrcInv /\ Nick => IrcInv'
<1> SUFFICES ASSUME IrcInv, Nick PROVE IrcInv'
  OBVIOUS
<1> USE DEF IrcInv
<1>1. /\ Reading /\ Served /\ Written
      /\ UNCHANGED <<fd, cur_ch, joined_ch, current_client_num, ch_list, allset, owner, spoilt>>
  BY DEF Nick, Reads
<1>2. LoopTypes' /\ ClientTypes'
  BY <1>1, WrittenType, ServedTypes DEF TypeOK, LoopTypes, ClientTypes
<1>3. name' \in [Slots -> Nicks \union {NoNick} \union Seq(Commands)]
  <2>1. PICK n \in Args : name' = [name EXCEPT ![i] = n]
    BY DEF Nick
  <2>2. n \in Nicks \union Seq(Commands)
    <3>1. Buf[1].cmd = "NICK" /\ Buf[1] \in Commands /\ Args \subseteq {Buf[1].arg} \union Seq(Commands)
      BY BufferArgs DEF Nick
    <3> QED
      BY <3>1, CommandArgs
  <2> QED
    BY <2>1, <2>2 DEF TypeOK, TableTypes
<1>4. TypeOK'
  BY <1>1, <1>2, <1>3 DEF TypeOK, TableTypes
<1>5. TablesAgree' /\ ChannelsListed'
  BY <1>1 DEF Served, TablesAgree, Watched, Used, ChannelsListed, Listed
<1>6. RoundInv'
  BY <1>1, ServedRound
<1> QED
  BY <1>4, <1>5, <1>6

\* JOIN: the channel is listed already, or is appended under a name that is new.
LEMMA JoinInv == IrcInv /\ Join => IrcInv'
<1> SUFFICES ASSUME IrcInv, Join PROVE IrcInv'
  OBVIOUS
<1> USE DEF IrcInv
<1>1. /\ Reading /\ Served /\ Written
      /\ UNCHANGED <<fd, name, current_client_num, allset, owner>>
  BY DEF Join, Reads
<1>3. PICK ch \in Args :
        IF Listed(ch) /\ cur_ch[i] = ch THEN UNCHANGED <<cur_ch, joined_ch, ch_list, spoilt>>
                                        ELSE JoinChannel(ch)
  BY DEF Join
<1>4. ch \in Names
  <2>1. Buf[1].cmd = "JOIN" /\ Buf[1] \in Commands /\ Args \subseteq {Buf[1].arg} \union Seq(Commands)
    BY BufferArgs DEF Join
  <2> QED
    BY <2>1, CommandArgs DEF Names
<1>5. i \in Slots /\ ch_list \in Seq(ChannelRecords) /\ cur_ch \in [Slots -> Names]
      /\ joined_ch \in [Slots -> SUBSET Names]
  BY DEF TypeOK, TableTypes, LoopTypes
<1>2. LoopTypes' /\ ClientTypes'
  <2>1. spoilt \subseteq Names
    BY DEF TypeOK, ClientTypes
  <2>2. spoilt' \subseteq Names
    BY <1>3, <1>4, <2>1 DEF JoinChannel
  <2> QED
    BY <1>1, <2>2, WrittenType, ServedTypes DEF TypeOK, LoopTypes, ClientTypes
<1>6. cur_ch' \in [Slots -> Names] /\ joined_ch' \in [Slots -> SUBSET Names]
      /\ ch_list' \in Seq(ChannelRecords) /\ ChannelsListed'
  <2>1. CASE UNCHANGED <<cur_ch, joined_ch, ch_list, spoilt>>
    BY <1>5, <2>1 DEF ChannelsListed, Listed
  <2>2. CASE JoinChannel(ch)
    <3>1. cur_ch' = [cur_ch EXCEPT ![i] = ch]
          /\ joined_ch' = [joined_ch EXCEPT ![i] = joined_ch[i] \union {ch}]
      BY <2>2 DEF JoinChannel
    <3>2. cur_ch' \in [Slots -> Names] /\ joined_ch' \in [Slots -> SUBSET Names]
      BY <1>4, <1>5, <3>1
    <3>3. \A s \in Slots : \A x \in joined_ch'[s] \union ({cur_ch'[s]} \ {NoChannel}) :
             x = ch \/ x \in joined_ch[s] \union ({cur_ch[s]} \ {NoChannel})
      BY <1>5, <3>1
    <3>4. CASE Listed(ch)
      <4> DEFINE k == First(ch)
                 r == [ch_list[k] EXCEPT !.users = ch_list[k].users + 1]
      <4>1. k \in DOMAIN ch_list /\ ch_list[k].ch_name = ch /\ ch_list[k] \in ChannelRecords
        BY <1>5, <3>4, FirstListed
      <4>2. r \in ChannelRecords /\ r.ch_name = ch
        BY <4>1 DEF ChannelRecords
      <4>3. ch_list' = [ch_list EXCEPT ![k] = r]
        BY <2>2, <3>4 DEF JoinChannel
      <4> HIDE DEF r
      <4>4. /\ ch_list' \in Seq(ChannelRecords)
            /\ DOMAIN ch_list' = DOMAIN ch_list
            /\ \A m \in DOMAIN ch_list : ch_list'[m].ch_name = ch_list[m].ch_name
        BY <3>4, <4>2, <4>3, RecordChanged
      <4> QED
        BY <3>2, <3>3, <3>4, <4>4, NamesKept
    <3>5. CASE ~Listed(ch)
      <4> DEFINE r == [ch_name |-> ch, users |-> 1, topic |-> NoTopic]
      <4>1. r \in ChannelRecords /\ r.ch_name = ch
        BY <1>4 DEF ChannelRecords
      <4>2. ch_list' = Append(ch_list, r)
        BY <2>2, <3>5 DEF JoinChannel
      <4> HIDE DEF r
      <4>3. /\ ch_list' \in Seq(ChannelRecords)
            /\ DOMAIN ch_list' = DOMAIN ch_list \union {Len(ch_list) + 1}
            /\ \A m \in DOMAIN ch_list : ch_list'[m] = ch_list[m] /\ m # Len(ch_list) + 1
            /\ ch_list'[Len(ch_list) + 1] = r
        BY <1>5, <4>1, <4>2
      <4>4. \A x : Listed(x) \/ x = ch => Listed(x)'
        BY <4>1, <4>3 DEF Listed
      <4>5. \A s \in Slots : \A x \in joined_ch'[s] \union ({cur_ch'[s]} \ {NoChannel}) : Listed(x)'
        BY <3>3, <4>4 DEF ChannelsListed
      <4>6. \A j, m \in DOMAIN ch_list' : ch_list'[j].ch_name = ch_list'[m].ch_name => j = m
        <5>1. \A m \in DOMAIN ch_list : ch_list[m].ch_name # ch
          BY <3>5 DEF Listed
        <5> QED
          BY <4>1, <4>3, <5>1 DEF ChannelsListed
      <4> QED
        BY <3>2, <4>3, <4>5, <4>6 DEF ChannelsListed
    <3> QED
      BY <3>4, <3>5
  <2> QED
    BY <1>3, <2>1, <2>2
<1>7. TypeOK'
  BY <1>1, <1>2, <1>6 DEF TypeOK, TableTypes
<1>8. TablesAgree'
  BY <1>1 DEF Served, TablesAgree, Watched, Used
<1>9. RoundInv'
  BY <1>1, ServedRound
<1> QED
  BY <1>6, <1>7, <1>8, <1>9

\* PART.
LEMMA PartInv == IrcInv /\ Part => IrcInv'
<1> SUFFICES ASSUME IrcInv, Part PROVE IrcInv'
  OBVIOUS
<1> USE DEF IrcInv
<1>1. /\ Reading /\ Served /\ Written
      /\ UNCHANGED <<fd, name, current_client_num, allset, owner>>
  BY DEF Part, Reads
<1>2. LoopTypes' /\ ClientTypes'
  <2>1. spoilt \subseteq Names
    BY DEF TypeOK, ClientTypes
  <2>2. Buf[1] \in Commands /\ Buf[1].cmd = "PART"
    BY BufferArgs DEF Part
  <2>3. Buf[1].arg \in Names
    BY <2>2, CommandArgs DEF Names
  <2>4. spoilt' \subseteq Names
    BY <2>1, <2>3 DEF Part
  <2> QED
    BY <1>1, <2>4, WrittenType, ServedTypes DEF TypeOK, LoopTypes, ClientTypes
<1> DEFINE ch == Buf[1].arg
           k == First(ch)
<1>3. /\ cur_ch' = [cur_ch EXCEPT ![i] = IF cur_ch[i] = ch THEN NoChannel ELSE cur_ch[i]]
      /\ joined_ch' = [joined_ch EXCEPT ![i] = joined_ch[i] \ {ch}]
      /\ ch_list' = IF Listed(ch) /\ ch_list[k].users > 0
                    THEN [ch_list EXCEPT ![k] = [ch_list[k] EXCEPT !.users = ch_list[k].users - 1]]
                    ELSE ch_list
  BY DEF Part
<1> HIDE DEF ch
<1>4. i \in Slots /\ ch_list \in Seq(ChannelRecords) /\ cur_ch \in [Slots -> Names]
      /\ joined_ch \in [Slots -> SUBSET Names] /\ NoChannel \in Names
  BY DEF TypeOK, TableTypes, LoopTypes, Names
<1>5. cur_ch' \in [Slots -> Names] /\ joined_ch' \in [Slots -> SUBSET Names]
  BY <1>3, <1>4
<1>6. \A s \in Slots : \A x \in joined_ch'[s] \union ({cur_ch'[s]} \ {NoChannel}) :
         x \in joined_ch[s] \union ({cur_ch[s]} \ {NoChannel})
  BY <1>3, <1>4
<1>7. /\ ch_list' \in Seq(ChannelRecords)
      /\ DOMAIN ch_list' = DOMAIN ch_list
      /\ \A m \in DOMAIN ch_list : ch_list'[m].ch_name = ch_list[m].ch_name
  <2>1. CASE Listed(ch) /\ ch_list[k].users > 0
    <3> DEFINE r == [ch_list[k] EXCEPT !.users = ch_list[k].users - 1]
    <3>1. k \in DOMAIN ch_list /\ ch_list[k].ch_name = ch /\ ch_list[k] \in ChannelRecords
      BY <1>4, <2>1, FirstListed
    <3>2. r \in ChannelRecords /\ r.ch_name = ch
      BY <2>1, <3>1 DEF ChannelRecords
    <3>3. ch_list' = [ch_list EXCEPT ![k] = r]
      BY <1>3, <2>1
    <3> HIDE DEF r
    <3> QED
      BY <2>1, <3>2, <3>3, RecordChanged
  <2>2. CASE ch_list' = ch_list
    BY <1>4, <2>2
  <2> QED
    BY <1>3, <2>1, <2>2
<1>8. TypeOK'
  BY <1>1, <1>2, <1>5, <1>7 DEF TypeOK, TableTypes
<1>9. TablesAgree'
  BY <1>1 DEF Served, TablesAgree, Watched, Used
<1>10. RoundInv'
  BY <1>1, ServedRound
<1>11. ChannelsListed'
  BY <1>6, <1>7, NamesKept
<1> QED
  BY <1>8, <1>9, <1>10, <1>11

\* TOPIC.
LEMMA TopicInv == IrcInv /\ Topic => IrcInv'
<1> SUFFICES ASSUME IrcInv, Topic PROVE IrcInv'
  OBVIOUS
<1> USE DEF IrcInv
<1>1. Reading /\ Served /\ Written /\ UNCHANGED <<tableVars, allset, owner, spoilt>>
  BY DEF Topic, Reads
<1>2. LoopTypes' /\ ClientTypes'
  BY <1>1, WrittenType, ServedTypes DEF TypeOK, LoopTypes, ClientTypes
<1> DEFINE ch == Buf[1].arg
           k == First(ch)
           new == IF Len(Buf) = 1 THEN Buf[1].topic ELSE Buf
<1>3. ch_list' = IF Listed(ch) /\ new # NoTopic
                 THEN [ch_list EXCEPT ![k] = [ch_list[k] EXCEPT !.topic = new]]
                 ELSE ch_list
  BY DEF Topic
<1>4. new \in Topics \union {NoTopic} \union Seq(Commands)
  <2>1. Buf \in Seq(Commands) /\ Buf[1] \in Commands /\ Buf[1].cmd = "TOPIC"
    BY BufferArgs DEF Topic
  <2> QED
    BY <2>1, CommandArgs
<1> HIDE DEF ch, new
<1>5. ch_list \in Seq(ChannelRecords)
  BY DEF TypeOK, TableTypes
<1>6. /\ ch_list' \in Seq(ChannelRecords)
      /\ DOMAIN ch_list' = DOMAIN ch_list
      /\ \A m \in DOMAIN ch_list : ch_list'[m].ch_name = ch_list[m].ch_name
  <2>1. CASE Listed(ch) /\ new # NoTopic
    <3> DEFINE r == [ch_list[k] EXCEPT !.topic = new]
    <3>1. k \in DOMAIN ch_list /\ ch_list[k].ch_name = ch /\ ch_list[k] \in ChannelRecords
      BY <1>5, <2>1, FirstListed
    <3>2. r \in ChannelRecords /\ r.ch_name = ch
      BY <1>4, <3>1 DEF ChannelRecords
    <3>3. ch_list' = [ch_list EXCEPT ![k] = r]
      BY <1>3, <2>1
    <3> HIDE DEF r
    <3> QED
      BY <2>1, <3>2, <3>3, RecordChanged
  <2>2. CASE ch_list' = ch_list
    BY <1>5, <2>2
  <2> QED
    BY <1>3, <2>1, <2>2
<1>7. TypeOK'
  BY <1>1, <1>2, <1>6 DEF tableVars, TypeOK, TableTypes
<1>8. TablesAgree'
  BY <1>1 DEF Served, tableVars, TablesAgree, Watched, Used
<1>9. RoundInv'
  BY <1>1, ServedRound DEF tableVars
<1>10. ChannelsListed'
  <2>1. joined_ch' = joined_ch /\ cur_ch' = cur_ch
    BY <1>1 DEF tableVars
  <2> QED
    BY <1>6, <2>1, NamesKept
<1> QED
  BY <1>7, <1>8, <1>9, <1>10

\* QUIT: the slot and its descriptor leave every table together.
LEMMA QuitInv == IrcInv /\ Quit => IrcInv'
<1> SUFFICES ASSUME IrcInv, Quit PROVE IrcInv'
  OBVIOUS
<1> USE DEF IrcInv
<1>1. /\ Reading /\ Served
      /\ UNCHANGED <<cur_ch, ch_list>>
      /\ fd' = [fd EXCEPT ![i] = NoFd]
      /\ name' = [name EXCEPT ![i] = NoNick]
      /\ joined_ch' = [joined_ch EXCEPT ![i] = {}]
      /\ spoilt' = spoilt \union joined_ch[i]
      /\ current_client_num' = current_client_num - 1
      /\ owner' = [d \in DOMAIN owner \ {fd[i]} |-> owner[d]]
      /\ allset' = allset \ {fd[i]}
      /\ link' = [link EXCEPT ![Client] = "gone"]
  BY DEF Quit, Reads
<1>2. /\ i \in Used
      /\ i \in Slots
      /\ fd[i] \in Fds
      /\ Client \in Conns
      /\ current_client_num \in Nat \ {0}
      /\ fd \in [Slots -> Fds \union {NoFd}]
  BY <1>1, ReadingFacts DEF TypeOK, TableTypes, LoopTypes
<1>3. TypeOK'
  <2>1. fd' \in [Slots -> Fds \union {NoFd}] /\ current_client_num' \in Nat
    BY <1>1, <1>2
  <2>2. joined_ch' \in [Slots -> SUBSET Names]
    BY <1>1 DEF TypeOK, TableTypes
  <2>3. name' \in [Slots -> Nicks \union {NoNick} \union Seq(Commands)]
    BY <1>1 DEF TypeOK, TableTypes
  <2>4. TableTypes'
    BY <1>1, <2>1, <2>2, <2>3 DEF TypeOK, TableTypes
  <2>5. allset' \subseteq {ListenFd, StrayFd} \union Fds /\ spoilt' \subseteq Names
    BY <1>1, <1>2 DEF TypeOK, TableTypes, LoopTypes, ClientTypes
  <2>6. link' \in [Conns -> {"none", "up", "closed", "reset", "gone"}]
        /\ owner' \in [DOMAIN owner' -> Conns]
    BY <1>1, <1>2 DEF TypeOK, ClientTypes
  <2>7. LoopTypes' /\ ClientTypes'
    BY <1>1, <2>5, <2>6, ServedTypes
  <2> QED
    BY <2>4, <2>7 DEF TypeOK
<1>4. Used' = Used \ {i}
  <2>1. \A t \in Slots : fd'[t] # NoFd <=> fd[t] # NoFd /\ t # i
    BY <1>1, <1>2
  <2> QED
    BY <2>1 DEF Used
<1>5. \A t \in Used' : fd'[t] = fd[t] /\ fd[t] # fd[i] /\ t \in Used
  BY <1>1, <1>2, <1>4 DEF TablesAgree, Watched, Used
<1>6. {fd'[t] : t \in Used'} = {fd[t] : t \in Used} \ {fd[i]}
  BY <1>4, <1>5
<1>7. TablesAgree'
  <2>1. current_client_num' = Cardinality(Used') + failed' /\ failed' = failed
    <3>1. Used \in SUBSET Slots
      BY DEF Used
    <3>2. Cardinality(Used \ {i}) = Cardinality(Used) - 1 /\ Cardinality(Used) \in Nat
      BY <1>2, <3>1, Finite, FS_RemoveElement
    <3>3. failed' = failed /\ failed \in Nat
      BY <1>1 DEF Served, TypeOK, ClientTypes
    <3> QED
      BY <1>1, <1>4, <3>2, <3>3 DEF TablesAgree
  <2>2. \A t, u \in Used' : fd'[t] = fd'[u] => t = u
    BY <1>5 DEF TablesAgree
  <2>3. ListenFd # fd[i]
    BY <1>2 DEF ListenFd, Fds
  <2>4. /\ Watched' \subseteq allset'
        /\ allset' \subseteq Watched' \union (IF failed' = 0 THEN {} ELSE {StrayFd})
    <3>1. Watched' = Watched \ {fd[i]}
      BY <1>6, <2>3 DEF Watched
    <3> QED
      BY <1>1, <2>1, <3>1 DEF TablesAgree
  <2>5. DOMAIN owner' = {fd'[t] : t \in Used'}
    BY <1>1, <1>6 DEF TablesAgree
  <2>6. \A t \in Used' : t <= maxi' /\ fd'[t] <= maxfd'
    BY <1>1, <1>5 DEF Served, TablesAgree
  <2> QED
    BY <2>1, <2>2, <2>4, <2>5, <2>6 DEF TablesAgree
<1>8. RoundInv'
  BY <1>1, ServedRound
<1>9. ChannelsListed'
  <2>1. \A s \in Slots : joined_ch'[s] \subseteq joined_ch[s] /\ cur_ch'[s] = cur_ch[s]
    BY <1>1 DEF TypeOK, TableTypes
  <2> QED
    BY <1>1, <2>1, NamesKept
<1> QED
  BY <1>3, <1>7, <1>8, <1>9

(***************************************************************************)
(* The theorems.                                                           *)
(***************************************************************************)
\* Every step of the program keeps the invariant.
LEMMA NextInv == IrcInv /\ [Next]_vars => IrcInv'
<1> SUFFICES ASSUME IrcInv, [Next]_vars PROVE IrcInv'
  OBVIOUS
<1>1. CASE UNCHANGED vars
  BY <1>1 DEF vars, tableVars, selectVars, clientVars, historyVars, Watched, IrcInv, TypeOK, TableTypes, LoopTypes,
              ClientTypes, TablesAgree, Watched, Used, RoundInv, RoundServed, ChannelsListed, Listed
<1>2. CASE ServerNext
  BY <1>2, SelectInv, AcceptInv, AcceptFailsInv, StopInv, SkipInv, AnswerInv, NickInv, JoinInv, PartInv,
     TopicInv, QuitInv DEF ServerNext, Handle
<1>3. CASE \E c \in Conns : ClientNext(c)
  BY <1>3, ClientInv
<1> QED
  BY <1>1, <1>2, <1>3 DEF Next

\* The inductive invariant holds of the program.
LEMMA Invariant == Spec => []IrcInv
<1> QED
  BY InitInv, NextInv, PTL DEF Spec

\* main's variables, the tables of slots and channels and the descriptors keep
\* their types, whatever clients send and however they come and go; in
\* particular neither i nor maxi ever leaves client[].
THEOREM TypeCorrect == Spec => []TypeOK
<1>1. IrcInv => TypeOK
  BY DEF IrcInv
<1> QED
  BY <1>1, Invariant, PTL

\* After every step of main's loop the descriptors that select watches, the open
\* ones and those in client[] are the same, and counted by current_client_num.
THEOREM TablesAlwaysAgree == Spec => []TablesAgree
<1>1. IrcInv => TablesAgree
  BY DEF IrcInv
<1> QED
  BY <1>1, Invariant, PTL

\* main never calls select with a client it was told about still unread: the
\* count in nready is exact through the accept and the quits of a round.
THEOREM RoundsServeAll == Spec => []RoundServed
<1>1. IrcInv => RoundServed
  BY DEF IrcInv, RoundInv
<1> QED
  BY <1>1, Invariant, PTL

\* ch_list never holds a channel twice and holds every channel that a client is
\* in, so JOIN, PART and TOPIC, which stop at the first match, find the channel.
THEOREM ChannelsAlwaysListed == Spec => []ChannelsListed
<1>1. IrcInv => ChannelsListed
  BY DEF IrcInv
<1> QED
  BY <1>1, Invariant, PTL

(***************************************************************************)
(* LIST counts whom PRIVMSG reaches, in channels that are not spoilt.      *)
(***************************************************************************)
In(j, ch) == {s \in Slots : ch \in j[s]}

\* Members are finitely many.
LEMMA MembersFinite ==
    ASSUME NEW j, NEW ch
    PROVE  IsFiniteSet(In(j, ch)) /\ Cardinality(In(j, ch)) \in Nat
BY Finite DEF In

\* A step that changes no count, and members only in channels that are spoilt.
LEMMA CountsKept ==
    ASSUME UsersCountMembers, DOMAIN ch_list' = DOMAIN ch_list,
           \A k \in DOMAIN ch_list : /\ ch_list'[k].ch_name = ch_list[k].ch_name
                                     /\ ch_list'[k].users = ch_list[k].users,
           spoilt \subseteq spoilt',
           \A ch : ch \in spoilt' \/ In(joined_ch', ch) = In(joined_ch, ch)
    PROVE  UsersCountMembers'
<1>1. \A k \in DOMAIN ch_list : ch_list[k].ch_name \notin spoilt =>
         ch_list[k].users = Cardinality(In(joined_ch, ch_list[k].ch_name))
  BY DEF UsersCountMembers, Members, In
<1>2. \A k \in DOMAIN ch_list' : ch_list'[k].ch_name \notin spoilt' =>
         ch_list'[k].users = Cardinality(In(joined_ch', ch_list'[k].ch_name))
  BY <1>1
<1> QED
  BY <1>2 DEF UsersCountMembers, Members, In

\* A step that changes the entry of one channel, and the members of no other.
LEMMA CountChanged ==
    ASSUME IrcInv, UsersCountMembers, NEW f \in DOMAIN ch_list, NEW r,
           r.ch_name = ch_list[f].ch_name,
           ch_list' = [ch_list EXCEPT ![f] = r],
           spoilt \subseteq spoilt',
           \A x : x = r.ch_name \/ In(joined_ch', x) = In(joined_ch, x),
           \/ r.ch_name \in spoilt'
           \/ ch_list[f].users = Cardinality(In(joined_ch, r.ch_name))
              => r.users = Cardinality(In(joined_ch', r.ch_name))
    PROVE  UsersCountMembers'
<1>1. ch_list \in Seq(ChannelRecords)
  BY DEF IrcInv, TypeOK, TableTypes
<1>2. /\ DOMAIN ch_list' = DOMAIN ch_list
      /\ ch_list'[f] = r
      /\ \A k \in DOMAIN ch_list : k # f => ch_list'[k] = ch_list[k]
  BY <1>1
<1>3. \A k \in DOMAIN ch_list : ch_list[k].ch_name = r.ch_name => k = f
  BY DEF IrcInv, ChannelsListed
<1>4. \A k \in DOMAIN ch_list : ch_list[k].ch_name \notin spoilt =>
         ch_list[k].users = Cardinality(In(joined_ch, ch_list[k].ch_name))
  BY DEF UsersCountMembers, Members, In
<1>5. r.ch_name \notin spoilt' => r.users = Cardinality(In(joined_ch', r.ch_name))
  BY <1>4
<1>6. \A k \in DOMAIN ch_list' : ch_list'[k].ch_name \notin spoilt' =>
         ch_list'[k].users = Cardinality(In(joined_ch', ch_list'[k].ch_name))
  <2> SUFFICES ASSUME NEW k \in DOMAIN ch_list', ch_list'[k].ch_name \notin spoilt'
               PROVE  ch_list'[k].users = Cardinality(In(joined_ch', ch_list'[k].ch_name))
    OBVIOUS
  <2>1. CASE k = f
    BY <1>2, <1>5, <2>1
  <2>2. CASE k # f
    <3>1. k \in DOMAIN ch_list /\ ch_list'[k] = ch_list[k]
      BY <1>2, <2>2
    <3>2. ch_list[k].ch_name # r.ch_name
      BY <1>3, <2>2, <3>1
    <3>3. In(joined_ch', ch_list[k].ch_name) = In(joined_ch, ch_list[k].ch_name)
      BY <3>2
    <3>4. ch_list[k].ch_name \notin spoilt
      BY <3>1
    <3> QED
      BY <1>4, <3>1, <3>3, <3>4
  <2> QED
    BY <2>1, <2>2
<1> QED
  BY <1>6 DEF UsersCountMembers, Members, In

\* JOIN: a client that was not in the channel is one more member, and a channel
\* that was not listed had none.
LEMMA JoinCounts == IrcInv /\ UsersCountMembers /\ Join => UsersCountMembers'
<1> SUFFICES ASSUME IrcInv, UsersCountMembers, Join PROVE UsersCountMembers'
  OBVIOUS
<1>1. PICK ch \in Args :
        IF Listed(ch) /\ cur_ch[i] = ch
        THEN UNCHANGED <<cur_ch, joined_ch, ch_list, spoilt>>
        ELSE JoinChannel(ch)
  BY DEF Join
<1>2. /\ i \in Slots
      /\ joined_ch \in [Slots -> SUBSET Names]
      /\ ch_list \in Seq(ChannelRecords)
  BY DEF IrcInv, TypeOK, TableTypes, LoopTypes
<1>3. CASE UNCHANGED <<cur_ch, joined_ch, ch_list, spoilt>>
  BY <1>3, CountsKept
<1>4. CASE JoinChannel(ch)
  <2>1. /\ joined_ch' = [joined_ch EXCEPT ![i] = joined_ch[i] \union {ch}]
        /\ spoilt' = IF ch \in joined_ch[i] THEN spoilt \union {ch} ELSE spoilt
    BY <1>4 DEF JoinChannel
  <2>2. \A x : x = ch \/ In(joined_ch', x) = In(joined_ch, x)
    BY <1>2, <2>1 DEF In
  <2>3. ch \in spoilt' \/ Cardinality(In(joined_ch', ch)) = Cardinality(In(joined_ch, ch)) + 1
    <3>1. CASE ch \in joined_ch[i]
      BY <2>1, <3>1
    <3>2. CASE ch \notin joined_ch[i]
      <4>1. In(joined_ch', ch) = In(joined_ch, ch) \union {i} /\ i \notin In(joined_ch, ch)
        BY <1>2, <2>1, <3>2 DEF In
      <4> QED
        BY <4>1, MembersFinite, FS_AddElement
    <3> QED
      BY <3>1, <3>2
  <2>4. CASE Listed(ch)
    <3>1. PICK f : f = First(ch)
      OBVIOUS
    <3>2. f \in DOMAIN ch_list /\ ch_list[f].ch_name = ch /\ ch_list[f] \in ChannelRecords
      BY <1>2, <2>4, <3>1, FirstListed
    <3>3. PICK r : r = [ch_list[f] EXCEPT !.users = ch_list[f].users + 1]
      OBVIOUS
    <3>4. r.ch_name = ch /\ r.users = ch_list[f].users + 1
      BY <3>2, <3>3 DEF ChannelRecords
    <3>5. ch_list' = [ch_list EXCEPT ![f] = r]
      BY <1>4, <2>4, <3>1, <3>3 DEF JoinChannel
    <3>6. spoilt \subseteq spoilt'
      BY <2>1
    <3>7. \/ ch \in spoilt'
          \/ ch_list[f].users = Cardinality(In(joined_ch, ch))
             => r.users = Cardinality(In(joined_ch', ch))
      BY <2>3, <3>4
    <3> QED
      BY <2>2, <3>2, <3>4, <3>5, <3>6, <3>7, CountChanged
  <2>5. CASE ~Listed(ch)
    <3>1. \A s \in Slots : ch \notin joined_ch[s]
      BY <2>5 DEF IrcInv, ChannelsListed
    <3>2. In(joined_ch, ch) = {} /\ spoilt' = spoilt
      BY <1>2, <2>1, <3>1 DEF In
    <3>3. In(joined_ch', ch) = {i}
      BY <1>2, <2>1, <3>1 DEF In
    <3>4. Cardinality(In(joined_ch', ch)) = 1
      BY <3>3, FS_Singleton
    <3>5. PICK r : r = [ch_name |-> ch, users |-> 1, topic |-> NoTopic]
      OBVIOUS
    <3>6. ch_list' = Append(ch_list, r)
      BY <1>4, <2>5, <3>5 DEF JoinChannel
    <3>7. /\ DOMAIN ch_list' = DOMAIN ch_list \union {Len(ch_list) + 1}
          /\ \A k \in DOMAIN ch_list : ch_list'[k] = ch_list[k]
          /\ ch_list'[Len(ch_list) + 1] = r
      BY <1>2, <3>6
    <3>8. \A k \in DOMAIN ch_list : ch_list[k].ch_name # ch
      BY <2>5 DEF Listed
    <3>9. r.ch_name = ch /\ r.users = 1
      BY <3>5
    <3>10. \A k \in DOMAIN ch_list : ch_list[k].ch_name \notin spoilt =>
              ch_list[k].users = Cardinality(In(joined_ch, ch_list[k].ch_name))
      BY DEF UsersCountMembers, Members, In
    <3>11. \A k \in DOMAIN ch_list' : ch_list'[k].ch_name \notin spoilt' =>
              ch_list'[k].users = Cardinality(In(joined_ch', ch_list'[k].ch_name))
      BY <2>2, <3>2, <3>4, <3>7, <3>8, <3>9, <3>10
    <3> QED
      BY <3>11 DEF UsersCountMembers, Members, In
  <2> QED
    BY <2>4, <2>5
<1> QED
  BY <1>1, <1>3, <1>4

\* PART: a member is counted, so its channel is listed and loses one user with
\* it; a client that is no member spoils the channel.
LEMMA PartCounts == IrcInv /\ UsersCountMembers /\ Part => UsersCountMembers'
<1> SUFFICES ASSUME IrcInv, UsersCountMembers, Part PROVE UsersCountMembers'
  OBVIOUS
<1>1. /\ i \in Slots
      /\ joined_ch \in [Slots -> SUBSET Names]
      /\ ch_list \in Seq(ChannelRecords)
  BY DEF IrcInv, TypeOK, TableTypes, LoopTypes
<1>2. PICK ch : ch = Buf[1].arg
  OBVIOUS
<1>3. /\ joined_ch' = [joined_ch EXCEPT ![i] = joined_ch[i] \ {ch}]
      /\ spoilt' = IF ch \in joined_ch[i] THEN spoilt ELSE spoilt \union {ch}
      /\ ch_list' = IF Listed(ch) /\ ch_list[First(ch)].users > 0
                    THEN [ch_list EXCEPT ![First(ch)] =
                            [ch_list[First(ch)] EXCEPT !.users = ch_list[First(ch)].users - 1]]
                    ELSE ch_list
  BY <1>2 DEF Part
<1>4. \A x : x = ch \/ In(joined_ch', x) = In(joined_ch, x)
  BY <1>1, <1>3 DEF In
<1>5. spoilt \subseteq spoilt'
  BY <1>3
<1>6. ch \in spoilt' \/ Cardinality(In(joined_ch', ch)) = Cardinality(In(joined_ch, ch)) - 1
  <2>1. CASE ch \notin joined_ch[i]
    BY <1>3, <2>1
  <2>2. CASE ch \in joined_ch[i]
    <3>1. In(joined_ch', ch) = In(joined_ch, ch) \ {i} /\ i \in In(joined_ch, ch)
      BY <1>1, <1>3, <2>2 DEF In
    <3> QED
      BY <3>1, MembersFinite, FS_RemoveElement
  <2> QED
    BY <2>1, <2>2
<1>7. CASE Listed(ch) /\ ch_list[First(ch)].users > 0
  <2>1. PICK f : f = First(ch)
    OBVIOUS
  <2>2. f \in DOMAIN ch_list /\ ch_list[f].ch_name = ch /\ ch_list[f] \in ChannelRecords
    BY <1>1, <1>7, <2>1, FirstListed
  <2>3. PICK r : r = [ch_list[f] EXCEPT !.users = ch_list[f].users - 1]
    OBVIOUS
  <2>4. r.ch_name = ch /\ r.users = ch_list[f].users - 1
    BY <2>2, <2>3 DEF ChannelRecords
  <2>5. ch_list' = [ch_list EXCEPT ![f] = r]
    BY <1>3, <1>7, <2>1, <2>3
  <2>6. \/ ch \in spoilt'
        \/ ch_list[f].users = Cardinality(In(joined_ch, ch))
           => r.users = Cardinality(In(joined_ch', ch))
    BY <1>6, <2>4
  <2> QED
    BY <1>4, <1>5, <2>2, <2>4, <2>5, <2>6, CountChanged
<1>8. CASE ~(Listed(ch) /\ ch_list[First(ch)].users > 0)
  <2>1. ch_list' = ch_list
    BY <1>3, <1>8
  <2>2. ch \in spoilt'
    <3> SUFFICES ASSUME ch \in joined_ch[i], ch \notin spoilt PROVE FALSE
      BY <1>3
    <3>1. Listed(ch)
      BY <1>1 DEF IrcInv, ChannelsListed
    <3>2. First(ch) \in DOMAIN ch_list /\ ch_list[First(ch)].ch_name = ch
      BY <3>1, FirstListed
    <3>3. ch_list[First(ch)].users = Cardinality(In(joined_ch, ch))
      BY <3>2 DEF UsersCountMembers, Members, In
    <3>4. Cardinality(In(joined_ch, ch)) # 0 /\ Cardinality(In(joined_ch, ch)) \in Nat
      <4>1. i \in In(joined_ch, ch)
        BY <1>1 DEF In
      <4> QED
        BY <4>1, MembersFinite, FS_EmptySet
    <3> QED
      BY <1>8, <3>1, <3>3, <3>4
  <2> QED
    BY <1>4, <1>5, <2>1, <2>2, CountsKept
<1> QED
  BY <1>7, <1>8

\* TOPIC changes no count.
LEMMA TopicCounts == IrcInv /\ UsersCountMembers /\ Topic => UsersCountMembers'
<1> SUFFICES ASSUME IrcInv, UsersCountMembers, Topic PROVE UsersCountMembers'
  OBVIOUS
<1>1. UNCHANGED <<joined_ch, spoilt>>
  BY DEF Topic, tableVars
<1>2. ch_list \in Seq(ChannelRecords)
  BY DEF IrcInv, TypeOK, TableTypes
<1>3. PICK ch : ch = Buf[1].arg
  OBVIOUS
<1>4. PICK new : new = IF Len(Buf) = 1 THEN Buf[1].topic ELSE Buf
  OBVIOUS
<1>5. ch_list' = IF Listed(ch) /\ new # NoTopic
                 THEN [ch_list EXCEPT ![First(ch)].topic = new]
                 ELSE ch_list
  BY <1>3, <1>4 DEF Topic
<1>6. /\ DOMAIN ch_list' = DOMAIN ch_list
      /\ \A k \in DOMAIN ch_list : /\ ch_list'[k].ch_name = ch_list[k].ch_name
                                   /\ ch_list'[k].users = ch_list[k].users
  <2>1. CASE ch_list' = ch_list
    BY <2>1
  <2>2. CASE Listed(ch) /\ new # NoTopic
    <3>1. PICK f : f = First(ch)
      OBVIOUS
    <3>2. f \in DOMAIN ch_list /\ ch_list[f] \in ChannelRecords
      BY <1>2, <2>2, <3>1, FirstListed
    <3>3. PICK r : r = [ch_list[f] EXCEPT !.topic = new]
      OBVIOUS
    <3>4. r.ch_name = ch_list[f].ch_name /\ r.users = ch_list[f].users
      BY <3>2, <3>3 DEF ChannelRecords
    <3>5. ch_list' = [ch_list EXCEPT ![f] = r]
      BY <1>5, <2>2, <3>1, <3>3
    <3> QED
      BY <3>2, <3>4, <3>5
  <2> QED
    BY <1>5, <2>1, <2>2
<1> QED
  BY <1>1, <1>6, CountsKept

\* QUIT: the channels the client was in are spoilt.
LEMMA QuitCounts == IrcInv /\ UsersCountMembers /\ Quit => UsersCountMembers'
<1> SUFFICES ASSUME IrcInv, UsersCountMembers, Quit PROVE UsersCountMembers'
  OBVIOUS
<1>1. /\ joined_ch' = [joined_ch EXCEPT ![i] = {}]
      /\ spoilt' = spoilt \union joined_ch[i]
      /\ ch_list' = ch_list
  BY DEF Quit
<1>2. i \in Slots /\ joined_ch \in [Slots -> SUBSET Names]
  BY DEF IrcInv, TypeOK, TableTypes, LoopTypes
<1>3. \A ch : ch \in spoilt' \/ In(joined_ch', ch) = In(joined_ch, ch)
  BY <1>1, <1>2 DEF In
<1> QED
  BY <1>1, <1>3, CountsKept

\* Every step keeps UsersCountMembers.
LEMMA NextCounts == IrcInv /\ UsersCountMembers /\ [Next]_vars => UsersCountMembers'
<1> SUFFICES ASSUME IrcInv, UsersCountMembers, [Next]_vars PROVE UsersCountMembers'
  OBVIOUS
<1>1. CASE Join \/ Part \/ Topic \/ Quit
  BY <1>1, JoinCounts, PartCounts, TopicCounts, QuitCounts
<1>2. CASE UNCHANGED <<joined_ch, ch_list, spoilt>>
  BY <1>2, CountsKept
<1>3. CASE UNCHANGED vars
  BY <1>2, <1>3 DEF vars, tableVars, historyVars
<1>4. CASE Select \/ SelectFails \/ AcceptFails \/ AcceptOverrun \/ Skip \/ Sigpipe
  BY <1>2, <1>4 DEF Select, SelectFails, AcceptFails, AcceptOverrun, Skip, Sigpipe, tableVars,
                    historyVars
<1>5. CASE Answer \/ Nick
  BY <1>2, <1>5 DEF Answer, Nick, tableVars
<1>6. CASE \E c \in Conns : Accept(c)
  BY <1>2, <1>6 DEF Accept, historyVars
<1>7. CASE \E c \in Conns : ClientNext(c)
  BY <1>2, <1>7 DEF ClientNext, Connect, SendCmd, CloseByClient, serverVars, tableVars, historyVars
<1> QED
  BY <1>1, <1>3, <1>4, <1>5, <1>6, <1>7 DEF Next, ServerNext, Handle

\* However many clients there are, whatever they send and however they come and
\* go, the users LIST reports for a channel are the clients PRIVMSG reaches in
\* it, except in a channel from which a member QUIT, which a member joined again
\* while another was its current one, or which a client left that was not in it.
THEOREM CountsStay == Spec => []UsersCountMembers
<1>1. Init => UsersCountMembers
  BY DEF Init, UsersCountMembers
<1>2. IrcInv /\ UsersCountMembers /\ [Next]_vars => UsersCountMembers'
  BY NextCounts
<1> QED
  BY <1>1, <1>2, Invariant, PTL DEF Spec
=============================================================================
