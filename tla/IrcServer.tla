------------------------------ MODULE IrcServer ------------------------------
(***************************************************************************)
(* The IRC server of hw1/server.cpp: one process that waits in select(),   *)
(* accepts at most one connection per round into client[], and reads each  *)
(* ready client once.  What one read() returns is taken as one command,    *)
(* whatever else the client had sent by then.                              *)
(*                                                                         *)
(* A client is a connection; descriptors are the small integers the kernel *)
(* hands out, lowest free first, and are used again after close().         *)
(***************************************************************************)
EXTENDS Integers, Sequences, FiniteSets

CONSTANTS
    Conns,      \* connections that may be made
    NoConn,     \* no connection
    MaxClients, \* MAX_CLIENT_NUM
    Channels,   \* channel names
    NoChannel,  \* the empty string, as a channel name
    Nicks,      \* nicknames
    NoNick,     \* the empty string, as a nickname
    Topics,     \* topics of channels
    NoTopic,    \* the empty string, as a topic
    Input,      \* the commands each client may send
    Closers,    \* the clients that may close without QUIT
    StrayFd,    \* the descriptor whose bit FD_SET(-1) sets
    MaxFailures, \* bound: number of times accept() fails
    MaxSends    \* bound: number of commands the clients send

Commands ==
    [cmd : {"NICK"}, arg : Nicks]
    \union [cmd : {"JOIN", "PART", "PRIVMSG"}, arg : Channels]
    \union [cmd : {"TOPIC"}, arg : Channels, topic : Topics \union {NoTopic}]
    \union [cmd : {"ASK",      \* PING, LIST, USERS
                   "USER",     \* what gets no reply: USER, DEBUG, unknown commands
                   "QUIT"}]

ASSUME ConstAssumption ==
    /\ NoConn \notin Conns
    /\ MaxClients \in Nat \ {0}
    /\ NoChannel \notin Channels
    /\ Input \in [Conns -> SUBSET Commands]
    /\ Closers \subseteq Conns
    /\ StrayFd \in Nat \ {0}
    /\ MaxFailures \in Nat
    /\ MaxSends \in Nat

Slots == 0 .. MaxClients - 1

\* Descriptors; one more than there are slots is never needed at once.
Fds == 1 .. MaxClients + 1
ListenFd == 0
NoFd == -1

VARIABLES
    fd, name, cur_ch, joined_ch,  \* the fields of client[i]
    ch_list,                      \* sequence of [ch_name, users, topic]
    current_client_num,
    maxi, maxfd, allset, rset, nready,
    cleared,                      \* buf was zeroed: something was read before
    pc, i,                        \* where main is: the call, and the loop index
    owner,                        \* the connection behind each open descriptor
    backlog,                      \* connections that wait for accept
    link,                         \* the client's end of each connection
    inbox,                        \* what each client sent and is not yet read
    sent,                         \* how many commands the clients sent
    unserved,                     \* history: reported descriptors not yet read
    failed,                       \* history: how often accept() failed
    spoilt                        \* history: channels that a member QUIT from or
                                  \* joined again, or a non-member parted from

tableVars  == <<fd, name, cur_ch, joined_ch, current_client_num>>
selectVars == <<maxi, maxfd, allset, rset, nready, unserved>>
clientVars == <<backlog, link, inbox, sent>>
historyVars == <<failed, spoilt>>
vars == <<tableVars, selectVars, clientVars, historyVars, ch_list, cleared, pc, i, owner>>

Init ==
    /\ fd = [s \in Slots |-> NoFd]
    /\ name = [s \in Slots |-> NoNick]
    /\ cur_ch = [s \in Slots |-> NoChannel]
    /\ joined_ch = [s \in Slots |-> {}]
    /\ ch_list = <<>>
    /\ current_client_num = 0
    /\ maxi = -1
    /\ maxfd = ListenFd
    /\ allset = {ListenFd}
    /\ rset = {}
    /\ nready = 0
    /\ unserved = {}
    /\ cleared = FALSE
    /\ pc = "select"
    /\ i = 0
    /\ owner = [d \in {} |-> NoConn]
    /\ backlog = {}
    /\ link = [c \in Conns |-> "none"]
    /\ inbox = [c \in Conns |-> <<>>]
    /\ sent = 0
    /\ failed = 0
    /\ spoilt = {}

Used == {s \in Slots : fd[s] # NoFd}

(***************************************************************************)
(* A definition whose name begins with Bad is a plausible mistake in the   *)
(* definition that follows it: no action uses it, and a property is known  *)
(* to fail when it takes the place of the definition.                      *)
(***************************************************************************)

(***************************************************************************)
(* The main loop: select, accept, and the walk over client[].              *)
(***************************************************************************)
\* A descriptor is ready when its client sent something or has gone.
Readable(d) == inbox[owner[d]] # <<>> \/ link[owner[d]] \in {"closed", "reset"}

Ready == {d \in allset \intersect DOMAIN owner : d <= maxfd /\ Readable(d)}
         \union (IF backlog = {} THEN {} ELSE {ListenFd})

\* A watched descriptor that is not open; select looks at those up to maxfd.
NotOpen == \E d \in allset \ {ListenFd} : d <= maxfd /\ d \notin DOMAIN owner

Select ==
    /\ pc = "select"
    /\ ~NotOpen
    /\ Ready # {}
    /\ rset' = Ready
    /\ unserved' = Ready \ {ListenFd}
    /\ nready' = Cardinality(Ready)
    /\ pc' = IF ListenFd \in Ready THEN "accept" ELSE "walk"
    /\ i' = 0
    /\ UNCHANGED <<tableVars, clientVars, historyVars, ch_list, cleared, maxi, maxfd,
                   allset, owner>>

\* select returns -1 at once.  The listening socket counts as ready, nready is
\* below zero: main only accepts until the descriptor is taken.  The model
\* stops here.
SelectFails ==
    /\ pc = "select"
    /\ NotOpen
    /\ pc' = "lost"
    /\ UNCHANGED <<tableVars, selectVars, clientVars, historyVars, ch_list, cleared, i, owner>>

\* What accept returns, and where the search for a slot stops.
IsLowestFd(d) == d \notin DOMAIN owner /\ \A e \in 1 .. d - 1 : e \in DOMAIN owner
IsFirstFree(s) == fd[s] = NoFd /\ \A t \in 0 .. s - 1 : fd[t] # NoFd

\* Taking a slot without counting the client.
BadSeat(c, s, d) ==
    /\ owner' = [e \in DOMAIN owner \union {d} |-> IF e = d THEN c ELSE owner[e]]
    /\ fd' = [fd EXCEPT ![s] = d]
    /\ allset' = allset \union {d}
    /\ maxfd' = IF d > maxfd THEN d ELSE maxfd
    /\ maxi' = IF s > maxi THEN s ELSE maxi
    /\ UNCHANGED current_client_num

\* Connection c gets descriptor d and slot s.
Seat(c, s, d) ==
    /\ owner' = [e \in DOMAIN owner \union {d} |-> IF e = d THEN c ELSE owner[e]]
    /\ fd' = [fd EXCEPT ![s] = d]
    /\ allset' = allset \union {d}
    /\ maxfd' = IF d > maxfd THEN d ELSE maxfd
    /\ maxi' = IF s > maxi THEN s ELSE maxi
    /\ current_client_num' = current_client_num + 1

\* The slot's cur_ch is still what its last client left there.
Accept(c) ==
    /\ pc = "accept"
    /\ c \in backlog
    /\ backlog' = backlog \ {c}
    /\ \E s \in Slots, d \in Fds : IsFirstFree(s) /\ IsLowestFd(d) /\ Seat(c, s, d)
    /\ nready' = nready - 1
    /\ pc' = IF nready <= 1 THEN "select" ELSE "walk"
    /\ UNCHANGED <<name, cur_ch, joined_ch, rset, unserved, cleared,
                   link, inbox, sent, historyVars, ch_list, i>>

\* accept returns -1 and nothing tests for it: the free slot keeps -1 and stays
\* free, but is counted as a client, and FD_SET(-1) sets the bit of another
\* descriptor (a build that checks the argument of FD_SET aborts instead).  The
\* connection stays in the queue when the process is out of descriptors, and is
\* dropped when it was it that failed.
AcceptFails ==
    /\ pc = "accept"
    /\ failed < MaxFailures
    /\ \E s \in Slots : IsFirstFree(s) /\ maxi' = IF s > maxi THEN s ELSE maxi
    /\ failed' = failed + 1
    /\ current_client_num' = current_client_num + 1
    /\ allset' = allset \union {StrayFd}
    /\ nready' = nready - 1
    /\ pc' \in {IF nready <= 1 THEN "select" ELSE "walk", "killed"}
    /\ \/ UNCHANGED <<backlog, link, inbox>>
       \/ \E c \in backlog : /\ backlog' = backlog \ {c}
                            /\ link' = [link EXCEPT ![c] = "gone"]
                            /\ inbox' = [inbox EXCEPT ![c] = <<>>]
    /\ UNCHANGED <<fd, name, cur_ch, joined_ch, maxfd, rset, unserved, sent, spoilt,
                   ch_list, cleared, owner, i>>

\* With every slot taken the search for a free one, which stops at FD_SETSIZE
\* and not at MAX_CLIENT_NUM, leaves the array.  What follows is undefined:
\* the model stops here.
AcceptOverrun ==
    /\ pc = "accept"
    /\ Used = Slots
    /\ pc' = "overrun"
    /\ UNCHANGED <<tableVars, selectVars, clientVars, historyVars, ch_list, cleared, i, owner>>

\* Where the walk goes next: out by break, out at the end, or to the next slot.
Onward(break) ==
    IF break \/ i >= maxi THEN pc' = "select" /\ i' = i
                          ELSE pc' = "walk" /\ i' = i + 1

Skip ==
    /\ pc = "walk"
    /\ fd[i] \notin rset
    /\ Onward(FALSE)
    /\ UNCHANGED <<tableVars, selectVars, clientVars, historyVars, ch_list, cleared, owner>>

(***************************************************************************)
(* Reading one client.                                                     *)
(***************************************************************************)
Reading == pc = "walk" /\ fd[i] \in rset

Client == owner[fd[i]]
Buf == inbox[Client]

\* The command the buffer begins with, if its client has not just gone.
Reads(cmds) == Reading /\ Buf # <<>> /\ Buf[1].cmd \in cmds

\* NICK and JOIN take everything up to the end of the buffer as the name: a
\* second command becomes a part of it, and so does what the stack held if
\* buf was not yet cleared.  Buf stands for any such longer name.
Args == (IF Len(Buf) = 1 THEN {Buf[1].arg} ELSE {})
        \union (IF Len(Buf) = 1 /\ cleared THEN {} ELSE {Buf})

\* The connections the handler writes to.
Recipients ==
    IF Reads({"NICK", "JOIN", "PART", "TOPIC", "ASK"}) THEN {Client}
    ELSE IF Reads({"PRIVMSG"})
         THEN {owner[fd[j]] : j \in {k \in Used \ {i} : Buf[1].arg \in joined_ch[k]}}
         ELSE {}

\* Ending the walk with one ready client still unread.
BadServed ==
    /\ inbox' = [inbox EXCEPT ![Client] = <<>>]
    /\ unserved' = unserved \ {fd[i]}
    /\ cleared' = TRUE
    /\ nready' = nready - 1
    /\ Onward(nready <= 2)
    /\ UNCHANGED <<maxi, maxfd, rset, backlog, sent, failed>>

\* What every command has in common: read() empties the socket, the handler
\* writes, and the walk ends when every ready descriptor was read.
Served ==
    /\ inbox' = [inbox EXCEPT ![Client] = <<>>]
    /\ unserved' = unserved \ {fd[i]}
    /\ cleared' = TRUE
    /\ nready' = nready - 1
    /\ Onward(nready <= 1)
    /\ UNCHANGED <<maxi, maxfd, rset, backlog, sent, failed>>

\* Writing to a client that has closed makes its end answer with a reset.
Written == link' = [c \in Conns |-> IF c \in Recipients /\ link[c] = "closed"
                                    THEN "reset" ELSE link[c]]

\* Writing to a connection that was reset may raise SIGPIPE, which nothing
\* catches.
Sigpipe ==
    /\ \E c \in Recipients : link[c] = "reset"
    /\ pc' = "killed"
    /\ UNCHANGED <<tableVars, selectVars, clientVars, historyVars, ch_list, cleared, i, owner>>

BadListed(ch) == \E k \in 1 .. Len(ch_list) - 1 : ch_list[k].ch_name = ch   \* the last one is missed

Listed(ch) == \E k \in DOMAIN ch_list : ch_list[k].ch_name = ch
First(ch) == CHOOSE k \in DOMAIN ch_list :
                 /\ ch_list[k].ch_name = ch
                 /\ \A m \in 1 .. k - 1 : ch_list[m].ch_name # ch

(***************************************************************************)
(* The commands.                                                           *)
(***************************************************************************)
\* A client that has gone reads as no command at all and keeps its slot; the
\* other commands here change no table.
Answer ==
    /\ \/ Reading /\ Buf = <<>>
       \/ Reads({"ASK", "USER", "PRIVMSG"})
    /\ Served
    /\ Written
    /\ UNCHANGED <<tableVars, ch_list, allset, owner, spoilt>>

Nick ==
    /\ Reads({"NICK"})
    /\ \E n \in Args : name' = [name EXCEPT ![i] = n]
    /\ Served
    /\ Written
    /\ UNCHANGED <<fd, cur_ch, joined_ch, current_client_num, ch_list, allset, owner, spoilt>>

\* The channel exists, or is made with its first user.
JoinChannel(ch) ==
    /\ cur_ch' = [cur_ch EXCEPT ![i] = ch]
    /\ joined_ch' = [joined_ch EXCEPT ![i] = @ \union {ch}]
    /\ ch_list' = IF Listed(ch) THEN [ch_list EXCEPT ![First(ch)].users = @ + 1]
                  ELSE Append(ch_list, [ch_name |-> ch, users |-> 1, topic |-> NoTopic])
    /\ spoilt' = IF ch \in joined_ch[i] THEN spoilt \union {ch} ELSE spoilt

\* "Already in channel" is decided by cur_ch alone.
Join ==
    /\ Reads({"JOIN"})
    /\ \E ch \in Args :
         IF Listed(ch) /\ cur_ch[i] = ch
         THEN UNCHANGED <<cur_ch, joined_ch, ch_list, spoilt>>
         ELSE JoinChannel(ch)
    /\ Served
    /\ Written
    /\ UNCHANGED <<fd, name, current_client_num, allset, owner>>

\* Leaving a channel that stays counted.
BadPart ==
    /\ Reads({"PART"})
    /\ LET ch == Buf[1].arg IN
         /\ cur_ch' = [cur_ch EXCEPT ![i] = IF @ = ch THEN NoChannel ELSE @]
         /\ joined_ch' = [joined_ch EXCEPT ![i] = @ \ {ch}]
         /\ spoilt' = IF ch \in joined_ch[i] THEN spoilt ELSE spoilt \union {ch}
    /\ Served
    /\ Written
    /\ UNCHANGED <<fd, name, current_client_num, ch_list, allset, owner>>

\* The channel loses a user whether or not the client was in it.
Part ==
    /\ Reads({"PART"})
    /\ LET ch == Buf[1].arg IN
         /\ cur_ch' = [cur_ch EXCEPT ![i] = IF @ = ch THEN NoChannel ELSE @]
         /\ joined_ch' = [joined_ch EXCEPT ![i] = @ \ {ch}]
         /\ spoilt' = IF ch \in joined_ch[i] THEN spoilt ELSE spoilt \union {ch}
         /\ ch_list' = IF Listed(ch) /\ ch_list[First(ch)].users > 0
                       THEN [ch_list EXCEPT ![First(ch)].users = @ - 1]
                       ELSE ch_list
    /\ Served
    /\ Written
    /\ UNCHANGED <<fd, name, current_client_num, allset, owner>>

\* Without a topic, and with nothing behind it in the buffer, the command asks
\* for the topic; otherwise the rest of the buffer is the new topic.
Topic ==
    /\ Reads({"TOPIC"})
    /\ LET ch == Buf[1].arg
           new == IF Len(Buf) = 1 THEN Buf[1].topic ELSE Buf
       IN ch_list' = IF Listed(ch) /\ new # NoTopic
                     THEN [ch_list EXCEPT ![First(ch)].topic = new]
                     ELSE ch_list
    /\ Served
    /\ Written
    /\ UNCHANGED <<tableVars, allset, owner, spoilt>>

\* The descriptor stays watched after close().
BadQuit ==
    /\ Reads({"QUIT"})
    /\ fd' = [fd EXCEPT ![i] = NoFd]
    /\ name' = [name EXCEPT ![i] = NoNick]
    /\ joined_ch' = [joined_ch EXCEPT ![i] = {}]
    /\ spoilt' = spoilt \union joined_ch[i]
    /\ current_client_num' = current_client_num - 1
    /\ owner' = [d \in DOMAIN owner \ {fd[i]} |-> owner[d]]
    /\ link' = [link EXCEPT ![Client] = "gone"]
    /\ Served
    /\ UNCHANGED <<cur_ch, ch_list, allset>>

\* quit, close and FD_CLR.  cur_ch stays, and the channels keep their users.
Quit ==
    /\ Reads({"QUIT"})
    /\ fd' = [fd EXCEPT ![i] = NoFd]
    /\ name' = [name EXCEPT ![i] = NoNick]
    /\ joined_ch' = [joined_ch EXCEPT ![i] = {}]
    /\ spoilt' = spoilt \union joined_ch[i]
    /\ current_client_num' = current_client_num - 1
    /\ owner' = [d \in DOMAIN owner \ {fd[i]} |-> owner[d]]
    /\ allset' = allset \ {fd[i]}
    /\ link' = [link EXCEPT ![Client] = "gone"]
    /\ Served
    /\ UNCHANGED <<cur_ch, ch_list>>

(***************************************************************************)
(* The clients.                                                            *)
(***************************************************************************)
serverVars == <<tableVars, selectVars, historyVars, ch_list, cleared, pc, i, owner>>

Connect(c) ==
    /\ link[c] = "none"
    /\ link' = [link EXCEPT ![c] = "up"]
    /\ backlog' = backlog \union {c}
    /\ UNCHANGED <<serverVars, inbox, sent>>

SendCmd(c, m) ==
    /\ link[c] = "up"
    /\ sent < MaxSends
    /\ inbox' = [inbox EXCEPT ![c] = Append(@, m)]
    /\ sent' = sent + 1
    /\ UNCHANGED <<serverVars, backlog, link>>

\* A close is a reset when the client leaves replies unread.
CloseByClient(c) ==
    /\ c \in Closers
    /\ link[c] = "up"
    /\ \E l \in {"closed", "reset"} : link' = [link EXCEPT ![c] = l]
    /\ UNCHANGED <<serverVars, backlog, inbox, sent>>

Handle == Answer \/ Nick \/ Join \/ Part \/ Topic \/ Quit \/ Sigpipe

ServerNext ==
    \/ Select \/ SelectFails
    \/ \E c \in Conns : Accept(c)
    \/ AcceptFails
    \/ AcceptOverrun \/ Skip \/ Handle

ClientNext(c) ==
    \/ Connect(c)
    \/ \E m \in Input[c] : SendCmd(c, m)
    \/ CloseByClient(c)

Running == pc \notin {"overrun", "lost", "killed"}

Next == Running /\ (ServerNext \/ \E c \in Conns : ClientNext(c))

Spec == Init /\ [][Next]_vars

\* The server is one process that runs whenever select has something for it.
\* Nothing makes a client connect, send or close.
FairSpec == Spec /\ WF_vars(Running /\ ServerNext)

(***************************************************************************)
(* Properties.                                                             *)
(***************************************************************************)
Names == Channels \union {NoChannel} \union Seq(Commands)
ChannelRecords == [ch_name : Names, users : Nat,
                   topic : Topics \union {NoTopic} \union Seq(Commands)]

TableTypes ==
    /\ fd \in [Slots -> Fds \union {NoFd}]
    /\ name \in [Slots -> Nicks \union {NoNick} \union Seq(Commands)]
    /\ cur_ch \in [Slots -> Names]
    /\ joined_ch \in [Slots -> SUBSET Names]
    /\ ch_list \in Seq(ChannelRecords)
    /\ current_client_num \in Nat

LoopTypes ==
    /\ maxi \in -1 .. MaxClients - 1
    /\ maxfd \in {ListenFd} \union Fds
    /\ allset \subseteq {ListenFd, StrayFd} \union Fds
    /\ rset \subseteq {ListenFd} \union Fds
    /\ nready \in Nat
    /\ unserved \subseteq Fds
    /\ cleared \in BOOLEAN
    /\ pc \in {"select", "accept", "walk", "overrun", "lost", "killed"}
    /\ i \in Slots

ClientTypes ==
    /\ backlog \subseteq Conns
    /\ link \in [Conns -> {"none", "up", "closed", "reset", "gone"}]
    /\ inbox \in [Conns -> Seq(Commands)]
    /\ sent \in Nat
    /\ owner \in [DOMAIN owner -> Conns]
    /\ failed \in Nat
    /\ spoilt \subseteq Names

\* Every variable keeps its type: no index leaves client[] (the model
\* stops when the array is full, AcceptOverrun) and no counter of main goes below
\* zero.
TypeOK == TableTypes /\ LoopTypes /\ ClientTypes

Watched == {ListenFd} \union {fd[s] : s \in Used}

\* The tables of the main loop tell one story: a descriptor is watched, open and
\* in a slot of client[] at the same time, no two slots share one, the walk's
\* and select's bounds cover them all, and current_client_num counts them.  Every
\* accept() that fails leaves one client too many counted, and may leave one
\* descriptor watched that is in no slot, never anything else.
TablesAgree ==
    /\ current_client_num = Cardinality(Used) + failed
    /\ \A s, t \in Used : fd[s] = fd[t] => s = t
    /\ Watched \subseteq allset
    /\ allset \subseteq Watched \union (IF failed = 0 THEN {} ELSE {StrayFd})
    /\ DOMAIN owner = {fd[s] : s \in Used}
    /\ \A s \in Used : s <= maxi /\ fd[s] <= maxfd

\* main goes back to select only when every client that select reported was
\* read: --nready never ends the walk early, whoever was accepted or quit in
\* the round.
RoundServed == pc = "select" => unserved = {}

\* Why RoundServed is inductive: in the walk, the clients still to be read are
\* those in rset in the slots from i on, and nready counts them.
RoundInv ==
    /\ RoundServed
    /\ pc = "accept" => /\ rset \subseteq {ListenFd} \union DOMAIN owner
                        /\ ListenFd \in rset
                        /\ unserved = rset \ {ListenFd}
                        /\ nready = Cardinality(rset)
                        /\ i = 0
    /\ pc = "walk" => /\ unserved = rset \intersect {fd[s] : s \in {t \in Used : i <= t}}
                      /\ unserved # {}
                      /\ nready = Cardinality(unserved)

\* A channel is listed once, and what a client is in, or was in last, is
\* listed, for a slot that is used again as well.
ChannelsListed ==
    /\ \A j, k \in DOMAIN ch_list : ch_list[j].ch_name = ch_list[k].ch_name => j = k
    /\ \A s \in Slots : \A ch \in joined_ch[s] \union ({cur_ch[s]} \ {NoChannel}) : Listed(ch)

Members(ch) == {s \in Slots : ch \in joined_ch[s]}

\* The number LIST reports for a channel is the number of clients PRIVMSG reaches
\* in it, as long as no member of the channel QUIT or joined it again and no
\* client parted from it that was not in it, whatever happens in other channels
\* and whichever clients vanish.
UsersCountMembers ==
    \A k \in DOMAIN ch_list :
        ch_list[k].ch_name \notin spoilt =>
            ch_list[k].users = Cardinality(Members(ch_list[k].ch_name))

\* A command is read, even while clients that went without QUIT keep their
\* slots and make select return at once for ever.
CommandsRead == \A c \in Conns : inbox[c] # <<>> ~> inbox[c] = <<>> \/ ~Running

\* "JOIN a channel is always a success" (hw1/README.md): the client that sent
\* JOIN alone in its buffer is in the channel when the reply is written.
JoinSucceeds ==
    [][\A ch \in Channels :
         (Join /\ cleared /\ Buf = <<[cmd |-> "JOIN", arg |-> ch]>>) => ch \in joined_ch'[i]]_vars
=============================================================================
