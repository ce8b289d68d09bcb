---------------------------- MODULE MCIrcServer ----------------------------
(***************************************************************************)
(* Instances of IrcServer for TLC: which commands the clients send.        *)
(***************************************************************************)
EXTENDS IrcServer, TLC

CONSTANTS c1, c2, c3, chA, nickA, topicA

JoinA == [cmd |-> "JOIN", arg |-> chA]
PartA == [cmd |-> "PART", arg |-> chA]
PrivmsgA == [cmd |-> "PRIVMSG", arg |-> chA]
NickA == [cmd |-> "NICK", arg |-> nickA]
TopicA == [cmd |-> "TOPIC", arg |-> chA, topic |-> topicA]
QuitCmd == [cmd |-> "QUIT"]

\* Two clients that come, join and go, and a third that may find a free slot, a slot
\* that was used before or none.  Names that JOIN and NICK make of two commands
\* in one buffer are further channels and nicknames.
RoundCommands ==
    [c \in Conns |-> CASE c = c1 -> {JoinA, PartA}
                      [] c = c2 -> {JoinA, NickA, QuitCmd}
                      [] c = c3 -> {PrivmsgA, TopicA}]

JoinQuit == [c \in Conns |-> {JoinA, QuitCmd}]
=============================================================================
