------------------------------ MODULE DnsServer ------------------------------
(***************************************************************************)
(* The DNS server of hw2 (hw2/dns.cpp, and hw2/demo/dns.cpp, which answers *)
(* TXT as well): one thread that receives a query, answers it from a zone  *)
(* file when a configured domain occurs in the name, and otherwise asks    *)
(* the foreign server and waits for the reply.                             *)
(*                                                                         *)
(* A name is a sequence of labels.  Of a reply the model keeps what the    *)
(* client uses to accept it (id and question) and what the sections say;   *)
(* flags, times to live and the packing of names are left out.  Names have *)
(* less than 50 characters: main copies them into arrays of 50 and 100     *)
(* characters without a test, and a longer one overruns them.              *)
(***************************************************************************)
EXTENDS Naturals, Sequences, FiniteSets, SequencesExt

CONSTANTS
    Clients,
    Asks,      \* what a client may ask: records [name, type]
    Domains,   \* my_domain, in the order of the configuration file
    SuffixPairs, \* the pairs of labels of which the first ends with the second
    Zones,     \* the states of the zone files
    ContentOf, \* what the files of each domain contain in each state
    Demo,      \* TRUE: the server of hw2/demo
    MaxAsked,  \* bound on the queries of a client
    MaxTries,  \* how often a client sends a query that is not answered
    RcvBuf,    \* the queries that fit in the socket buffer
    MaxSocks   \* how many sockets the process may open

Types == {"A", "NS", "CNAME", "SOA", "MX", "TXT", "AAAA"}

\* What a zone file contains that cannot be opened, or has a line that does not
\* fit in the 128 characters of line: getline fails, and never gets to the end.
Unreadable == <<>>

(***************************************************************************)
(* A line of a zone file: its first field, its type, its last field (the   *)
(* parts of its text: the last one is the last character), and whether it  *)
(* ends with a carriage return, which getline keeps.  The data of an NS    *)
(* line is the first label of the name server.  As the documents allow,    *)
(* zone files are in the right format: they begin with SOA and have NS;    *)
(* and, as those of the repository, they do not end with an empty line.    *)
(***************************************************************************)
Line == [name : STRING, type : Types, data : Seq(STRING) \ {<<>>}, cr : BOOLEAN]

ASSUME ConstAssumption ==
    /\ Asks \subseteq [name : Seq(STRING) \ {<<>>}, type : Types]
    /\ Domains \in Seq(Seq(STRING) \ {<<>>})
    /\ ContentOf \in [Zones -> [1 .. Len(Domains) -> Seq(Line)]]
    /\ \A z \in Zones : \A d \in 1 .. Len(Domains) :
          ContentOf[z][d] # Unreadable =>
             /\ ContentOf[z][d][1].name = "@" /\ ContentOf[z][d][1].type = "SOA"
             /\ \E l \in ToSet(ContentOf[z][d]) : l.name = "@" /\ l.type = "NS"
    /\ Demo \in BOOLEAN
    /\ {MaxAsked, MaxTries, RcvBuf, MaxSocks} \subseteq Nat

VARIABLES
    zone,      \* the zone files as they are on the disk
    inbox,     \* the queries in the buffer of the server's socket
    pc,        \* the call the server is in
    cur,       \* header, question and csin: the query in hand
    zone_src,
    socks,     \* the sockets opened so far for the foreign server
    requests,  \* on the way to the foreign server
    answers,   \* sent by the foreign server: a packet may be repeated
    replied,   \* what was sent to each client
    asked,     \* what each client has asked, by id
    since,     \* the states the zone files were in since it asked
    tries      \* how often it has sent its last query

serverVars == <<inbox, pc, cur, zone_src, socks, replied>>
foreignVars == <<requests, answers>>
clientVars == <<asked, since, tries>>
vars == <<zone, serverVars, foreignVars, clientVars>>

NoQuery == [client |-> CHOOSE c \in Clients : TRUE, id |-> 0,
            name |-> <<"">>, type |-> "A"]

Init ==
    /\ zone \in Zones
    /\ inbox = <<>>
    /\ pc = "recv"
    /\ cur = NoQuery
    /\ zone_src = <<>>
    /\ socks = 0
    /\ requests = {}
    /\ answers = {}
    /\ replied = [c \in Clients |-> <<>>]
    /\ asked = [c \in Clients |-> <<>>]
    /\ since = [c \in Clients |-> <<>>]
    /\ tries = [c \in Clients |-> 0]

(***************************************************************************)
(* A definition whose name begins with Bad is a plausible mistake in the   *)
(* definition that follows it: no action uses it, and a property is known  *)
(* to fail when it takes the place of the definition.                      *)
(***************************************************************************)

-----------------------------------------------------------------------------
(* Names.  strstr finds a domain anywhere in the name, even where the      *)
(* first label only ends like the domain's; the first domain found is it.  *)

EndsWith(label, suffix) == label = suffix \/ <<label, suffix>> \in SuffixPairs

Occurs(domain, name) ==
    \E i \in 1 .. 1 + Len(name) - Len(domain) :
        /\ EndsWith(name[i], domain[1])
        /\ \A k \in 2 .. Len(domain) : name[i + k - 1] = domain[k]

\* The index of the domain, 0 if there is none.
Names == {a.name : a \in Asks}
IndexOf == [name \in Names |-> SelectInSeq(Domains, LAMBDA d : Occurs(d, name))]
Own(name) == IndexOf[name] # 0
DomainOf(name) == Domains[IndexOf[name]]

\* sub_domain: the first label of the name, in front of the domain.
SubDomainName(name) == <<Head(name)>> \o DomainOf(name)

-----------------------------------------------------------------------------
(* The lines of a zone file, and the first one of a kind (0: none).        *)

MyLines(src) == SelectSeq(src, LAMBDA l : l.name = "@")
HostLines(src) == SelectSeq(src, LAMBDA l : l.name # "@")

NameServer(src) ==
    LET at == SelectInSeq(MyLines(src), LAMBDA l : l.type = "NS")
    IN  MyLines(src)[at].data

AuthIndex(src) ==
    LET server == NameServer(src)
    IN  SelectInSeq(HostLines(src), LAMBDA l : <<l.name>> = server)

\* The first line of a host and type, in the file.
BadHostIndex(src, label, type) ==
    SelectInSeq(src, LAMBDA l : l.name # "@" /\ l.name = label)
HostIndex(src, label, type) ==
    SelectInSeq(src, LAMBDA l : l.name # "@" /\ l.name = label /\ l.type = type)

TxtIndex(src) == SelectInSeq(MyLines(src), LAMBDA l : l.type = "TXT")

\* The last field of a line, as strtok finds it.
LastField(line) == IF line.cr THEN Append(line.data, "CR") ELSE line.data

(***************************************************************************)
(* The text that is taken for the address of a line.  The code removes its *)
(* last character, which is the carriage return if the line has one;       *)
(* without it, the address loses a character: it is another one, or none,  *)
(* and then the reply holds what was on the stack, as it does when the     *)
(* address is of the other family.                                         *)
(***************************************************************************)
Address(line, type) ==
    IF line.type = type THEN Front(LastField(line)) ELSE <<"junk">>

Record(name, type, data) == [name |-> name, type |-> type, data |-> data]

Reply(q, name, type, answer, authority, additional) ==
    [id |-> q.id, question |-> [name |-> name, type |-> type],
     answer |-> answer, authority |-> authority, additional |-> additional]

SoaRecord(q, src) == Record(DomainOf(q.name), "SOA", src[1].data)
NsRecord(q, src) == Record(DomainOf(q.name), "NS", NameServer(src))

\* No such address: SOA as authority.  The question is always one for A.
NoAddress(q, src) ==
    Reply(q, IF q.name # DomainOf(q.name) THEN SubDomainName(q.name)
             ELSE DomainOf(q.name),
          "A", {}, {SoaRecord(q, src)}, {})

ReplyA(q, src) ==
    LET at == HostIndex(src, Head(q.name), "A")
        name == SubDomainName(q.name)
    IN  IF at = 0 THEN NoAddress(q, src)
        ELSE Reply(q, name, "A",
                   {Record(name, "A", Address(src[at], "A"))},
                   {NsRecord(q, src)}, {})

ReplyAAAA(q, src) ==
    LET at == HostIndex(src, Head(q.name), "AAAA")
        name == SubDomainName(q.name)
    IN  IF at = 0 THEN NoAddress(q, src)
        ELSE Reply(q, name, "AAAA",
                   {Record(name, "AAAA", Address(src[at], "AAAA"))},
                   {}, {})

\* Whatever name was asked for, the name server of the domain.
ReplyNS(q, src) ==
    LET at == AuthIndex(src)
        server == NameServer(src) \o DomainOf(q.name)
    IN  Reply(q, DomainOf(q.name), "NS", {NsRecord(q, src)}, {},
              {Record(server, "A",
                      IF at = 0 THEN <<"junk">>
                      ELSE Address(HostLines(src)[at], "A"))})

ReplySOA(q, src) ==
    Reply(q, DomainOf(q.name), "SOA", {SoaRecord(q, src)}, {NsRecord(q, src)}, {})

ReplyTXT(q, src) ==
    LET at == TxtIndex(src)
    IN  Reply(q, DomainOf(q.name), "TXT",
              {Record(DomainOf(q.name), "TXT",
                      IF at = 0 THEN <<"junk">> ELSE MyLines(src)[at].data)}, {}, {})

\* What the server sends: nothing for the types it does not know.
Replies(q, src) ==
    CASE q.type = "A" -> <<ReplyA(q, src)>>
      [] q.type = "AAAA" -> <<ReplyAAAA(q, src)>>
      [] q.type = "NS" -> <<ReplyNS(q, src)>>
      [] q.type = "SOA" -> <<ReplySOA(q, src)>>
      [] q.type = "TXT" /\ Demo -> <<ReplyTXT(q, src)>>
      [] OTHER -> <<>>

(***************************************************************************)
(* An index that is set only when a line matches is used all the same, or  *)
(* an index into the host lines is used for the lines of the domain.  What *)
(* it then reads is not defined: the process may die, or go on with junk.  *)
(***************************************************************************)
WildIndex(q, src) ==
    \/ q.type = "A" /\ HostIndex(src, Head(q.name), "A") # 0 /\ AuthIndex(src) = 0
    \/ q.type = "SOA" /\ AuthIndex(src) = 0
    \/ q.type = "NS" /\ AuthIndex(src) \notin 1 .. Len(MyLines(src))
    \/ q.type = "TXT" /\ Demo /\ TxtIndex(src) = 0

-----------------------------------------------------------------------------
(* The server: one round of its loop is Recv, then ReadZone and Answer, or *)
(* Forward and Relay.                                                      *)

Recv ==
    /\ pc = "recv"
    /\ inbox # <<>>
    /\ cur' = Head(inbox)
    /\ inbox' = Tail(inbox)
    /\ pc' = IF Own(Head(inbox).name) THEN "zone" ELSE "forward"
    /\ UNCHANGED <<zone, zone_src, socks, replied, foreignVars, clientVars>>

\* The loop that reads a file never sees its end when a getline fails before it.
ReadZone ==
    /\ pc = "zone"
    /\ LET file == ContentOf[zone][IndexOf[cur.name]]
       IN  IF file = Unreadable
           THEN pc' = "spin" /\ UNCHANGED zone_src
           ELSE pc' = "answer" /\ zone_src' = zone_src \o file
    /\ UNCHANGED <<zone, inbox, cur, socks, replied, foreignVars, clientVars>>

\* zone_src is a local variable of the block.
BadAnswer ==
    /\ pc = "answer"
    /\ replied' = [replied EXCEPT ![cur.client] = @ \o Replies(cur, zone_src)]
    /\ pc' = "recv"
    /\ UNCHANGED <<zone, inbox, cur, zone_src, socks, foreignVars, clientVars>>
Answer ==
    /\ pc = "answer"
    /\ replied' = [replied EXCEPT ![cur.client] = @ \o Replies(cur, zone_src)]
    /\ pc' = "recv"
    /\ zone_src' = <<>>
    /\ UNCHANGED <<zone, inbox, cur, socks, foreignVars, clientVars>>

Crash ==
    /\ pc = "answer"
    /\ WildIndex(cur, zone_src)
    /\ pc' = "down"
    /\ UNCHANGED <<zone, inbox, cur, zone_src, socks, replied, foreignVars, clientVars>>

\* The socket of the n-th query that is passed on.
BadSock(n) == 1
Sock(n) == n

\* No call closes such a socket; when there are no more, main returns.
BadForwardUnchecked ==
    /\ pc = "forward"
    /\ pc' = "wait"
    /\ socks' = socks + 1
    /\ requests' = requests \cup {[sock |-> Sock(socks + 1), query |-> cur]}
    /\ UNCHANGED <<zone, inbox, cur, zone_src, replied, answers, clientVars>>
BadForward ==
    /\ pc = "forward"
    /\ IF socks = MaxSocks
       THEN pc' = "recv" /\ UNCHANGED <<socks, requests>>
       ELSE /\ pc' = "wait"
            /\ socks' = socks + 1
            /\ requests' = requests \cup {[sock |-> Sock(socks + 1), query |-> cur]}
    /\ UNCHANGED <<zone, inbox, cur, zone_src, replied, answers, clientVars>>
Forward ==
    /\ pc = "forward"
    /\ IF socks = MaxSocks
       THEN pc' = "down" /\ UNCHANGED <<socks, requests>>
       ELSE /\ pc' = "wait"
            /\ socks' = socks + 1
            /\ requests' = requests \cup {[sock |-> Sock(socks + 1), query |-> cur]}
    /\ UNCHANGED <<zone, inbox, cur, zone_src, replied, answers, clientVars>>

ForeignReply(q) == Reply(q, q.name, q.type, {Record(q.name, q.type, <<"foreign">>)}, {}, {})

\* Whatever arrives at the socket first goes to csin, who asked last.
Relay ==
    /\ pc = "wait"
    /\ \E m \in answers :
          /\ m.sock = Sock(socks)
          /\ replied' = [replied EXCEPT ![cur.client] =
                            Append(@, ForeignReply(m.query))]
    /\ pc' = "recv"
    /\ UNCHANGED <<zone, inbox, cur, zone_src, socks, foreignVars, clientVars>>

Server == Recv \/ ReadZone \/ Answer \/ Crash \/ Forward \/ Relay

-----------------------------------------------------------------------------
(* The foreign server and the link to it.  An answer in the set may arrive *)
(* again, or never.                                                        *)

ForeignAnswer ==
    \E m \in requests :
        /\ requests' = requests \ {m}
        /\ answers' = answers \cup {m}
        /\ UNCHANGED <<zone, serverVars, clientVars>>

Lose ==
    /\ \E m \in requests \cup answers :
          /\ requests' = requests \ {m}
          /\ answers' = answers \ {m}
    /\ UNCHANGED <<zone, serverVars, clientVars>>

-----------------------------------------------------------------------------
(* The clients (dig), and whoever maintains the zone files.  A query that  *)
(* finds the buffer full, or is lost on the way, does not arrive.          *)

Transmit(q) ==
    \/ Len(inbox) < RcvBuf /\ inbox' = Append(inbox, q)
    \/ UNCHANGED inbox

Ask(c) ==
    /\ Len(asked[c]) < MaxAsked
    /\ \E a \in Asks :
          /\ asked' = [asked EXCEPT ![c] = Append(@, a)]
          /\ Transmit([client |-> c, id |-> Len(asked[c]) + 1,
                       name |-> a.name, type |-> a.type])
    /\ since' = [since EXCEPT ![c] = Append(@, {zone})]
    /\ tries' = [tries EXCEPT ![c] = 1]
    /\ UNCHANGED <<zone, pc, cur, zone_src, socks, replied, foreignVars>>

\* dig sends a query again, with the same id, when no reply has come.
Retry(c) ==
    /\ asked[c] # <<>>
    /\ tries[c] < MaxTries
    /\ tries' = [tries EXCEPT ![c] = @ + 1]
    /\ LET a == Last(asked[c])
       IN  Transmit([client |-> c, id |-> Len(asked[c]),
                     name |-> a.name, type |-> a.type])
    /\ UNCHANGED <<zone, pc, cur, zone_src, socks, replied, foreignVars, asked, since>>

EditZone ==
    /\ zone' \in Zones
    /\ since' = [c \in Clients |-> [k \in DOMAIN since[c] |-> since[c][k] \cup {zone'}]]
    /\ UNCHANGED <<serverVars, foreignVars, asked, tries>>

Next ==
    \/ Server
    \/ ForeignAnswer
    \/ Lose
    \/ \E c \in Clients : Ask(c) \/ Retry(c)
    \/ EditZone

Spec == Init /\ [][Next]_vars

\* The server runs, and the foreign server answers what reaches it.
FairSpec == Spec /\ WF_vars(Server) /\ WF_vars(ForeignAnswer)

-----------------------------------------------------------------------------
(* Properties.                                                             *)

Query == [client : Clients, id : 1 .. MaxAsked,
          name : Names, type : Types]
Packet == [sock : 1 .. MaxSocks, query : Query]

RepliesTyped ==
    /\ DOMAIN replied = Clients
    /\ \A c \in Clients : \A n \in DOMAIN replied[c] :
          /\ replied[c][n].id \in 1 .. MaxAsked
          /\ replied[c][n].question \in [name : Seq(STRING), type : Types]

\* The variables have their types: the server is in one of its calls with a
\* query of a client, and packets belong to sockets it has opened.
TypeOK ==
    /\ zone \in Zones
    /\ inbox \in Seq(Query) /\ Len(inbox) <= RcvBuf
    /\ pc \in {"recv", "zone", "answer", "forward", "wait", "spin", "down"}
    /\ cur \in Query \cup {NoQuery}
    /\ zone_src \in Seq(Line)
    /\ socks \in 0 .. MaxSocks
    /\ requests \subseteq Packet
    /\ answers \subseteq Packet
    /\ RepliesTyped
    /\ asked \in [Clients -> Seq(Asks)]
    /\ since \in [Clients -> Seq(SUBSET Zones)]
    /\ \A c \in Clients : Len(asked[c]) <= MaxAsked /\ Len(since[c]) = Len(asked[c])
    /\ tries \in [Clients -> 0 .. MaxTries \cup {1}]

\* A host of an own domain, one label in front of it.
Direct(name) == Own(name) /\ name = SubDomainName(name)

(***************************************************************************)
(* Every reply answers a query of the client that gets it: it has its id,  *)
(* and the question of a query that was passed on, or the name of a host   *)
(* whose address was asked for.  (The server has one csin for all clients, *)
(* and packets of the foreign server may be late or repeated.)             *)
(***************************************************************************)
Fits(r, as) ==
    /\ r.id \in DOMAIN as
    /\ ~Own(as[r.id].name) => r.question = as[r.id]
    /\ Direct(as[r.id].name) /\ as[r.id].type \in {"A", "AAAA"} =>
          r.question.name = as[r.id].name

Correlated ==
    \A c \in Clients : \A n \in DOMAIN replied[c] : Fits(replied[c][n], asked[c])

\* The lines of a host and a type; those of the domain itself begin with "@".
LinesFor(a, z) ==
    {l \in ToSet(ContentOf[z][IndexOf[a.name]]) :
        l.name # "@" /\ l.name = Head(a.name) /\ l.type = a.type}

Says(z, r, a) ==
    /\ ContentOf[z][IndexOf[a.name]] # Unreadable
    /\ \/ /\ LinesFor(a, z) = {} /\ r.answer = {}
          /\ \E s \in r.authority : s.type = "SOA"
       \/ \E l \in LinesFor(a, z) :
             r.answer = {Record(a.name, a.type, IF l.cr THEN l.data ELSE Front(l.data))}

(***************************************************************************)
(* The reply to a query for the address of a host is what the zone file    *)
(* said at some time since the query was asked: one of its addresses, and  *)
(* SOA only if it has none.  The address of a line that ends with a        *)
(* carriage return is whole; that of a line without one, as all lines of   *)
(* the zone files in the repository, lacks its last character, whatever    *)
(* the file.  (zone_src must not keep lines of an earlier query, and the   *)
(* line must be of the host and of the type.)                              *)
(***************************************************************************)
AddressFromZone ==
    \A c \in Clients : \A n \in DOMAIN replied[c] :
        LET r == replied[c][n]
            a == asked[c][r.id]
        IN  Direct(a.name) /\ a.type \in {"A", "AAAA"} =>
              \E z \in since[c][r.id] : Says(z, r, a)

\* What makes AddressFromZone inductive: zone_src is empty but for the query in
\* hand, and then it is what a file has said since that query was asked.
ZoneInv ==
    /\ pc \notin {"answer", "down"} => zone_src = <<>>
    /\ pc = "answer" => \E z \in since[cur.client][cur.id] :
         zone_src = ContentOf[z][IndexOf[cur.name]] /\ zone_src # Unreadable
    /\ \A c \in Clients : \A k \in DOMAIN asked[c] : zone \in since[c][k]

\* A query of client c with id k has arrived.
Pending(c, k) == \E q \in ToSet(inbox) : q.client = c /\ q.id = k

\* It is passed on, or of a type that the server has a branch for: an own query
\* of another type (CNAME, MX, and TXT but for the demo) is dropped.
Handled(c, k) ==
    LET a == asked[c][k]
    IN  ~Own(a.name) \/ a.type \in {"A", "AAAA", "NS", "SOA"} \/ (a.type = "TXT" /\ Demo)

Answered(c, k) == \E n \in DOMAIN replied[c] : replied[c][n].id = k

\* The server waits for a packet that was lost, reads a file that is not
\* there, or has died.
HeldUp ==
    \/ pc \in {"spin", "down"}
    \/ pc = "wait" /\ \A m \in requests \cup answers : m.sock # Sock(socks)

\* Every query that arrives and that the server has a branch for is answered,
\* whatever was lost on the way to the clients, however full the buffer is and
\* whatever was asked before, unless the server is held up.
Served ==
    \A c \in Clients : \A k \in 1 .. MaxAsked :
        (Pending(c, k) /\ Handled(c, k)) ~> (Answered(c, k) \/ HeldUp)

\* "Your server can handle the 7 type values listed above": every query that
\* arrives is answered, of whatever type, unless the server is held up.
TypesAnswered ==
    \A c \in Clients : \A k \in 1 .. MaxAsked :
        Pending(c, k) ~> (Answered(c, k) \/ HeldUp)

\* "Your DNS server should respond to a query if a queried domain is handled
\* by your server": a query for a host of an own domain that arrives is
\* answered (a foreign reply that is lost must not prevent it).
OwnAnswered ==
    \A c \in Clients : \A k \in 1 .. MaxAsked :
        (Pending(c, k) /\ Direct(asked[c][k].name)) ~> Answered(c, k)

=============================================================================
