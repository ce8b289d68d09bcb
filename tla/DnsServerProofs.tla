--------------------------- MODULE DnsServerProofs ---------------------------
(***************************************************************************)
(* Type correctness of DnsServer, that every reply answers a query of the  *)
(* client that gets it, and that addresses come from the zone file as it   *)
(* was, for any clients, domains, zone files and bounds, and whatever the  *)
(* link to the foreign server loses or repeats.                            *)
(***************************************************************************)
EXTENDS DnsServer, WellFoundedInduction, SequenceTheorems, TLAPS

(***************************************************************************)
(* Lemmas on names.                                                        *)
(***************************************************************************)
\* A set of natural numbers that is not empty has a least element.
LEMMA SmallestOf ==
    ASSUME NEW I \in SUBSET Nat, I # {}
    PROVE  Min(I) \in I
<1> DEFINE R == OpToRel(<, Nat)
<1>1. IsWellFoundedOn(R, Nat)
  BY NatLessThanWellFounded
<1>2. \A x, y \in Nat : <<x, y>> \in R <=> x < y
  BY DEF OpToRel
<1> HIDE DEF R
<1>3. \E x \in I : \A y \in I : ~ (<<y, x>> \in R)
  BY <1>1, WFMin
<1>4. PICK x \in I : \A y \in I : ~ (<<y, x>> \in R)
  BY <1>3
<1>5. ASSUME NEW y \in I PROVE x =< y
  <2>1. x \in Nat /\ y \in Nat
    OBVIOUS
  <2>2. ~ (y < x)
    BY <1>2, <1>4, <2>1
  <2> QED
    BY <2>1, <2>2
<1> QED
  BY <1>4, <1>5 DEF Min

\* The index of a name is that of a domain that occurs in it, or 0.
LEMMA IndexInRange ==
    ASSUME NEW name \in Names
    PROVE  /\ IndexOf[name] \in 0 .. Len(Domains)
           /\ Own(name) => /\ IndexOf[name] \in 1 .. Len(Domains)
                           /\ Occurs(Domains[IndexOf[name]], name)
<1> DEFINE I == {i \in 1 .. Len(Domains) : Occurs(Domains[i], name)}
<1>1. IndexOf[name] = IF I # {} THEN Min(I) ELSE 0
  BY DEF IndexOf, SelectInSeq
<1>2. Len(Domains) \in Nat
  BY ConstAssumption
<1>3. CASE I # {}
  <2>1. Min(I) \in I
    BY <1>3, SmallestOf
  <2> QED
    BY <1>1, <1>2, <1>3, <2>1
<1>4. CASE I = {}
  BY <1>1, <1>2, <1>4 DEF Own
<1> QED
  BY <1>3, <1>4

\* The name in a reply is a name.
LEMMA SubDomainNameType ==
    ASSUME NEW name \in Names, Own(name)
    PROVE  /\ DomainOf(name) \in Seq(STRING)
           /\ SubDomainName(name) \in Seq(STRING)
<1>1. name \in Seq(STRING) /\ name # <<>>
  BY ConstAssumption DEF Names
<1>2. DomainOf(name) \in Seq(STRING)
  BY IndexInRange, ConstAssumption DEF DomainOf
<1>3. Head(name) \in STRING
  BY <1>1
<1>4. <<Head(name)>> \in Seq(STRING)
  BY <1>3
<1> QED
  BY <1>2, <1>4, ConcatProperties DEF SubDomainName

(***************************************************************************)
(* Lemmas on the replies from a zone file.                                 *)
(***************************************************************************)
\* A reply to q has its id, and asks for a name in the domain of q.
RepliesTo(r, q) ==
    /\ r.id = q.id
    /\ r.question \in [name : {SubDomainName(q.name), DomainOf(q.name)}, type : Types]
    /\ Direct(q.name) /\ q.type \in {"A", "AAAA"} => r.question.name = q.name

LEMMA NoAddressFits ==
    ASSUME NEW q \in Query, NEW src
    PROVE  RepliesTo(NoAddress(q, src), q)
BY DEF RepliesTo, NoAddress, Reply, Types, Direct

LEMMA AddressReplyFits ==
    ASSUME NEW q \in Query, NEW src
    PROVE  /\ RepliesTo(ReplyA(q, src), q)
           /\ RepliesTo(ReplyAAAA(q, src), q)
<1>1. RepliesTo(ReplyA(q, src), q)
  <2>1. CASE HostIndex(src, Head(q.name), "A") = 0
    BY <2>1, NoAddressFits DEF ReplyA
  <2>2. CASE HostIndex(src, Head(q.name), "A") # 0
    BY <2>2 DEF ReplyA, Reply, RepliesTo, Types, Direct
  <2> QED
    BY <2>1, <2>2
<1>2. RepliesTo(ReplyAAAA(q, src), q)
  <2>1. CASE HostIndex(src, Head(q.name), "AAAA") = 0
    BY <2>1, NoAddressFits DEF ReplyAAAA
  <2>2. CASE HostIndex(src, Head(q.name), "AAAA") # 0
    BY <2>2 DEF ReplyAAAA, Reply, RepliesTo, Types, Direct
  <2> QED
    BY <2>1, <2>2
<1> QED
  BY <1>1, <1>2

\* What the server sends from a zone file is at most one reply, to the query.
LEMMA RepliesFit ==
    ASSUME NEW q \in Query, NEW src
    PROVE  Replies(q, src) = <<>> \/ \E r : Replies(q, src) = <<r>> /\ RepliesTo(r, q)
<1>1. CASE q.type = "A"
  BY <1>1, AddressReplyFits DEF Replies
<1>2. CASE q.type = "AAAA"
  BY <1>2, AddressReplyFits DEF Replies
<1>3. CASE q.type = "NS"
  <2>1. RepliesTo(ReplyNS(q, src), q)
    BY <1>3 DEF ReplyNS, Reply, RepliesTo, Types
  <2> QED
    BY <1>3, <2>1 DEF Replies
<1>4. CASE q.type = "SOA"
  <2>1. RepliesTo(ReplySOA(q, src), q)
    BY <1>4 DEF ReplySOA, Reply, RepliesTo, Types
  <2> QED
    BY <1>4, <2>1 DEF Replies
<1>5. CASE q.type = "TXT" /\ Demo
  <2>1. RepliesTo(ReplyTXT(q, src), q)
    BY <1>5 DEF ReplyTXT, Reply, RepliesTo, Types
  <2> QED
    BY <1>5, <2>1 DEF Replies
<1>6. CASE q.type \notin {"A", "AAAA", "NS", "SOA"} /\ ~(q.type = "TXT" /\ Demo)
  BY <1>6 DEF Replies
<1> QED
  BY <1>1, <1>2, <1>3, <1>4, <1>5, <1>6

(***************************************************************************)
(* The inductive invariant.                                                *)
(***************************************************************************)
\* q is a query that its client has asked, as it asked it.
Known(q, as) ==
    /\ q \in Query
    /\ q.id \in DOMAIN as[q.client]
    /\ as[q.client][q.id] = [name |-> q.name, type |-> q.type]

\* What was sent to a client is a sequence.
RepliedSeqs == \E S : replied \in [Clients -> Seq(S)]

\* The buffer holds queries that were asked.
InboxInv == \A n \in DOMAIN inbox : Known(inbox[n], asked)

\* The query in hand was asked, and is handled by the branch it belongs to.
CurInv ==
    /\ pc \in {"zone", "answer", "forward", "wait"} => Known(cur, asked)
    /\ pc \in {"zone", "answer"} => Own(cur.name)
    /\ pc \in {"forward", "wait"} => ~Own(cur.name)

\* A packet at the socket of the query in hand belongs to that query.
SockInv ==
    \A m \in requests \cup answers :
        /\ m.sock \in 1 .. socks
        /\ pc = "wait" /\ m.sock = Sock(socks) => m.query = cur

DnsInv ==
    /\ TypeOK
    /\ RepliedSeqs
    /\ InboxInv
    /\ CurInv
    /\ SockInv
    /\ Correlated

\* The bounds are natural numbers.
LEMMA Bounds == /\ MaxAsked \in Nat /\ MaxTries \in Nat
                /\ RcvBuf \in Nat /\ MaxSocks \in Nat
BY ConstAssumption

\* A client that asks once more still has asked what it asked before.
LEMMA AskedGrows ==
    ASSUME TypeOK, NEW c \in Clients, NEW a \in Asks,
           asked' = [asked EXCEPT ![c] = Append(@, a)]
    PROVE  /\ asked' \in [Clients -> Seq(Asks)]
           /\ Len(asked'[c]) = Len(asked[c]) + 1
           /\ asked'[c][Len(asked[c]) + 1] = a
           /\ \A d \in Clients : d # c => asked'[d] = asked[d]
           /\ \A d \in Clients : \A k \in DOMAIN asked[d] :
                 k \in DOMAIN asked'[d] /\ asked'[d][k] = asked[d][k]
<1>1. asked \in [Clients -> Seq(Asks)]
  BY DEF TypeOK
<1>2. asked'[c] = Append(asked[c], a) /\ \A d \in Clients : d # c => asked'[d] = asked[d]
  BY <1>1
<1>3. asked[c] \in Seq(Asks)
  BY <1>1
<1>4. /\ Append(asked[c], a) \in Seq(Asks)
      /\ Len(Append(asked[c], a)) = Len(asked[c]) + 1
      /\ \A k \in 1 .. Len(asked[c]) : Append(asked[c], a)[k] = asked[c][k]
      /\ Append(asked[c], a)[Len(asked[c]) + 1] = a
  BY <1>3, AppendProperties
<1>5. /\ DOMAIN asked[c] = 1 .. Len(asked[c]) /\ Len(asked[c]) \in Nat
      /\ DOMAIN asked'[c] = 1 .. Len(asked[c]) + 1
  BY <1>2, <1>3, <1>4
<1> QED
  BY <1>1, <1>2, <1>4, <1>5

\* A reply that is sent is appended to what its client got.
LEMMA ReplyAppended ==
    ASSUME RepliedSeqs, NEW c \in Clients, NEW r,
           replied' = [replied EXCEPT ![c] = Append(@, r)]
    PROVE  /\ RepliedSeqs'
           /\ DOMAIN replied' = Clients
           /\ \A d \in Clients : \A n \in DOMAIN replied'[d] :
                \/ n \in DOMAIN replied[d] /\ replied'[d][n] = replied[d][n]
                \/ d = c /\ replied'[d][n] = r
<1>1. PICK S : replied \in [Clients -> Seq(S)]
  BY DEF RepliedSeqs
<1> DEFINE T == S \cup {r}
<1>2. replied \in [Clients -> Seq(T)]
  <2>1. \A d \in Clients : replied[d] \in Seq(T)
    BY <1>1, SeqMonotonic
  <2> QED
    BY <1>1, <2>1
<1>3. /\ Append(replied[c], r) \in Seq(T)
      /\ Len(Append(replied[c], r)) = Len(replied[c]) + 1
      /\ \A n \in 1 .. Len(replied[c]) : Append(replied[c], r)[n] = replied[c][n]
      /\ Append(replied[c], r)[Len(replied[c]) + 1] = r
  BY <1>2, AppendProperties
<1>4. replied' \in [Clients -> Seq(T)]
  BY <1>2, <1>3
<1>5. ASSUME NEW d \in Clients, NEW n \in DOMAIN replied'[d]
      PROVE  \/ n \in DOMAIN replied[d] /\ replied'[d][n] = replied[d][n]
             \/ d = c /\ replied'[d][n] = r
  <2>1. CASE d = c
    <3>1. replied'[d] = Append(replied[c], r)
      BY <1>2, <2>1
    <3>2. Len(replied[c]) \in Nat /\ DOMAIN replied[c] = 1 .. Len(replied[c])
      BY <1>2
    <3>3. n \in 1 .. Len(replied[c]) + 1
      BY <1>3, <3>1
    <3> QED
      BY <1>3, <2>1, <3>1, <3>2, <3>3
  <2>2. CASE d # c
    BY <1>2, <2>2
  <2> QED
    BY <2>1, <2>2
<1> QED
  BY <1>4, <1>5 DEF RepliedSeqs

\* One more reply, to the client it fits, keeps what holds of all replies.
LEMMA ReplySent ==
    ASSUME TypeOK, RepliedSeqs, Correlated,
           NEW c \in Clients, NEW r,
           r.id \in 1 .. MaxAsked,
           r.question \in [name : Seq(STRING), type : Types],
           Fits(r, asked[c]), asked' = asked,
           replied' = [replied EXCEPT ![c] = Append(@, r)]
    PROVE  RepliesTyped' /\ RepliedSeqs' /\ Correlated'
<1>1. /\ RepliedSeqs' /\ DOMAIN replied' = Clients
      /\ \A d \in Clients : \A n \in DOMAIN replied'[d] :
           \/ n \in DOMAIN replied[d] /\ replied'[d][n] = replied[d][n]
           \/ d = c /\ replied'[d][n] = r
  BY ReplyAppended
<1>2. RepliesTyped'
  BY <1>1 DEF TypeOK, RepliesTyped
<1>3. Correlated'
  BY <1>1 DEF Correlated
<1> QED
  BY <1>1, <1>2, <1>3

\* A reply from a zone file fits the query it was made for.
LEMMA OwnReplyFits ==
    ASSUME NEW q, Known(q, asked), Own(q.name), NEW r, RepliesTo(r, q)
    PROVE  /\ r.id \in 1 .. MaxAsked
           /\ r.question \in [name : Seq(STRING), type : Types]
           /\ Fits(r, asked[q.client])
<1>1. q \in Query /\ q.name \in Names /\ q.id \in 1 .. MaxAsked
  BY DEF Known, Query
<1>2. r.question \in [name : Seq(STRING), type : Types]
  BY <1>1, SubDomainNameType DEF RepliesTo
<1>3. Fits(r, asked[q.client])
  <2>1. r.id = q.id /\ q.id \in DOMAIN asked[q.client]
    BY DEF Known, RepliesTo
  <2>2. /\ asked[q.client][q.id].name = q.name
        /\ asked[q.client][q.id].type = q.type
    BY DEF Known
  <2> QED
    BY <2>1, <2>2 DEF Fits, RepliesTo
<1> QED
  BY <1>1, <1>2, <1>3 DEF RepliesTo

\* So does a reply of the foreign server.
LEMMA ForeignReplyFits ==
    ASSUME NEW q, Known(q, asked), ~Own(q.name)
    PROVE  /\ ForeignReply(q).id \in 1 .. MaxAsked
           /\ ForeignReply(q).question \in [name : Seq(STRING), type : Types]
           /\ Fits(ForeignReply(q), asked[q.client])
<1>1. q.name \in Names /\ q.id \in 1 .. MaxAsked /\ q.type \in Types
  BY DEF Known, Query
<1>2. q.name \in Seq(STRING)
  BY <1>1, ConstAssumption DEF Names
<1>3. /\ ForeignReply(q).id = q.id
      /\ ForeignReply(q).question = [name |-> q.name, type |-> q.type]
  BY DEF ForeignReply, Reply
<1> QED
  BY <1>1, <1>2, <1>3 DEF Known, Fits, Direct

\* The invariant holds initially.
LEMMA InitDnsInv == Init => DnsInv
<1> SUFFICES ASSUME Init PROVE DnsInv
  OBVIOUS
<1> USE Bounds DEF Init
<1>1. RepliedSeqs
  <2>1. replied \in [Clients -> Seq({})]
    OBVIOUS
  <2> QED
    BY <2>1 DEF RepliedSeqs
<1>2. TypeOK
  BY DEF TypeOK, RepliesTyped
<1>3. InboxInv /\ CurInv /\ SockInv /\ Correlated
  BY DEF InboxInv, CurInv, SockInv, Correlated
<1> QED
  BY <1>1, <1>2, <1>3 DEF DnsInv

\* A step that sends nothing and asks nothing keeps what holds of the replies.
LEMMA RepliesKept ==
    ASSUME DnsInv, UNCHANGED <<replied, asked>>
    PROVE  RepliesTyped' /\ RepliedSeqs' /\ Correlated'
BY DEF DnsInv, TypeOK, RepliesTyped, RepliedSeqs, Correlated

LEMMA RecvKeeps == DnsInv /\ Recv => DnsInv'
<1> SUFFICES ASSUME DnsInv, Recv PROVE DnsInv'
  OBVIOUS
<1> USE DEF Recv, foreignVars, clientVars
<1>1. inbox \in Seq(Query) /\ inbox # <<>> /\ Len(inbox) <= RcvBuf
  BY DEF DnsInv, TypeOK
<1>2. /\ Head(inbox) \in Query /\ Head(inbox) = inbox[1] /\ 1 \in DOMAIN inbox
      /\ Tail(inbox) \in Seq(Query) /\ Len(Tail(inbox)) = Len(inbox) - 1
      /\ \A n \in 1 .. Len(inbox) - 1 : Tail(inbox)[n] = inbox[n + 1]
  BY <1>1, HeadTailProperties
<1>3. Known(cur', asked')
  BY <1>2 DEF DnsInv, InboxInv
<1>4. TypeOK'
  <2>1. Len(inbox') <= RcvBuf
    BY <1>1, <1>2, Bounds
  <2> QED
    BY <1>2, <2>1, RepliesKept DEF DnsInv, TypeOK
<1>5. InboxInv'
  <2> SUFFICES ASSUME NEW n \in DOMAIN inbox' PROVE Known(inbox'[n], asked')
    BY DEF InboxInv
  <2>1. n \in 1 .. Len(inbox) - 1 /\ Len(inbox) \in Nat
    BY <1>1, <1>2
  <2>2. n + 1 \in DOMAIN inbox /\ inbox'[n] = inbox[n + 1]
    BY <1>1, <1>2, <2>1
  <2> QED
    BY <2>2 DEF DnsInv, InboxInv
<1>6. CurInv'
  BY <1>3 DEF CurInv
<1>7. SockInv'
  BY DEF DnsInv, SockInv
<1> QED
  BY <1>4, <1>5, <1>6, <1>7, RepliesKept DEF DnsInv

LEMMA ReadZoneKeeps == DnsInv /\ ReadZone => DnsInv'
<1> SUFFICES ASSUME DnsInv, ReadZone PROVE DnsInv'
  OBVIOUS
<1> USE DEF ReadZone, foreignVars, clientVars
<1>1. zone_src' \in Seq(Line)
  <2>1. cur.name \in Names /\ Own(cur.name)
    BY DEF DnsInv, CurInv, Known, Query
  <2>2. IndexOf[cur.name] \in 1 .. Len(Domains) /\ zone \in Zones
    BY <2>1, IndexInRange DEF DnsInv, TypeOK
  <2>3. ContentOf[zone][IndexOf[cur.name]] \in Seq(Line)
    BY <2>2, ConstAssumption
  <2>4. zone_src \in Seq(Line)
    BY DEF DnsInv, TypeOK
  <2> QED
    BY <2>3, <2>4, ConcatProperties
<1>2. pc' \in {"spin", "answer"}
  OBVIOUS
<1>3. TypeOK'
  BY <1>1, <1>2, RepliesKept DEF DnsInv, TypeOK
<1>4. InboxInv' /\ CurInv' /\ SockInv'
  BY <1>2 DEF DnsInv, InboxInv, CurInv, SockInv
<1> QED
  BY <1>3, <1>4, RepliesKept DEF DnsInv

LEMMA AnswerKeeps == DnsInv /\ Answer => DnsInv'
<1> SUFFICES ASSUME DnsInv, Answer PROVE DnsInv'
  OBVIOUS
<1> USE DEF Answer, foreignVars, clientVars
<1>1. Known(cur, asked) /\ Own(cur.name) /\ cur \in Query /\ cur.client \in Clients
  BY DEF DnsInv, CurInv, Known, Query
<1>2. RepliesTyped' /\ RepliedSeqs' /\ Correlated'
  <2>1. CASE Replies(cur, zone_src) = <<>>
    <3>1. PICK S : replied \in [Clients -> Seq(S)]
      BY DEF DnsInv, RepliedSeqs
    <3>2. replied[cur.client] \o <<>> = replied[cur.client]
      BY <1>1, <3>1, ConcatEmptySeq
    <3>3. replied' = replied
      BY <1>1, <2>1, <3>1, <3>2
    <3> QED
      BY <3>3, RepliesKept
  <2>2. CASE Replies(cur, zone_src) # <<>>
    <3>1. PICK r : Replies(cur, zone_src) = <<r>> /\ RepliesTo(r, cur)
      BY <1>1, <2>2, RepliesFit
    <3>2. PICK S : replied \in [Clients -> Seq(S)]
      BY DEF DnsInv, RepliedSeqs
    <3>3. replied[cur.client] \in Seq(S \cup {r})
      BY <1>1, <3>2, SeqMonotonic
    <3>4. replied[cur.client] \o <<r>> = Append(replied[cur.client], r)
      BY <3>3, AppendIsConcat
    <3>5. replied' = [replied EXCEPT ![cur.client] = Append(@, r)]
      BY <3>1, <3>4
    <3>6. /\ r.id \in 1 .. MaxAsked
          /\ r.question \in [name : Seq(STRING), type : Types]
          /\ Fits(r, asked[cur.client])
      BY <1>1, <3>1, OwnReplyFits
    <3> QED
      BY <1>1, <3>5, <3>6, ReplySent DEF DnsInv
  <2> QED
    BY <2>1, <2>2
<1>3. TypeOK'
  <2>1. zone_src' \in Seq(Line)
    OBVIOUS
  <2> QED
    BY <1>2, <2>1 DEF DnsInv, TypeOK
<1>4. InboxInv' /\ CurInv' /\ SockInv'
  BY DEF DnsInv, InboxInv, CurInv, SockInv
<1> QED
  BY <1>2, <1>3, <1>4 DEF DnsInv

LEMMA CrashKeeps == DnsInv /\ Crash => DnsInv'
<1> SUFFICES ASSUME DnsInv, Crash PROVE DnsInv'
  OBVIOUS
<1> USE DEF Crash, foreignVars, clientVars
<1>1. TypeOK'
  BY RepliesKept DEF DnsInv, TypeOK
<1>2. InboxInv' /\ CurInv' /\ SockInv'
  BY DEF DnsInv, InboxInv, CurInv, SockInv
<1> QED
  BY <1>1, <1>2, RepliesKept DEF DnsInv

LEMMA ForwardKeeps == DnsInv /\ Forward => DnsInv'
<1> SUFFICES ASSUME DnsInv, Forward PROVE DnsInv'
  OBVIOUS
<1> USE Bounds DEF Forward, clientVars
<1>1. socks \in 0 .. MaxSocks /\ Known(cur, asked) /\ ~Own(cur.name)
  BY DEF DnsInv, TypeOK, CurInv
<1>2. InboxInv' /\ CurInv'
  BY DEF DnsInv, InboxInv, CurInv
<1>3. CASE socks = MaxSocks
  <2>1. TypeOK'
    BY <1>3, RepliesKept DEF DnsInv, TypeOK
  <2>2. SockInv'
    BY <1>3 DEF DnsInv, SockInv
  <2> QED
    BY <1>2, <2>1, <2>2, RepliesKept DEF DnsInv
<1>4. CASE socks # MaxSocks
  <2> DEFINE m == [sock |-> Sock(socks + 1), query |-> cur]
  <2>1. /\ socks' = socks + 1 /\ socks' \in 0 .. MaxSocks /\ pc' = "wait"
        /\ requests' = requests \cup {m} /\ m.sock = socks + 1 /\ m.query = cur
    BY <1>1, <1>4 DEF Sock
  <2>2. m \in Packet
    BY <1>1, <2>1 DEF Packet, Known
  <2>3. TypeOK'
    BY <2>1, <2>2, RepliesKept DEF DnsInv, TypeOK
  <2>4. SockInv'
    <3> SUFFICES ASSUME NEW n \in requests' \cup answers'
                 PROVE  /\ n.sock \in 1 .. socks'
                        /\ n.sock = Sock(socks') => n.query = cur'
      BY DEF SockInv
    <3>1. CASE n = m
      BY <1>1, <2>1, <3>1
    <3>2. CASE n \in requests \cup answers
      <4>1. n.sock \in 1 .. socks
        BY <3>2 DEF DnsInv, SockInv
      <4> QED
        BY <1>1, <2>1, <4>1 DEF Sock
    <3> QED
      BY <2>1, <3>1, <3>2
  <2> QED
    BY <1>2, <2>3, <2>4, RepliesKept DEF DnsInv
<1> QED
  BY <1>3, <1>4

LEMMA RelayKeeps == DnsInv /\ Relay => DnsInv'
<1> SUFFICES ASSUME DnsInv, Relay PROVE DnsInv'
  OBVIOUS
<1> USE DEF Relay, foreignVars, clientVars
<1>1. Known(cur, asked) /\ ~Own(cur.name) /\ cur.client \in Clients
  BY DEF DnsInv, CurInv, Known, Query
<1>2. PICK m \in answers :
         /\ m.sock = Sock(socks)
         /\ replied' = [replied EXCEPT ![cur.client] = Append(@, ForeignReply(m.query))]
  OBVIOUS
<1>3. m.query = cur
  BY <1>2 DEF DnsInv, SockInv
<1>4. RepliesTyped' /\ RepliedSeqs' /\ Correlated'
  BY <1>1, <1>2, <1>3, ForeignReplyFits, ReplySent DEF DnsInv
<1>5. TypeOK'
  BY <1>4 DEF DnsInv, TypeOK
<1>6. InboxInv' /\ CurInv' /\ SockInv'
  BY DEF DnsInv, InboxInv, CurInv, SockInv
<1> QED
  BY <1>4, <1>5, <1>6 DEF DnsInv

LEMMA LinkKeeps == DnsInv /\ (ForeignAnswer \/ Lose) => DnsInv'
<1> SUFFICES ASSUME DnsInv, ForeignAnswer \/ Lose PROVE DnsInv'
  OBVIOUS
<1>1. /\ UNCHANGED <<zone, serverVars, clientVars>>
      /\ requests' \cup answers' \subseteq requests \cup answers
  BY DEF ForeignAnswer, Lose
<1> USE DEF serverVars, clientVars
<1>2. TypeOK'
  BY <1>1, RepliesKept DEF DnsInv, TypeOK
<1>3. InboxInv' /\ CurInv' /\ SockInv'
  BY <1>1 DEF DnsInv, InboxInv, CurInv, SockInv
<1> QED
  BY <1>1, <1>2, <1>3, RepliesKept DEF DnsInv

\* A query that was asked may arrive.
LEMMA TransmitKeeps ==
    ASSUME TypeOK, InboxInv, NEW q, Transmit(q), Known(q, asked'),
           \A p \in Query : Known(p, asked) => Known(p, asked')
    PROVE  inbox' \in Seq(Query) /\ Len(inbox') <= RcvBuf /\ InboxInv'
<1>1. inbox \in Seq(Query) /\ Len(inbox) <= RcvBuf /\ q \in Query
  BY DEF TypeOK, Known
<1>2. CASE UNCHANGED inbox
  BY <1>1, <1>2 DEF InboxInv
<1>3. CASE Len(inbox) < RcvBuf /\ inbox' = Append(inbox, q)
  <2>1. /\ inbox' \in Seq(Query) /\ Len(inbox') = Len(inbox) + 1
        /\ \A n \in 1 .. Len(inbox) : inbox'[n] = inbox[n]
        /\ inbox'[Len(inbox) + 1] = q
    BY <1>1, <1>3, AppendProperties
  <2>2. ASSUME NEW n \in DOMAIN inbox' PROVE Known(inbox'[n], asked')
    <3>1. Len(inbox) \in Nat /\ DOMAIN inbox = 1 .. Len(inbox)
      BY <1>1
    <3>2. n \in 1 .. Len(inbox) \/ n = Len(inbox) + 1
      BY <2>1, <3>1
    <3> QED
      BY <1>1, <2>1, <3>1, <3>2 DEF InboxInv
  <2> QED
    BY <1>1, <1>3, <2>1, <2>2, Bounds DEF InboxInv
<1> QED
  BY <1>2, <1>3 DEF Transmit

LEMMA AskKeeps == ASSUME NEW c \in Clients PROVE DnsInv /\ Ask(c) => DnsInv'
<1> SUFFICES ASSUME DnsInv, Ask(c) PROVE DnsInv'
  OBVIOUS
<1> USE Bounds DEF foreignVars
<1>1. PICK a \in Asks :
         /\ asked' = [asked EXCEPT ![c] = Append(@, a)]
         /\ Transmit([client |-> c, id |-> Len(asked[c]) + 1,
                      name |-> a.name, type |-> a.type])
  BY DEF Ask
<1> DEFINE q == [client |-> c, id |-> Len(asked[c]) + 1,
                 name |-> a.name, type |-> a.type]
<1>2. /\ asked' \in [Clients -> Seq(Asks)]
      /\ Len(asked'[c]) = Len(asked[c]) + 1
      /\ asked'[c][Len(asked[c]) + 1] = a
      /\ \A d \in Clients : d # c => asked'[d] = asked[d]
      /\ \A d \in Clients : \A k \in DOMAIN asked[d] :
            k \in DOMAIN asked'[d] /\ asked'[d][k] = asked[d][k]
  BY <1>1, AskedGrows DEF DnsInv
<1>3. Len(asked[c]) \in Nat /\ Len(asked[c]) < MaxAsked
  BY DEF DnsInv, TypeOK, Ask
<1>4. a.name \in Names /\ a.type \in Types /\ a = [name |-> a.name, type |-> a.type]
  BY ConstAssumption DEF Names
<1>5. Known(q, asked')
  <2>1. q \in Query
    BY <1>3, <1>4 DEF Query
  <2>2. Len(asked[c]) + 1 \in DOMAIN asked'[c]
    BY <1>2, <1>3
  <2> QED
    BY <1>2, <1>4, <2>1, <2>2 DEF Known
<1>6. \A p \in Query : Known(p, asked) => Known(p, asked')
  BY <1>2 DEF Known, Query
<1>7. inbox' \in Seq(Query) /\ Len(inbox') <= RcvBuf /\ InboxInv'
  BY <1>1, <1>5, <1>6, TransmitKeeps DEF DnsInv
<1>8. since' \in [Clients -> Seq(SUBSET Zones)] /\ \A d \in Clients : Len(since'[d]) = Len(asked'[d])
  <2>1. /\ since \in [Clients -> Seq(SUBSET Zones)] /\ zone \in Zones
        /\ \A d \in Clients : Len(since[d]) = Len(asked[d])
        /\ since' = [since EXCEPT ![c] = Append(@, {zone})]
    BY DEF DnsInv, TypeOK, Ask
  <2>2. /\ Append(since[c], {zone}) \in Seq(SUBSET Zones)
        /\ Len(Append(since[c], {zone})) = Len(since[c]) + 1
    BY <2>1, AppendProperties
  <2> QED
    BY <1>2, <2>1, <2>2
<1>9. TypeOK'
  <2>1. ASSUME NEW d \in Clients PROVE Len(asked'[d]) <= MaxAsked
    <3>1. CASE d = c
      BY <1>2, <1>3, <3>1
    <3>2. CASE d # c
      BY <1>2, <3>2 DEF DnsInv, TypeOK
    <3> QED
      BY <3>1, <3>2
  <2>2. tries' \in [Clients -> 0 .. MaxTries \cup {1}]
    BY DEF DnsInv, TypeOK, Ask
  <2>3. RepliesTyped'
    BY DEF DnsInv, TypeOK, RepliesTyped, Ask
  <2> QED
    BY <1>2, <1>7, <1>8, <2>1, <2>2, <2>3 DEF DnsInv, TypeOK, Ask
<1>10. CurInv'
  <2>1. Known(cur, asked) => Known(cur, asked')
    BY <1>6 DEF Known
  <2> QED
    BY <2>1 DEF DnsInv, CurInv, Ask
<1>11. SockInv' /\ RepliedSeqs'
  BY DEF DnsInv, SockInv, RepliedSeqs, Ask
<1>12. Correlated'
  <2> SUFFICES ASSUME NEW d \in Clients, NEW n \in DOMAIN replied[d]
               PROVE  Fits(replied[d][n], asked'[d])
    BY DEF Correlated, Ask
  <2>1. Fits(replied[d][n], asked[d])
    BY DEF DnsInv, Correlated
  <2>2. /\ replied[d][n].id \in DOMAIN asked'[d]
        /\ asked'[d][replied[d][n].id] = asked[d][replied[d][n].id]
    BY <1>2, <2>1 DEF Fits
  <2> QED
    BY <2>1, <2>2 DEF Fits
<1> QED
  BY <1>7, <1>9, <1>10, <1>11, <1>12 DEF DnsInv

LEMMA RetryKeeps == ASSUME NEW c \in Clients PROVE DnsInv /\ Retry(c) => DnsInv'
<1> SUFFICES ASSUME DnsInv, Retry(c) PROVE DnsInv'
  OBVIOUS
<1> USE Bounds DEF foreignVars
<1> DEFINE a == asked[c][Len(asked[c])]
           q == [client |-> c, id |-> Len(asked[c]), name |-> a.name, type |-> a.type]
<1>1. /\ asked[c] \in Seq(Asks) /\ asked[c] # <<>> /\ Len(asked[c]) <= MaxAsked
      /\ UNCHANGED <<zone, pc, cur, zone_src, socks, replied, requests, answers, asked, since>>
      /\ Transmit(q)
  BY DEF DnsInv, TypeOK, Retry, Last
<1>2. Len(asked[c]) \in 1 .. MaxAsked /\ Len(asked[c]) \in DOMAIN asked[c] /\ a \in Asks
  BY <1>1
<1>3. a.name \in Names /\ a.type \in Types /\ a = [name |-> a.name, type |-> a.type]
  BY <1>2, ConstAssumption DEF Names
<1>4. Known(q, asked')
  <2>1. q \in Query
    BY <1>2, <1>3 DEF Query
  <2> QED
    BY <1>1, <1>2, <1>3, <2>1 DEF Known
<1>5. inbox' \in Seq(Query) /\ Len(inbox') <= RcvBuf /\ InboxInv'
  BY <1>1, <1>4, TransmitKeeps DEF DnsInv
<1>6. TypeOK'
  <2>1. /\ tries \in [Clients -> 0 .. MaxTries \cup {1}]
        /\ tries[c] < MaxTries /\ tries' = [tries EXCEPT ![c] = @ + 1]
    BY DEF DnsInv, TypeOK, Retry
  <2>2. tries[c] \in Nat
    BY <2>1
  <2>3. tries[c] + 1 \in 0 .. MaxTries
    BY <2>1, <2>2
  <2>4. tries' \in [Clients -> 0 .. MaxTries \cup {1}]
    BY <2>1, <2>3
  <2> QED
    BY <1>1, <1>5, <2>4, RepliesKept DEF DnsInv, TypeOK
<1>7. CurInv' /\ SockInv'
  BY <1>1 DEF DnsInv, CurInv, SockInv
<1> QED
  BY <1>1, <1>5, <1>6, <1>7, RepliesKept DEF DnsInv

LEMMA EditZoneKeeps == DnsInv /\ EditZone => DnsInv'
<1> SUFFICES ASSUME DnsInv, EditZone PROVE DnsInv'
  OBVIOUS
<1> USE DEF EditZone, serverVars, foreignVars
<1>1. since' \in [Clients -> Seq(SUBSET Zones)] /\ \A d \in Clients : Len(since'[d]) = Len(since[d])
  <2>1. since \in [Clients -> Seq(SUBSET Zones)] /\ zone' \in Zones
    BY DEF DnsInv, TypeOK
  <2> SUFFICES ASSUME NEW d \in Clients
               PROVE  since'[d] \in Seq(SUBSET Zones) /\ Len(since'[d]) = Len(since[d])
    BY <2>1
  <2>2. since'[d] = [k \in 1 .. Len(since[d]) |-> since[d][k] \cup {zone'}]
    BY <2>1
  <2>3. Len(since[d]) \in Nat
    BY <2>1
  <2>4. \A k \in 1 .. Len(since[d]) : since[d][k] \cup {zone'} \in SUBSET Zones
    BY <2>1
  <2> QED
    BY <2>2, <2>3, <2>4
<1>2. TypeOK'
  BY <1>1, RepliesKept DEF DnsInv, TypeOK
<1>3. InboxInv' /\ CurInv' /\ SockInv'
  BY DEF DnsInv, InboxInv, CurInv, SockInv
<1> QED
  BY <1>2, <1>3, RepliesKept DEF DnsInv

\* Every step keeps the invariant.
LEMMA StepDnsInv == DnsInv /\ [Next]_vars => DnsInv'
<1> SUFFICES ASSUME DnsInv, [Next]_vars PROVE DnsInv'
  OBVIOUS
<1>1. CASE Server
  BY <1>1, RecvKeeps, ReadZoneKeeps, AnswerKeeps, CrashKeeps, ForwardKeeps, RelayKeeps
     DEF Server
<1>2. CASE ForeignAnswer \/ Lose
  BY <1>2, LinkKeeps
<1>3. CASE \E c \in Clients : Ask(c) \/ Retry(c)
  BY <1>3, AskKeeps, RetryKeeps
<1>4. CASE EditZone
  BY <1>4, EditZoneKeeps
<1>5. CASE UNCHANGED vars
  <2>1. TypeOK'
    BY <1>5, RepliesKept DEF DnsInv, TypeOK, vars, serverVars, foreignVars, clientVars
  <2>2. InboxInv' /\ CurInv' /\ SockInv'
    BY <1>5 DEF DnsInv, InboxInv, CurInv, SockInv, vars, serverVars, foreignVars, clientVars
  <2> QED
    BY <1>5, <2>1, <2>2, RepliesKept DEF DnsInv, vars, serverVars, clientVars
<1> QED
  BY <1>1, <1>2, <1>3, <1>4, <1>5 DEF Next

(***************************************************************************)
(* The theorems.                                                           *)
(***************************************************************************)
\* The invariant always holds.
THEOREM AlwaysDnsInv == Spec => []DnsInv
BY InitDnsInv, StepDnsInv, PTL DEF Spec

\* Type correctness: the server stays in its calls, within its sockets.
THEOREM TypeCorrect == Spec => []TypeOK
<1>1. DnsInv => TypeOK
  BY DEF DnsInv
<1> QED
  BY <1>1, AlwaysDnsInv, PTL

\* Every reply answers a query of the client that gets it: main keeps one csin
\* for all clients (recvfrom at line 252), and opens a socket for each query it
\* passes on (line 1215).
THEOREM RepliesCorrelated == Spec => []Correlated
<1>1. DnsInv => Correlated
  BY DEF DnsInv
<1> QED
  BY <1>1, AlwaysDnsInv, PTL
(***************************************************************************)
(* The addresses in the replies: what the zone file said.                  *)
(***************************************************************************)
\* The first line of a host and a type, if the file has one.
LEMMA HostLineFound ==
    ASSUME NEW src \in Seq(Line), NEW label, NEW type, NEW at,
           at = HostIndex(src, label, type)
    PROVE  LET Fit(l) == l.name # "@" /\ l.name = label /\ l.type = type
           IN  /\ at # 0 => at \in DOMAIN src /\ Fit(src[at])
               /\ at = 0 => \A k \in DOMAIN src : ~Fit(src[k])
<1> DEFINE Fit(l) == l.name # "@" /\ l.name = label /\ l.type = type
           I == {k \in 1 .. Len(src) : Fit(src[k])}
<1>1. at = IF I # {} THEN Min(I) ELSE 0
  BY DEF HostIndex, SelectInSeq
<1>2. Len(src) \in Nat /\ DOMAIN src = 1 .. Len(src)
  OBVIOUS
<1>3. CASE I # {}
  <2>1. I \in SUBSET Nat
    BY <1>2
  <2>2. Min(I) \in I
    <3> HIDE DEF I
    <3> QED
      BY <1>3, <2>1, SmallestOf
  <2> QED
    BY <1>1, <1>2, <1>3, <2>2
<1>4. CASE I = {}
  BY <1>1, <1>2, <1>4
<1> QED
  BY <1>3, <1>4

\* What is left of a sequence when what was appended is removed.
LEMMA FrontOfAppend ==
    ASSUME NEW S, NEW s \in Seq(S), NEW x
    PROVE  Front(Append(s, x)) = s
<1> DEFINE T == S \cup {x}
<1>0. s \in Seq(T)
  BY SeqMonotonic
<1> HIDE DEF T
<1>1. Append(s, x) \in Seq(T) /\ Len(Append(s, x)) = Len(s) + 1 /\ Len(s) \in Nat
  BY <1>0, AppendProperties DEF T
<1> DEFINE u == Append(s, x)
<1>2. Front(u) = SubSeq(u, 1, Len(s))
  BY <1>1 DEF Front
<1>3. \A k \in 1 .. Len(s) : u[k] = s[k] /\ u[k] \in T
  BY <1>0, <1>1, AppendProperties DEF T
<1> HIDE DEF u
<1>4. /\ SubSeq(u, 1, Len(s)) \in Seq(T)
      /\ Len(SubSeq(u, 1, Len(s))) = IF 1 <= Len(s) THEN Len(s) - 1 + 1 ELSE 0
      /\ \A k \in 1 .. Len(s) - 1 + 1 : SubSeq(u, 1, Len(s))[k] = u[1 + k - 1]
  BY <1>1, <1>3, SubSeqProperties
<1>5. Len(SubSeq(u, 1, Len(s))) = Len(s)
  BY <1>1, <1>4
<1>6. \A k \in 1 .. Len(s) : SubSeq(u, 1, Len(s))[k] = s[k]
  <2> SUFFICES ASSUME NEW k \in 1 .. Len(s) PROVE SubSeq(u, 1, Len(s))[k] = s[k]
    OBVIOUS
  <2>1. k \in 1 .. Len(s) - 1 + 1 /\ 1 + k - 1 = k
    BY <1>1
  <2> QED
    BY <1>3, <1>4, <2>1
<1>7. SubSeq(u, 1, Len(s)) = s
  BY <1>0, <1>4, <1>5, <1>6, SeqEqual
<1> QED
  BY <1>2, <1>7 DEF u

\* The reply to a query for the address of a host is what the file says.
LEMMA AddressIsSaid ==
    ASSUME NEW z \in Zones, NEW q \in Query, Own(q.name), Direct(q.name),
           q.type \in {"A", "AAAA"}, NEW src, NEW a,
           src = ContentOf[z][IndexOf[q.name]], src # Unreadable,
           a = [name |-> q.name, type |-> q.type]
    PROVE  \E r : Replies(q, src) = <<r>> /\ r.id = q.id /\ Says(z, r, a)
<1>1. q.name \in Names /\ a.name = q.name /\ a.type = q.type
  BY DEF Query
<1>2. src \in Seq(Line)
  BY <1>1, IndexInRange, ConstAssumption
<1> DEFINE at == HostIndex(src, Head(q.name), q.type)
           r == IF q.type = "A" THEN ReplyA(q, src) ELSE ReplyAAAA(q, src)
<1>3. Replies(q, src) = <<r>>
  BY DEF Replies
<1>4. LinesFor(a, z) = {l \in {src[k] : k \in DOMAIN src} :
                          l.name # "@" /\ l.name = Head(q.name) /\ l.type = q.type}
  BY <1>1 DEF LinesFor, ToSet
<1>5. at # 0 => /\ at \in DOMAIN src
                /\ src[at].name # "@" /\ src[at].name = Head(q.name) /\ src[at].type = q.type
  BY <1>2, HostLineFound
<1>6. at = 0 => \A k \in DOMAIN src :
         ~(src[k].name # "@" /\ src[k].name = Head(q.name) /\ src[k].type = q.type)
  BY <1>2, HostLineFound
<1>7. CASE at = 0
  <2>1. LinesFor(a, z) = {}
    BY <1>4, <1>7, <1>6
  <2>2. r = NoAddress(q, src)
    BY <1>7 DEF ReplyA, ReplyAAAA
  <2>3. r.id = q.id /\ r.answer = {} /\ r.authority = {SoaRecord(q, src)}
    BY <2>2 DEF NoAddress, Reply
  <2>4. SoaRecord(q, src).type = "SOA"
    BY DEF SoaRecord, Record
  <2>5. Says(z, r, a)
    <3> HIDE DEF r
    <3> QED
      BY <1>1, <2>1, <2>3, <2>4 DEF Says
  <2> QED
    BY <1>3, <2>3, <2>5
<1>8. CASE at # 0
  <2>1. src[at] \in LinesFor(a, z) /\ src[at].type = q.type
    <3> HIDE DEF at
    <3> QED
      BY <1>4, <1>8, <1>5
  <2>2. r.id = q.id /\ r.answer = {Record(q.name, q.type, Address(src[at], q.type))}
    BY <1>8 DEF ReplyA, ReplyAAAA, Reply, Direct
  <2>3. Address(src[at], q.type) =
           IF src[at].cr THEN src[at].data ELSE Front(src[at].data)
    <3>1. at \in DOMAIN src
      BY <1>8, <1>5
    <3> HIDE DEF at
    <3> DEFINE line == src[at]
    <3>2. line \in Line
      BY <1>2, <3>1
    <3> HIDE DEF line
    <3>3. line.data \in Seq(STRING)
      BY <3>2 DEF Line
    <3>4. Front(Append(line.data, "CR")) = line.data
      BY <3>3, FrontOfAppend
    <3>5. line.type = q.type
      BY <2>1 DEF line
    <3>6. Address(line, q.type) = IF line.cr THEN line.data ELSE Front(line.data)
      BY <3>4, <3>5 DEF Address, LastField
    <3> QED
      BY <3>6 DEF line
  <2>4. Says(z, r, a)
    <3> HIDE DEF r, at
    <3> QED
      BY <1>1, <2>1, <2>2, <2>3 DEF Says
  <2> QED
    BY <1>3, <2>2, <2>4
<1> QED
  BY <1>7, <1>8

AddressInv == ZoneInv /\ AddressFromZone

\* What was asked stays asked, and the states of the files since then only add up.
SinceGrows ==
    \A c \in Clients : \A k \in DOMAIN asked[c] :
        /\ k \in DOMAIN asked'[c] /\ asked'[c][k] = asked[c][k]
        /\ since[c][k] \subseteq since'[c][k]

LEMMA SinceGrowsInStep ==
    ASSUME DnsInv, ZoneInv, [Next]_vars
    PROVE  /\ SinceGrows
           /\ \A c \in Clients : \A k \in DOMAIN asked'[c] : zone' \in since'[c][k]
<1>1. /\ asked \in [Clients -> Seq(Asks)] /\ since \in [Clients -> Seq(SUBSET Zones)]
      /\ \A c \in Clients : Len(since[c]) = Len(asked[c])
  BY DEF DnsInv, TypeOK
<1>2. \A c \in Clients : \A k \in DOMAIN asked[c] : zone \in since[c][k]
  BY DEF ZoneInv
<1>3. CASE UNCHANGED <<zone, asked, since>>
  BY <1>2, <1>3 DEF SinceGrows
<1>4. ASSUME NEW c \in Clients, Ask(c) PROVE
        /\ SinceGrows
        /\ \A d \in Clients : \A k \in DOMAIN asked'[d] : zone' \in since'[d][k]
  <2>1. /\ UNCHANGED zone
        /\ since' = [since EXCEPT ![c] = Append(@, {zone})]
        /\ \E a \in Asks : asked' = [asked EXCEPT ![c] = Append(@, a)]
    BY <1>4 DEF Ask
  <2>2. PICK a \in Asks : asked' = [asked EXCEPT ![c] = Append(@, a)]
    BY <2>1
  <2>3. /\ \A d \in Clients : \A k \in DOMAIN asked[d] :
              k \in DOMAIN asked'[d] /\ asked'[d][k] = asked[d][k]
        /\ asked' \in [Clients -> Seq(Asks)] /\ Len(asked'[c]) = Len(asked[c]) + 1
        /\ \A d \in Clients : d # c => asked'[d] = asked[d]
    BY <2>2, AskedGrows DEF DnsInv
  <2>4. /\ since'[c] = Append(since[c], {zone})
        /\ \A d \in Clients : d # c => since'[d] = since[d]
    BY <1>1, <2>1
  <2>5. /\ \A k \in 1 .. Len(since[c]) : Append(since[c], {zone})[k] = since[c][k]
        /\ Append(since[c], {zone})[Len(since[c]) + 1] = {zone}
    BY <1>1, AppendProperties
  <2>6. ASSUME NEW d \in Clients, NEW k \in DOMAIN asked[d] PROVE since[d][k] = since'[d][k]
    <3>1. CASE d = c
      <4>1. k \in 1 .. Len(since[c])
        BY <1>1, <2>6, <3>1
      <4> QED
        BY <2>4, <2>5, <3>1, <4>1
    <3>2. CASE d # c
      BY <2>4, <3>2
    <3> QED
      BY <3>1, <3>2
  <2>7. ASSUME NEW d \in Clients, NEW k \in DOMAIN asked'[d], k \notin DOMAIN asked[d]
        PROVE  zone \in since'[d][k]
    <3>1. d = c
      BY <2>3, <2>7
    <3>2. k \in 1 .. Len(asked[c]) + 1 /\ k \notin 1 .. Len(asked[c]) /\ Len(asked[c]) \in Nat
      BY <1>1, <2>3, <2>7, <3>1
    <3>3. k = Len(since[c]) + 1
      BY <1>1, <3>2
    <3> QED
      BY <2>4, <2>5, <3>1, <3>3
  <2>8. SinceGrows
    BY <2>3, <2>6 DEF SinceGrows
  <2>9. ASSUME NEW d \in Clients, NEW k \in DOMAIN asked'[d] PROVE zone' \in since'[d][k]
    <3>1. CASE k \in DOMAIN asked[d]
      BY <1>2, <2>1, <2>6, <3>1
    <3>2. CASE k \notin DOMAIN asked[d]
      BY <2>1, <2>7, <3>2
    <3> QED
      BY <3>1, <3>2
  <2> QED
    BY <2>8, <2>9
<1>5. CASE EditZone
  <2>1. asked' = asked
    BY <1>5 DEF EditZone
  <2>2. ASSUME NEW c \in Clients, NEW k \in DOMAIN asked[c]
        PROVE  since'[c][k] = since[c][k] \cup {zone'}
    <3>1. k \in DOMAIN since[c]
      BY <1>1, <2>2
    <3> QED
      BY <1>5, <3>1 DEF EditZone
  <2> QED
    BY <2>1, <2>2 DEF SinceGrows
<1>6. CASE Server
  BY <1>3, <1>6 DEF Server, Recv, ReadZone, Answer, Crash, Forward, Relay, clientVars
<1>7. CASE ForeignAnswer \/ Lose
  BY <1>3, <1>7 DEF ForeignAnswer, Lose, clientVars
<1>8. ASSUME NEW c \in Clients, Retry(c) PROVE UNCHANGED <<zone, asked, since>>
  BY <1>8 DEF Retry
<1>9. CASE UNCHANGED vars
  BY <1>3, <1>9 DEF vars, clientVars
<1> QED
  BY <1>3, <1>4, <1>5, <1>6, <1>7, <1>8, <1>9 DEF Next

LEMMA InitAddressInv == Init => AddressInv
BY DEF Init, AddressInv, ZoneInv, AddressFromZone

\* zone_src holds the file of the query in hand, or nothing.
LEMMA StepZoneInv ==
    ASSUME DnsInv, ZoneInv, [Next]_vars
    PROVE  ZoneInv'
<1>1. /\ SinceGrows
      /\ \A c \in Clients : \A k \in DOMAIN asked'[c] : zone' \in since'[c][k]
  BY SinceGrowsInStep
<1> DEFINE Held == \E z \in since'[cur'.client][cur'.id] :
                     zone_src' = ContentOf[z][IndexOf[cur'.name]] /\ zone_src' # Unreadable
<1> SUFFICES /\ pc' \notin {"answer", "down"} => zone_src' = <<>>
             /\ pc' = "answer" => Held
  BY <1>1 DEF ZoneInv
<1>2. pc = "answer" => cur.client \in Clients /\ cur.id \in DOMAIN asked[cur.client]
  BY DEF DnsInv, CurInv, Known, Query
<1>3. CASE UNCHANGED <<pc, cur, zone_src>>
  BY <1>1, <1>2, <1>3 DEF ZoneInv, SinceGrows
<1>4. CASE Recv
  BY <1>4 DEF Recv, ZoneInv
<1>5. CASE ReadZone
  <2>1. UNCHANGED <<zone, cur, asked, since>> /\ pc = "zone"
    BY <1>5 DEF ReadZone, clientVars
  <2>2. zone_src = <<>>
    BY <2>1 DEF ZoneInv
  <2>3. CASE ContentOf[zone][IndexOf[cur.name]] = Unreadable
    BY <1>5, <2>2, <2>3 DEF ReadZone
  <2>4. CASE ContentOf[zone][IndexOf[cur.name]] # Unreadable
    <3>1. cur.name \in Names /\ Own(cur.name) /\ cur.client \in Clients
          /\ cur.id \in DOMAIN asked[cur.client]
      BY <2>1 DEF DnsInv, CurInv, Known, Query
    <3>2. ContentOf[zone][IndexOf[cur.name]] \in Seq(Line)
      BY <3>1, IndexInRange, ConstAssumption DEF DnsInv, TypeOK
    <3>3. pc' = "answer" /\ zone_src' = ContentOf[zone][IndexOf[cur.name]]
      BY <1>5, <2>2, <2>4, <3>2, ConcatEmptySeq DEF ReadZone
    <3> QED
      BY <1>1, <2>1, <2>4, <3>1, <3>3
  <2> QED
    BY <2>3, <2>4
<1>6. CASE Answer
  BY <1>6 DEF Answer
<1>7. CASE Crash \/ Forward \/ Relay
  BY <1>7 DEF Crash, Forward, Relay, ZoneInv
<1>8. CASE ForeignAnswer \/ Lose \/ EditZone
  BY <1>3, <1>8 DEF ForeignAnswer, Lose, EditZone, serverVars
<1>9. CASE \E c \in Clients : Ask(c) \/ Retry(c)
  BY <1>3, <1>9 DEF Ask, Retry
<1>10. CASE UNCHANGED vars
  BY <1>3, <1>10 DEF vars, serverVars
<1> QED
  BY <1>4, <1>5, <1>6, <1>7, <1>8, <1>9, <1>10 DEF Next, Server

\* What the property says of one reply to client c.
Right(r, as, ss) ==
    LET a == as[r.id]
    IN  Direct(a.name) /\ a.type \in {"A", "AAAA"} => \E z \in ss[r.id] : Says(z, r, a)

LEMMA StepAddressInv == DnsInv /\ AddressInv /\ [Next]_vars => AddressInv'
<1> SUFFICES ASSUME DnsInv, AddressInv, [Next]_vars PROVE AddressInv'
  OBVIOUS
<1>1. ZoneInv'
  BY StepZoneInv DEF AddressInv
<1>2. SinceGrows
  BY SinceGrowsInStep DEF AddressInv
<1>3. ASSUME NEW c \in Clients, NEW n \in DOMAIN replied[c]
      PROVE  Right(replied[c][n], asked'[c], since'[c])
  <2>1. replied[c][n].id \in DOMAIN asked[c]
    BY DEF DnsInv, Correlated, Fits
  <2>2. Right(replied[c][n], asked[c], since[c])
    BY DEF AddressInv, AddressFromZone, Right
  <2> QED
    BY <1>2, <2>1, <2>2 DEF SinceGrows, Right
<1>4. CASE UNCHANGED replied
  BY <1>1, <1>3, <1>4 DEF AddressInv, AddressFromZone, Right
<1>5. ASSUME NEW c \in Clients, NEW r, replied' = [replied EXCEPT ![c] = Append(@, r)],
             Right(r, asked'[c], since'[c])
      PROVE  AddressInv'
  <2>1. \A d \in Clients : \A n \in DOMAIN replied'[d] :
           \/ n \in DOMAIN replied[d] /\ replied'[d][n] = replied[d][n]
           \/ d = c /\ replied'[d][n] = r
    BY <1>5, ReplyAppended DEF DnsInv
  <2>2. \A d \in Clients : \A n \in DOMAIN replied'[d] : Right(replied'[d][n], asked'[d], since'[d])
    BY <1>3, <1>5, <2>1
  <2> QED
    BY <1>1, <2>2 DEF AddressInv, AddressFromZone, Right
<1>6. CASE Answer
  <2>1. /\ pc = "answer" /\ UNCHANGED <<asked, since>>
        /\ replied' = [replied EXCEPT ![cur.client] = @ \o Replies(cur, zone_src)]
    BY <1>6 DEF Answer, clientVars
  <2>2. Known(cur, asked) /\ Own(cur.name) /\ cur \in Query /\ cur.client \in Clients
    BY <2>1 DEF DnsInv, CurInv, Known, Query
  <2>3. PICK S : replied \in [Clients -> Seq(S)]
    BY DEF DnsInv, RepliedSeqs
  <2>4. CASE Replies(cur, zone_src) = <<>>
    <3>1. replied[cur.client] \o <<>> = replied[cur.client]
      BY <2>2, <2>3, ConcatEmptySeq
    <3>2. replied' = replied
      BY <2>1, <2>2, <2>3, <2>4, <3>1
    <3> QED
      BY <1>4, <3>2
  <2>5. CASE Replies(cur, zone_src) # <<>>
    <3>1. PICK r : Replies(cur, zone_src) = <<r>> /\ RepliesTo(r, cur)
      BY <2>2, <2>5, RepliesFit
    <3>2. replied[cur.client] \in Seq(S \cup {r})
      BY <2>2, <2>3, SeqMonotonic
    <3>3. replied[cur.client] \o <<r>> = Append(replied[cur.client], r)
      BY <3>2, AppendIsConcat
    <3>4. replied' = [replied EXCEPT ![cur.client] = Append(@, r)]
      BY <2>1, <3>1, <3>3
    <3>5. Right(r, asked[cur.client], since[cur.client])
      <4>1. /\ r.id = cur.id
            /\ asked[cur.client][cur.id] = [name |-> cur.name, type |-> cur.type]
            /\ cur.id \in DOMAIN asked[cur.client]
        BY <2>2, <3>1 DEF RepliesTo, Known
      <4>2. PICK z \in since[cur.client][cur.id] :
               zone_src = ContentOf[z][IndexOf[cur.name]] /\ zone_src # Unreadable
        BY <2>1 DEF AddressInv, ZoneInv
      <4>3. z \in Zones
        <5>1. since[cur.client] \in Seq(SUBSET Zones) /\ Len(since[cur.client]) = Len(asked[cur.client])
              /\ asked[cur.client] \in Seq(Asks)
          BY <2>2 DEF DnsInv, TypeOK
        <5> QED
          BY <4>1, <4>2, <5>1
      <4>4. ASSUME Direct(cur.name), cur.type \in {"A", "AAAA"}
            PROVE  Says(z, r, [name |-> cur.name, type |-> cur.type])
        <5>1. PICK s : Replies(cur, zone_src) = <<s>> /\ Says(z, s, [name |-> cur.name, type |-> cur.type])
          BY <2>2, <4>2, <4>3, <4>4, AddressIsSaid
        <5>2. s = r
          BY <3>1, <5>1
        <5> QED
          BY <5>1, <5>2
      <4> QED
        BY <4>1, <4>2, <4>4 DEF Right
    <3> QED
      BY <1>5, <2>1, <2>2, <3>4, <3>5
  <2> QED
    BY <2>4, <2>5
<1>7. CASE Relay
  <2>1. /\ pc = "wait" /\ UNCHANGED <<asked, since>>
    BY <1>7 DEF Relay, clientVars
  <2>2. PICK m \in answers :
           /\ m.sock = Sock(socks)
           /\ replied' = [replied EXCEPT ![cur.client] = Append(@, ForeignReply(m.query))]
    BY <1>7 DEF Relay
  <2>3. m.query = cur
    BY <2>1, <2>2 DEF DnsInv, SockInv
  <2>4. Known(cur, asked) /\ ~Own(cur.name) /\ cur.client \in Clients
    BY <2>1 DEF DnsInv, CurInv, Known, Query
  <2>5. ForeignReply(cur).id = cur.id
    BY DEF ForeignReply, Reply
  <2>6. Right(ForeignReply(cur), asked[cur.client], since[cur.client])
    BY <2>4, <2>5 DEF Right, Known, Direct
  <2> QED
    BY <1>5, <2>1, <2>2, <2>3, <2>4, <2>6
<1>8. CASE Recv \/ ReadZone \/ Crash \/ Forward
  BY <1>4, <1>8 DEF Recv, ReadZone, Crash, Forward
<1>9. CASE ForeignAnswer \/ Lose \/ EditZone
  BY <1>4, <1>9 DEF ForeignAnswer, Lose, EditZone, serverVars
<1>10. CASE \E c \in Clients : Ask(c) \/ Retry(c)
  BY <1>4, <1>10 DEF Ask, Retry
<1>11. CASE UNCHANGED vars
  BY <1>4, <1>11 DEF vars, serverVars
<1> QED
  BY <1>6, <1>7, <1>8, <1>9, <1>10, <1>11 DEF Next, Server

\* The reply to a query for the address of a host is what the zone file said at
\* some time since the query was asked, less the last character of the text when
\* the line has no carriage return (line 415): main reads the file anew for each query
\* into a vector of its own (line 303), and takes the first line of the host and
\* the type (line 393).
THEOREM AddressesFromZone == Spec => []AddressFromZone
<1>1. Init => DnsInv /\ AddressInv
  BY InitDnsInv, InitAddressInv
<1>2. DnsInv /\ AddressInv /\ [Next]_vars => (DnsInv /\ AddressInv)'
  BY StepDnsInv, StepAddressInv
<1>3. AddressInv => AddressFromZone
  BY DEF AddressInv
<1> QED
  BY <1>1, <1>2, <1>3, PTL DEF Spec

=============================================================================
