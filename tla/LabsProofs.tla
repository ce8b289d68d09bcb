------------------------------ MODULE LabsProofs ------------------------------
(***************************************************************************)
(* The small programs keep their types and do what they promise, for any   *)
(* values of the constants that Labs allows.  Each is proved from its own  *)
(* specification, which every behaviour of Labs satisfies.                 *)
(***************************************************************************)
EXTENDS Labs, SudokuProofs, FiniteSetTheorems, SequenceTheorems

(***************************************************************************)
(* The oracle services.                                                    *)
(***************************************************************************)
\* No secret is a pointer to the buffer.
LEMMA TextOfSecret ==
    ASSUME NEW p \in Oraclep!Secrets \union {Oraclep!NoText}
    PROVE  Oraclep!Text(p) = p
BY DEF Oraclep!Text, Oraclep!Static, Oraclep!NoText, Oraclep!Secrets

\* What gen_secret leaves in the buffer is a secret.
LEMMA Generated ==
    ASSUME Oraclep!TypeOK, oseed < 0 \/ drawn < MaxDrawn,
           NEW seed \in Seeds, Oraclep!gen_secret(seed)
    PROVE  oseed' \in Seeds /\ drawn' \in 0 .. MaxDrawn /\ buf' \in Oraclep!Secrets
<1>1. oseed' \in Seeds
  BY LabsAssumption DEF Oraclep!gen_secret, Oraclep!TypeOK
<1>2. drawn' \in 0 .. MaxDrawn /\ drawn' - 1 \in 0 .. MaxDrawn
  BY LabsAssumption DEF Oraclep!gen_secret, Oraclep!TypeOK
<1> QED
  BY <1>1, <1>2 DEF Oraclep!gen_secret, Oraclep!Secrets

LEMMA SecretTypes ==
    ASSUME Oraclep!TypeOK, [Oraclep!Next]_(Oraclep!vars)
    PROVE  Oraclep!TypeOK'
<1>1. CASE UNCHANGED Oraclep!vars
  BY <1>1 DEF Oraclep!vars, Oraclep!TypeOK
<1>2. ASSUME NEW o \in Oracles, Oraclep!oracle_init(o) PROVE Oraclep!TypeOK'
  <2>1. oseed' \in Seeds /\ drawn' \in 0 .. MaxDrawn /\ buf' \in Oraclep!Secrets
    BY <1>2, Generated DEF Oraclep!oracle_init
  <2>2. Oraclep!Keep(buf') \in Oraclep!Pointers
    BY <2>1 DEF Oraclep!Keep, Oraclep!Pointers
  <2>3. stage' \in [Oracles -> 0 .. Oraclep!maxstage - 1]
    BY <1>2 DEF Oraclep!oracle_init, Oraclep!NextStage, Oraclep!maxstage, Oraclep!TypeOK
  <2> QED
    BY <1>2, <2>1, <2>2, <2>3 DEF Oraclep!oracle_init, Oraclep!TypeOK
<1>3. ASSUME NEW o \in Oracles, Oraclep!oracle_guess(o) PROVE Oraclep!TypeOK'
  <2>1. stage' \in [Oracles -> 0 .. Oraclep!maxstage - 1]
    BY <1>3 DEF Oraclep!oracle_guess, Oraclep!NextStage, Oraclep!maxstage, Oraclep!TypeOK
  <2> QED
    BY <1>3, <2>1 DEF Oraclep!oracle_guess, Oraclep!TypeOK
<1>4. ASSUME NEW o \in Oracles, Oraclep!oracle_show(o) PROVE Oraclep!TypeOK'
  <2>1. stage' \in [Oracles -> 0 .. Oraclep!maxstage - 1]
    BY <1>4 DEF Oraclep!oracle_show, Oraclep!NextStage, Oraclep!maxstage, Oraclep!TypeOK
  <2> QED
    BY <1>4, <2>1 DEF Oraclep!oracle_show, Oraclep!TypeOK
<1>5. ASSUME NEW o \in Oracles, Oraclep!oracle_guess_nothing(o) PROVE Oraclep!TypeOK'
  BY <1>5 DEF Oraclep!oracle_guess_nothing, Oraclep!TypeOK
<1>6. CASE Oraclep!Quit
  BY <1>6 DEF Oraclep!Quit, Oraclep!TypeOK
<1> QED
  BY <1>1, <1>2, <1>3, <1>4, <1>5, <1>6 DEF Oraclep!Next

\* With copies, the secret an oracle has in a stage after the first is the one
\* made for it, and is not a pointer to the buffer.
HasOwn == \A o \in Oracles : stage[o] # 0 => secret[o] = own[o]

LEMMA OwnStep ==
    ASSUME Oraclep!TypeOK, HasOwn, [Oraclep!Next]_(Oraclep!vars)
    PROVE  HasOwn'
<1>1. CASE UNCHANGED Oraclep!vars
  BY <1>1 DEF Oraclep!vars, HasOwn
<1>2. ASSUME NEW o \in Oracles, Oraclep!oracle_init(o) PROVE HasOwn'
  <2>1. secret'[o] = own'[o]
    BY <1>2 DEF Oraclep!oracle_init, Oraclep!Keep, Oraclep!TypeOK
  <2>2. \A p \in Oracles \ {o} :
          secret'[p] = secret[p] /\ own'[p] = own[p] /\ stage'[p] = stage[p]
    BY <1>2 DEF Oraclep!oracle_init, Oraclep!NextStage, Oraclep!TypeOK
  <2> QED
    BY <2>1, <2>2 DEF HasOwn
<1>3. ASSUME NEW o \in Oracles, Oraclep!oracle_guess(o) \/ Oraclep!oracle_show(o) PROVE HasOwn'
  <2>1. stage[o] # 0 /\ UNCHANGED <<secret, own>>
    BY <1>3 DEF Oraclep!oracle_guess, Oraclep!oracle_show
  <2>2. \A p \in Oracles \ {o} : stage'[p] = stage[p]
    BY <1>3 DEF Oraclep!oracle_guess, Oraclep!oracle_show, Oraclep!NextStage, Oraclep!TypeOK
  <2> QED
    BY <2>1, <2>2 DEF HasOwn
<1>4. ASSUME NEW o \in Oracles, Oraclep!oracle_guess_nothing(o) PROVE HasOwn'
  BY <1>4 DEF Oraclep!oracle_guess_nothing, HasOwn
<1>5. CASE Oraclep!Quit
  BY <1>5 DEF Oraclep!Quit, HasOwn
<1> QED
  BY <1>1, <1>2, <1>3, <1>4, <1>5 DEF Oraclep!Next

\* The oracles' part of the invariant.
SecretsInv == Oraclep!TypeOK /\ HasOwn

LEMMA SecretsInvariant == Oraclep!Spec => []SecretsInv
<1>1. Oraclep!Init => SecretsInv
  BY LabsAssumption DEF Oraclep!Init, SecretsInv, Oraclep!TypeOK, HasOwn, Oraclep!maxstage,
                        Oraclep!Pointers
<1>2. SecretsInv /\ [Oraclep!Next]_(Oraclep!vars) => SecretsInv'
  BY SecretTypes, OwnStep DEF SecretsInv
<1> QED
  BY <1>1, <1>2, PTL DEF Oraclep!Spec

(***************************************************************************)
(* The command server.                                                     *)
(***************************************************************************)
CommandInv == Nkat!TypeOK /\ Nkat!NoChildLeft

LEMMA CommandTypes ==
    ASSUME Nkat!TypeOK, [Nkat!Next]_(Nkat!vars)
    PROVE  Nkat!TypeOK'
<1> USE DEF Nkat!TypeOK
<1>1. CASE UNCHANGED Nkat!vars
  BY <1>1 DEF Nkat!vars
<1>2. ASSUME NEW c \in Clients, Nkat!Connect(c) PROVE Nkat!TypeOK'
  BY <1>2 DEF Nkat!Connect
<1>3. CASE Nkat!accept
  <2>1. Head(queue) \in Clients /\ Tail(queue) \in Seq(Clients)
    BY <1>3 DEF Nkat!accept
  <2> QED
    BY <1>3, <2>1 DEF Nkat!accept
<1>4. CASE Nkat!accept_fails
  <2>1. <<>> \in Seq(Clients)
    OBVIOUS
  <2> QED
    BY <1>4, <2>1 DEF Nkat!accept_fails
<1>5. CASE Nkat!fork \/ Nkat!fork_fails
  BY <1>5 DEF Nkat!fork, Nkat!fork_fails
<1>6. CASE Nkat!close \/ Nkat!waitpid
  BY <1>6 DEF Nkat!close, Nkat!waitpid
<1>7. CASE Nkat!Child
  BY <1>7 DEF Nkat!Child, Nkat!Run, Nkat!NotFound, Nkat!RunAgain
<1> QED
  BY <1>1, <1>2, <1>3, <1>4, <1>5, <1>6, <1>7 DEF Nkat!Next, Nkat!Server

\* Only waitpid takes the server back to accept, and it waits for the child that
\* fork made; when fork made none there is nothing to wait for.
LEMMA ChildStep ==
    ASSUME CommandInv, [Nkat!Next]_(Nkat!vars)
    PROVE  Nkat!NoChildLeft'
<1> USE DEF CommandInv, Nkat!NoChildLeft
<1>1. CASE UNCHANGED Nkat!vars
  BY <1>1 DEF Nkat!vars
<1>2. CASE \E c \in Clients : Nkat!Connect(c)
  BY <1>2 DEF Nkat!Connect
<1>3. CASE Nkat!accept \/ Nkat!accept_fails
  BY <1>3 DEF Nkat!accept, Nkat!accept_fails
<1>4. CASE Nkat!fork \/ Nkat!fork_fails \/ Nkat!close
  BY <1>4 DEF Nkat!fork, Nkat!fork_fails, Nkat!close
<1>5. CASE Nkat!waitpid
  BY <1>5 DEF Nkat!waitpid
<1>6. CASE Nkat!Child
  BY <1>6 DEF Nkat!Child, Nkat!Run, Nkat!NotFound, Nkat!RunAgain
<1> QED
  BY <1>1, <1>2, <1>3, <1>4, <1>5, <1>6 DEF Nkat!Next, Nkat!Server

LEMMA CommandInvariant == Nkat!Spec => []CommandInv
<1>1. Nkat!Init => CommandInv
  BY DEF Nkat!Init, CommandInv, Nkat!TypeOK, Nkat!NoChildLeft
<1>2. CommandInv /\ [Nkat!Next]_(Nkat!vars) => CommandInv'
  BY CommandTypes, ChildStep DEF CommandInv
<1> QED
  BY <1>1, <1>2, PTL DEF Nkat!Spec

(***************************************************************************)
(* The archive unpacker.                                                   *)
(***************************************************************************)
\* Unpacker counts with the same Cardinality.
LEMMA SameCardinality == ASSUME NEW S PROVE Pako!Cardinality(S) = Cardinality(S)
BY DEF Cardinality, Pako!Cardinality

\* The place in its segment of the byte after the n-th one.
LEMMA NextPlace ==
    ASSUME NEW L \in Nat \ {0}, NEW n \in Nat
    PROVE  /\ n % L \in 0 .. L - 1
           /\ (n % L) + 1 < L => (n + 1) % L = (n % L) + 1
           /\ (n % L) + 1 = L => (n + 1) % L = 0
<1>1. PICK q \in Int, r \in Int : q = n \div L /\ r = n % L
  OBVIOUS
<1>2. n = L * q + r /\ r \in 0 .. L - 1
  BY <1>1
<1>3. \A p \in Int : \A s \in 0 .. L - 1 : (L * p + s) % L = s
  OBVIOUS
<1>4. ASSUME r + 1 < L PROVE (n + 1) % L = r + 1
  <2>1. n + 1 = L * q + (r + 1) /\ r + 1 \in 0 .. L - 1
    BY <1>2, <1>4
  <2> QED
    BY <1>3, <2>1
<1>5. ASSUME r + 1 = L PROVE (n + 1) % L = 0
  <2>1. n + 1 = L * (q + 1) + 0 /\ 0 \in 0 .. L - 1
    BY <1>2, <1>5
  <2> QED
    BY <1>3, <2>1
<1> QED
  BY <1>1, <1>2, <1>4, <1>5

Places == 0 .. SegLen - 1

\* The parities are those of no byte at all at first.
LEMMA ParityNone == ASSUME NEW bytes PROVE Pako!Parity(bytes, 0) = Pako!Zero
<1>1. \A k : {p \in 1 .. 0 : (p - 1) % SegLen = k /\ bytes[p]} = {}
  OBVIOUS
<1>2. Cardinality({}) % 2 # 1
  BY FS_EmptySet
<1> QED
  BY <1>1, <1>2, SameCardinality DEF Pako!Parity, Pako!Zero

\* One byte more changes the parity of its own place, if it is set.
LEMMA ParityNext ==
    ASSUME NEW bytes, NEW n \in Nat, bytes[n + 1] \in BOOLEAN, NEW k \in Places
    PROVE  Pako!Parity(bytes, n + 1)[k]
             <=> IF n % SegLen = k THEN ~(Pako!Parity(bytes, n)[k] <=> bytes[n + 1])
                                   ELSE Pako!Parity(bytes, n)[k]
<1> DEFINE P(m) == {p \in 1 .. m : (p - 1) % SegLen = k /\ bytes[p]}
<1>1. IsFiniteSet(P(n)) /\ Cardinality(P(n)) \in Nat
  <2>1. IsFiniteSet(1 .. n)
    BY FS_Interval
  <2> QED
    BY <2>1, FS_Subset, FS_CardinalityType
<1>2. 1 .. n + 1 = (1 .. n) \union {n + 1} /\ n + 1 \notin 1 .. n /\ (n + 1) - 1 = n
  OBVIOUS
<1>3. \A m \in Nat : Pako!Parity(bytes, m)[k] <=> Cardinality(P(m)) % 2 = 1
  BY SameCardinality DEF Pako!Parity, Places
<1>4. CASE n % SegLen = k /\ bytes[n + 1]
  <2>1. P(n + 1) = P(n) \union {n + 1} /\ n + 1 \notin P(n)
    BY <1>2, <1>4
  <2> HIDE DEF P
  <2>2. Cardinality(P(n + 1)) = Cardinality(P(n)) + 1
    BY <1>1, <2>1, FS_AddElement
  <2>3. \A c \in Nat : (c + 1) % 2 = 1 <=> c % 2 # 1
    OBVIOUS
  <2> QED
    BY <1>1, <1>3, <1>4, <2>2, <2>3
<1>5. CASE ~(n % SegLen = k /\ bytes[n + 1])
  <2>1. P(n + 1) = P(n)
    BY <1>2, <1>5
  <2> HIDE DEF P
  <2>2. Pako!Parity(bytes, n + 1)[k] <=> Pako!Parity(bytes, n)[k]
    BY <1>3, <2>1
  <2> QED
    BY <1>5, <2>2
<1> QED
  BY <1>4, <1>5

\* One entry more: its file replaces that of its name, if the entry is intact.
LEMMA FilesNext ==
    ASSUME NEW n \in Nat \ {0}
    PROVE  Pako!FilesOf(n) =
             IF Pako!Intact(archive[n])
             THEN {f \in Pako!FilesOf(n - 1) : f.name # archive[n].name}
                    \union {[name |-> archive[n].name, content |-> archive[n].content]}
             ELSE Pako!FilesOf(n - 1)
<1> DEFINE file(e) == [name |-> archive[e].name, content |-> archive[e].content]
           good(e) == Pako!Intact(archive[e])
           last(e, m) == \A l \in e + 1 .. m : good(l) => archive[l].name # archive[e].name
<1>1. \A m : Pako!FilesOf(m) = {file(e) : e \in {d \in 1 .. m : good(d) /\ last(d, m)}}
  BY DEF Pako!FilesOf
<1>2. \A e : file(e).name = archive[e].name
  OBVIOUS
<1>3. \A e \in 1 .. n : e = n \/ e \in 1 .. n - 1
  OBVIOUS
<1>4. \A e \in 1 .. n - 1 : e \in 1 .. n /\ e # n
  OBVIOUS
<1>5. \A e \in 1 .. n - 1 :
        last(e, n) <=> last(e, n - 1) /\ (good(n) => archive[n].name # archive[e].name)
  <2> TAKE e \in 1 .. n - 1
  <2>1. e + 1 .. n = (e + 1 .. n - 1) \union {n}
    OBVIOUS
  <2> QED
    BY <2>1
<1>6. last(n, n) /\ n \in 1 .. n
  OBVIOUS
<1> HIDE DEF file, good, last
<1>7. CASE good(n)
  <2>1. \A f : f \in Pako!FilesOf(n) <=>
          f = file(n) \/ (f \in Pako!FilesOf(n - 1) /\ f.name # archive[n].name)
    <3> TAKE f
    <3>1. ASSUME f \in Pako!FilesOf(n)
          PROVE  f = file(n) \/ (f \in Pako!FilesOf(n - 1) /\ f.name # archive[n].name)
      <4>1. PICK e \in 1 .. n : good(e) /\ last(e, n) /\ f = file(e)
        BY <1>1, <3>1
      <4>2. CASE e = n
        BY <4>1, <4>2
      <4>3. CASE e \in 1 .. n - 1
        BY <1>1, <1>2, <1>5, <1>7, <4>1, <4>3
      <4> QED
        BY <1>3, <4>2, <4>3
    <3>2. f = file(n) => f \in Pako!FilesOf(n)
      BY <1>1, <1>6, <1>7
    <3>3. ASSUME f \in Pako!FilesOf(n - 1), f.name # archive[n].name
          PROVE  f \in Pako!FilesOf(n)
      <4>1. PICK e \in 1 .. n - 1 : good(e) /\ last(e, n - 1) /\ f = file(e)
        BY <1>1, <3>3
      <4>2. last(e, n) /\ e \in 1 .. n
        BY <1>2, <1>4, <1>5, <3>3, <4>1
      <4> QED
        BY <1>1, <4>1, <4>2
    <3> QED
      BY <3>1, <3>2, <3>3
  <2>2. Pako!FilesOf(n) = {f \in Pako!FilesOf(n - 1) : f.name # archive[n].name}
                            \union {file(n)}
    BY <2>1
  <2> QED
    BY <1>7, <2>2 DEF good, file
<1>8. CASE ~good(n)
  <2>1. \A e : e \in {d \in 1 .. n : good(d) /\ last(d, n)}
                 <=> e \in {d \in 1 .. n - 1 : good(d) /\ last(d, n - 1)}
    BY <1>3, <1>4, <1>5, <1>8
  <2>2. {d \in 1 .. n : good(d) /\ last(d, n)} = {d \in 1 .. n - 1 : good(d) /\ last(d, n - 1)}
    BY <2>1
  <2>3. Pako!FilesOf(n) = Pako!FilesOf(n - 1)
    BY <1>1, <2>2
  <2> QED
    BY <1>8, <2>3 DEF good
<1> QED
  BY <1>7, <1>8

PakoInv == Pako!TypeOK /\ Pako!UnpackInv

\* The entry being read, and its bytes.
LEMMA EntryTypes ==
    ASSUME PakoInv
    PROVE  /\ Len(archive) \in Nat
           /\ i \in Nat \ {0}
           /\ SegLen \in Nat \ {0}
           /\ i <= Len(archive) => /\ Pako!content \in Seq(BOOLEAN)
                                   /\ Len(Pako!content) \in Nat
                                   /\ Pako!content = archive[i].content
<1>1. archive \in Seq([name : Names, content : Seq(BOOLEAN),
                       checksum : [0 .. SegLen - 1 -> BOOLEAN]])
  BY LabsAssumption DEF PakoInv, Pako!TypeOK
<1>2. Len(archive) \in Nat /\ i \in Nat \ {0}
  BY <1>1 DEF PakoInv, Pako!TypeOK
<1>3. ASSUME i <= Len(archive) PROVE archive[i].content \in Seq(BOOLEAN)
  <2> DEFINE Entries == [name : Names, content : Seq(BOOLEAN),
                         checksum : [0 .. SegLen - 1 -> BOOLEAN]]
  <2>1. i \in 1 .. Len(archive)
    BY <1>2, <1>3
  <2>2. \A e \in Entries : e.content \in Seq(BOOLEAN)
    OBVIOUS
  <2>3. archive \in Seq(Entries)
    BY <1>1
  <2> HIDE DEF Entries
  <2>4. archive[i] \in Entries
    BY <2>1, <2>3
  <2> QED
    BY <2>2, <2>4
<1> QED
  BY <1>2, <1>3, LabsAssumption DEF Pako!content

\* The files on disk are those of entries, so the type of disk follows.
LEMMA FilesTypes ==
    ASSUME NEW n \in Nat, NEW m \in Nat, n <= m, NEW f \in Pako!FilesOf(n)
    PROVE  \E e \in 1 .. m : f = [name |-> archive[e].name, content |-> archive[e].content]
<1>1. PICK e \in 1 .. n : f = [name |-> archive[e].name, content |-> archive[e].content]
  BY DEF Pako!FilesOf
<1>2. e \in 1 .. m
  OBVIOUS
<1> QED
  BY <1>1, <1>2

\* Two segments that agree in every place are equal.
LEMMA SegmentsEqual ==
    ASSUME NEW s, NEW t, s = [k \in Places |-> s[k]], t = [k \in Places |-> t[k]],
           \A k \in Places : s[k] = t[k]
    PROVE  s = t
OBVIOUS

\* A byte goes into a place of tmp that was empty: what is in the segments is then
\* the parity of one byte more.
LEMMA ByteAdded ==
    ASSUME PakoInv, state = "bytes", j < Len(Pako!content),
           NEW t, t = [tmp EXCEPT ![counter] = Pako!content[j + 1]]
    PROVE  /\ t \in Pako!Segments
           /\ Pako!Xor(segment_xor, t) = Pako!Parity(Pako!content, j + 1)
           /\ counter \in Places
           /\ \A k \in Places : k > counter => ~t[k]
<1> DEFINE c == Pako!content
           b == Pako!content[j + 1]
<1>1. /\ j \in Nat /\ counter = j % SegLen
      /\ tmp \in [Places -> BOOLEAN] /\ segment_xor \in [Places -> BOOLEAN]
      /\ Pako!Xor(segment_xor, tmp) = Pako!Parity(c, j)
      /\ \A k \in counter .. SegLen - 1 : ~tmp[k]
      /\ i <= Len(archive)
  BY DEF PakoInv, Pako!TypeOK, Pako!UnpackInv, Pako!Summed, Pako!Segments, Places
<1>2. SegLen \in Nat \ {0} /\ c \in Seq(BOOLEAN)
  BY <1>1, EntryTypes
<1>3. b \in BOOLEAN
  BY <1>1, <1>2
<1>4. counter \in Places
  BY <1>1, <1>2, NextPlace DEF Places
<1> HIDE DEF c, b
<1>5. t \in [Places -> BOOLEAN] /\ t[counter] = b
      /\ \A k \in Places \ {counter} : t[k] = tmp[k]
  BY <1>1, <1>3, <1>4 DEF b
<1>6. \A k \in Places : k >= counter => ~tmp[k]
  BY <1>1, <1>2, <1>4 DEF Places
<1>7. \A k \in Places : k > counter => ~t[k]
  BY <1>2, <1>4, <1>5, <1>6 DEF Places
<1>8. \A k \in Places : Pako!Parity(c, j)[k] <=> ~(segment_xor[k] <=> tmp[k])
  <2>1. \A k \in Places : Pako!Xor(segment_xor, tmp)[k] = (segment_xor[k] # tmp[k])
    BY DEF Pako!Xor, Places
  <2> QED
    BY <1>1, <2>1
<1>9. \A k \in Places : Pako!Parity(c, j + 1)[k] <=> ~(segment_xor[k] <=> t[k])
  <2> TAKE k \in Places
  <2>1. Pako!Parity(c, j + 1)[k]
          <=> IF j % SegLen = k THEN ~(Pako!Parity(c, j)[k] <=> b) ELSE Pako!Parity(c, j)[k]
    BY <1>1, <1>3, ParityNext DEF c, b
  <2>2. CASE k = counter
    <3>1. ~tmp[k] /\ t[k] = b
      BY <1>2, <1>4, <1>5, <1>6, <2>2 DEF Places
    <3>2. Pako!Parity(c, j)[k] <=> segment_xor[k]
      BY <1>8, <3>1
    <3>3. Pako!Parity(c, j + 1)[k] <=> ~(Pako!Parity(c, j)[k] <=> b)
      BY <1>1, <2>1, <2>2
    <3> QED
      BY <3>1, <3>2, <3>3
  <2>3. CASE k # counter
    <3>1. t[k] = tmp[k]
      BY <1>5, <2>3
    <3>2. Pako!Parity(c, j + 1)[k] <=> Pako!Parity(c, j)[k]
      BY <1>1, <2>1, <2>3
    <3> QED
      BY <1>8, <3>1, <3>2
  <2> QED
    BY <2>2, <2>3
<1>10. Pako!Xor(segment_xor, t) = Pako!Parity(c, j + 1)
  <2> DEFINE X == Pako!Xor(segment_xor, t)
             Y == Pako!Parity(c, j + 1)
  <2>1. X = [k \in Places |-> X[k]] /\ Y = [k \in Places |-> Y[k]]
    BY DEF Pako!Xor, Pako!Parity, Places
  <2>2. \A k \in Places : X[k] = Y[k]
    <3>1. \A k \in Places : X[k] \in BOOLEAN /\ Y[k] \in BOOLEAN
      BY DEF Pako!Xor, Pako!Parity, Places
    <3>2. \A k \in Places : X[k] <=> ~(segment_xor[k] <=> t[k])
      BY <1>1, <1>5 DEF Pako!Xor, Places
    <3> HIDE DEF X, Y
    <3>3. \A k \in Places : X[k] <=> Y[k]
      BY <1>9, <3>2 DEF Y
    <3> QED
      BY <3>1, <3>3
  <2> HIDE DEF X, Y
  <2>3. X = Y
    BY <2>1, <2>2, SegmentsEqual
  <2> QED
    BY <2>3 DEF X, Y
<1> QED
  BY <1>4, <1>5, <1>7, <1>10 DEF Pako!Segments, Places, c

\* The files are a matter of the archive alone.
LEMMA FilesRigid ==
    ASSUME archive' = archive, NEW n
    PROVE  Pako!FilesOf(n)' = Pako!FilesOf(n)
BY DEF Pako!FilesOf, Pako!Intact, Pako!Checksum, Pako!Parity

\* While an entry is gone through, files and archive stay.
LEMMA EntryStep ==
    ASSUME PakoInv, UNCHANGED <<archive, i, disk>>, Pako!Summed',
           j' \in Nat, tmp' \in Pako!Segments, segment_xor' \in Pako!Segments,
           counter' = j' % SegLen,
           state' \in {"read", "bytes", "compare", "end", "crashed"}
    PROVE  PakoInv'
<1>1. disk' = Pako!FilesOf(i - 1)'
  BY FilesRigid DEF PakoInv, Pako!UnpackInv
<1>2. Pako!Segments' = Pako!Segments
  BY DEF Pako!Segments
<1>3. Pako!TypeOK'
  BY <1>2 DEF PakoInv, Pako!TypeOK
<1> QED
  BY <1>1, <1>3 DEF PakoInv, Pako!UnpackInv

\* The next entry: the files on disk are those of the entries up to the last.
LEMMA NextEntry ==
    ASSUME PakoInv, i <= Len(archive), i' = i + 1, disk' = Pako!FilesOf(i), state' = "read",
           UNCHANGED <<archive, j, tmp, counter, segment_xor>>
    PROVE  PakoInv'
<1>1. Len(archive) \in Nat /\ i \in Nat \ {0} /\ i' - 1 = i /\ i' \in 1 .. Len(archive) + 1
  BY EntryTypes
<1>2. disk' = Pako!FilesOf(i - 1)'
  <2>1. PICK n : n = i
    OBVIOUS
  <2>2. Pako!FilesOf(n)' = Pako!FilesOf(n)
    BY FilesRigid
  <2>3. (i - 1)' = n
    BY <1>1, <2>1
  <2> QED
    BY <2>1, <2>2, <2>3
<1>3. \A f \in disk' : \E e \in 1 .. Len(archive) :
         f = [name |-> archive[e].name, content |-> archive[e].content]
  BY <1>1, FilesTypes
<1>4. Pako!TypeOK'
  BY <1>1, <1>3 DEF PakoInv, Pako!TypeOK, Pako!Segments
<1>5. Pako!Summed'
  BY DEF Pako!Summed
<1> QED
  BY <1>2, <1>4, <1>5 DEF PakoInv, Pako!UnpackInv

\* Nothing is zero in any place.
LEMMA ZeroFacts ==
    /\ Pako!Zero \in Pako!Segments
    /\ \A k \in Places : ~Pako!Zero[k]
    /\ \A s \in Pako!Segments : Pako!Xor(s, Pako!Zero) = s
<1>1. Pako!Zero \in Pako!Segments /\ \A k \in Places : ~Pako!Zero[k]
  BY DEF Pako!Zero, Pako!Segments, Places
<1>2. ASSUME NEW s \in Pako!Segments PROVE Pako!Xor(s, Pako!Zero) = s
  <2> DEFINE X == Pako!Xor(s, Pako!Zero)
  <2>1. X = [k \in Places |-> X[k]] /\ s = [k \in Places |-> s[k]]
    BY DEF Pako!Xor, Pako!Segments, Places
  <2>2. \A k \in Places : X[k] = (s[k] # FALSE) /\ s[k] \in BOOLEAN
    BY DEF Pako!Xor, Pako!Zero, Pako!Segments, Places
  <2> HIDE DEF X
  <2>3. \A k \in Places : X[k] = s[k]
    BY <2>2
  <2>4. X = s
    BY <2>1, <2>3, SegmentsEqual
  <2> QED
    BY <2>4 DEF X
<1> QED
  BY <1>1, <1>2

LEMMA UnpackStep ==
    ASSUME PakoInv, [Pako!Next]_(Pako!vars)
    PROVE  PakoInv'
<1>0. /\ SegLen \in Nat \ {0}
      /\ j \in Nat /\ counter = j % SegLen
      /\ tmp \in Pako!Segments /\ segment_xor \in Pako!Segments
      /\ state \in {"bytes", "compare"} => i <= Len(archive)
      /\ state \in {"read", "bytes", "compare", "end", "crashed"}
      /\ 0 = 0 % SegLen
  BY LabsAssumption DEF PakoInv, Pako!TypeOK, Pako!UnpackInv, Pako!Summed
<1>c. UNCHANGED <<archive, i>> => Pako!content' = Pako!content
  BY DEF Pako!content
<1>1. CASE UNCHANGED Pako!vars
  <2>1. UNCHANGED <<archive, i, j, tmp, counter, segment_xor, disk, state>>
    BY <1>1 DEF Pako!vars
  <2>2. Pako!Summed'
    BY <2>1 DEF PakoInv, Pako!UnpackInv, Pako!Summed, Pako!content, Pako!Xor, Pako!Parity,
                Pako!Checksum
  <2> QED
    BY <1>0, <2>1, <2>2, EntryStep
<1>2. CASE Pako!ReadEntry
  <2>1. /\ UNCHANGED <<archive, i, disk>>
        /\ i <= Len(archive)
        /\ j' = 0 /\ counter' = 0 /\ tmp' = Pako!Zero /\ segment_xor' = Pako!Zero
        /\ state' = "bytes"
    BY <1>2 DEF Pako!ReadEntry
  <2>2. Pako!Xor(segment_xor, tmp)' = Pako!Parity(Pako!content, j)'
    <3>1. Pako!Xor(Pako!Zero, Pako!Zero) = Pako!Parity(Pako!content, 0)
      BY ZeroFacts, ParityNone
    <3> QED
      BY <1>c, <2>1, <3>1 DEF Pako!Xor, Pako!Parity
  <2>3. \A k \in counter' .. SegLen - 1 : ~tmp'[k]
    BY <2>1, ZeroFacts DEF Places
  <2>4. j' <= Len(Pako!content')
    BY <1>c, <2>1, EntryTypes
  <2>5. Pako!Summed'
    BY <2>1, <2>2, <2>3, <2>4 DEF Pako!Summed
  <2> QED
    BY <1>0, <2>1, <2>5, ZeroFacts, EntryStep
<1>3. CASE Pako!Byte
  <2>1. /\ UNCHANGED <<archive, i, segment_xor, disk, state>>
        /\ state = "bytes" /\ j < Len(Pako!content) /\ counter + 1 < SegLen
        /\ tmp' = [tmp EXCEPT ![counter] = Pako!content[j + 1]]
        /\ counter' = counter + 1 /\ j' = j + 1
    BY <1>3 DEF Pako!Byte
  <2>2. /\ tmp' \in Pako!Segments
        /\ Pako!Xor(segment_xor, tmp') = Pako!Parity(Pako!content, j + 1)
        /\ counter \in Places
        /\ \A k \in Places : k > counter => ~tmp'[k]
    BY <2>1, ByteAdded
  <2>3. Pako!Xor(segment_xor, tmp)' = Pako!Parity(Pako!content, j)'
    BY <1>c, <2>1, <2>2 DEF Pako!Xor, Pako!Parity
  <2>4. \A k \in counter' .. SegLen - 1 : ~tmp'[k]
    BY <1>0, <2>1, <2>2 DEF Places
  <2>5. j' \in Nat /\ j' <= Len(Pako!content') /\ counter' = j' % SegLen
    <3>1. j + 1 <= Len(Pako!content)
      BY <1>0, <2>1, EntryTypes
    <3>2. counter' = (j + 1) % SegLen
      BY <1>0, <2>1, NextPlace
    <3> QED
      BY <1>0, <1>c, <2>1, <3>1, <3>2
  <2>6. Pako!Summed'
    BY <1>0, <2>1, <2>3, <2>4, <2>5 DEF Pako!Summed
  <2> QED
    BY <1>0, <2>1, <2>2, <2>5, <2>6, EntryStep
<1>4. CASE Pako!FullSegment
  <2>1. PICK t : t = [tmp EXCEPT ![counter] = Pako!content[j + 1]]
    OBVIOUS
  <2>2. /\ UNCHANGED <<archive, i, disk, state>>
        /\ state = "bytes" /\ j < Len(Pako!content) /\ counter + 1 = SegLen
        /\ segment_xor' = Pako!Xor(segment_xor, t)
        /\ tmp' = Pako!Zero
        /\ counter' = 0 /\ j' = j + 1
    BY <1>4, <2>1 DEF Pako!FullSegment
  <2>3. t \in Pako!Segments /\ segment_xor' = Pako!Parity(Pako!content, j + 1)
    BY <2>1, <2>2, ByteAdded
  <2>4. segment_xor' \in Pako!Segments
    BY <2>3 DEF Pako!Parity, Pako!Segments
  <2>5. Pako!Xor(segment_xor', Pako!Zero) = Pako!Parity(Pako!content, j + 1)
    BY <2>3, <2>4, ZeroFacts
  <2>6. Pako!Xor(segment_xor, tmp)' = Pako!Parity(Pako!content, j)'
    <3>1. Pako!Xor(segment_xor, tmp)' = Pako!Xor(segment_xor', Pako!Zero)
      BY <2>2 DEF Pako!Xor
    <3>2. Pako!content' = Pako!content
      BY <1>c, <2>2
    <3>3. Pako!Parity(Pako!content, j)' = Pako!Parity(Pako!content, j + 1)
      BY <2>2, <3>2 DEF Pako!Parity
    <3> QED
      BY <2>5, <3>1, <3>3
  <2>7. \A k \in counter' .. SegLen - 1 : ~tmp'[k]
    BY <2>2, ZeroFacts DEF Places
  <2>8. j' \in Nat /\ j' <= Len(Pako!content') /\ counter' = j' % SegLen
    <3>1. j + 1 <= Len(Pako!content)
      BY <1>0, <2>2, EntryTypes
    <3>2. counter' = (j + 1) % SegLen
      BY <1>0, <2>2, NextPlace
    <3> QED
      BY <1>0, <1>c, <2>2, <3>1, <3>2
  <2>9. Pako!Summed'
    BY <1>0, <2>2, <2>6, <2>7, <2>8 DEF Pako!Summed
  <2> QED
    BY <1>0, <2>2, <2>4, <2>8, <2>9, ZeroFacts, EntryStep
<1>5. CASE Pako!LastSegment
  <2>1. /\ UNCHANGED <<archive, i, j, tmp, counter, disk>>
        /\ state = "bytes" /\ j = Len(Pako!content)
        /\ segment_xor' = Pako!Xor(segment_xor, tmp)
        /\ state' = "compare"
    BY <1>5 DEF Pako!LastSegment
  <2>2. segment_xor' = Pako!Checksum(Pako!content)
    BY <2>1 DEF PakoInv, Pako!UnpackInv, Pako!Summed, Pako!Checksum
  <2>3. segment_xor' \in Pako!Segments
    BY <2>2 DEF Pako!Checksum, Pako!Parity, Pako!Segments
  <2>4. Pako!Checksum(Pako!content)' = Pako!Checksum(Pako!content)
    BY <1>c, <2>1 DEF Pako!Checksum, Pako!Parity
  <2>5. Pako!Summed'
    BY <1>0, <2>1, <2>2, <2>4 DEF Pako!Summed
  <2> QED
    BY <1>0, <2>1, <2>3, <2>5, EntryStep
<1>6. CASE Pako!Write \/ Pako!Skip
  <2>1. /\ state = "compare" /\ i' = i + 1 /\ state' = "read"
        /\ UNCHANGED <<archive, j, tmp, counter, segment_xor>>
    BY <1>6 DEF Pako!Write, Pako!Skip
  <2>2. i <= Len(archive) /\ i \in Nat \ {0} /\ Pako!content = archive[i].content
    BY <1>0, <2>1, EntryTypes
  <2>3. segment_xor = Pako!Checksum(archive[i].content) /\ disk = Pako!FilesOf(i - 1)
    BY <2>1, <2>2 DEF PakoInv, Pako!UnpackInv, Pako!Summed
  <2>4. CASE Pako!Write
    <3>1. disk' = {f \in disk : f.name # archive[i].name}
                    \union {[name |-> archive[i].name, content |-> archive[i].content]}
      BY <2>2, <2>4 DEF Pako!Write
    <3>2. Pako!Intact(archive[i])
      BY <2>3, <2>4 DEF Pako!Write, Pako!Intact
    <3>3. disk' = Pako!FilesOf(i)
      BY <2>2, <2>3, <3>1, <3>2, FilesNext
    <3> QED
      BY <2>1, <2>2, <3>3, NextEntry
  <2>5. CASE Pako!Skip
    <3>1. ~Pako!Intact(archive[i]) /\ disk' = disk
      BY <2>3, <2>5 DEF Pako!Skip, Pako!Intact
    <3>2. disk' = Pako!FilesOf(i)
      BY <2>2, <2>3, <3>1, FilesNext
    <3> QED
      BY <2>1, <2>2, <3>2, NextEntry
  <2> QED
    BY <1>6, <2>4, <2>5
<1>7. CASE Pako!Crash \/ Pako!End
  <2>1. /\ UNCHANGED <<archive, i, j, tmp, counter, segment_xor, disk>>
        /\ state' \in {"crashed", "end"}
    BY <1>7 DEF Pako!Crash, Pako!End
  <2>2. Pako!Summed'
    BY <2>1 DEF Pako!Summed
  <2> QED
    BY <1>0, <2>1, <2>2, EntryStep
<1> QED
  BY <1>1, <1>2, <1>3, <1>4, <1>5, <1>6, <1>7 DEF Pako!Next

LEMMA PakoInvariant == Pako!Spec => []PakoInv
<1>1. Pako!Init => PakoInv
  <2> SUFFICES ASSUME Pako!Init PROVE PakoInv
    OBVIOUS
  <2>1. /\ archive \in Archives /\ i = 1 /\ j = 0 /\ counter = 0 /\ disk = {}
        /\ tmp = Pako!Zero /\ segment_xor = Pako!Zero /\ state = "read"
        /\ SegLen \in Nat \ {0}
    BY LabsAssumption DEF Pako!Init
  <2>2. Len(archive) \in Nat
    BY <2>1, LabsAssumption
  <2>3. Pako!TypeOK
    BY <2>1, <2>2, ZeroFacts DEF Pako!TypeOK
  <2>4. Pako!FilesOf(i - 1) = {}
    <3>1. 1 .. i - 1 = {}
      BY <2>1
    <3> QED
      BY <3>1 DEF Pako!FilesOf
  <2> QED
    BY <2>1, <2>3, <2>4 DEF PakoInv, Pako!UnpackInv, Pako!Summed
<1>2. PakoInv /\ [Pako!Next]_(Pako!vars) => PakoInv'
  BY UnpackStep
<1> QED
  BY <1>1, <1>2, PTL DEF Pako!Spec

(***************************************************************************)
(* The paced sender.  The first three lemmas are the only place where      *)
(* numbers are multiplied or divided.                                      *)
(***************************************************************************)
\* Room for one round: what was allowed up to a moment, and what the time since
\* then allows, is allowed up to now.
LEMMA Room ==
    ASSUME NEW r \in Nat, NEW a \in Nat, NEW b \in Nat, NEW c \in Nat, NEW d \in Nat,
           a <= b, b <= c, c <= d
    PROVE  /\ r * (c - b) \in Nat
           /\ r * (b - a) + r * (c - b) <= r * (d - a)
<1>1. r * (c - b) \in Nat /\ r * (d - c) \in Nat
  OBVIOUS
<1>2. r * (b - a) + r * (c - b) + r * (d - c) = r * (d - a)
  OBVIOUS
<1> QED
  BY <1>1, <1>2

\* More time allows for more.
LEMMA More ==
    ASSUME NEW r \in Nat, NEW a \in Nat, NEW b \in Nat, NEW c \in Nat, a <= b, b <= c
    PROVE  r * (b - a) \in Int /\ r * (c - a) \in Int /\ r * (b - a) <= r * (c - a)
BY Room

\* A number modulo another is not more than it.
LEMMA Modulo ==
    ASSUME NEW w \in Nat \ {0}, NEW n \in Int
    PROVE  n % w \in Nat /\ (n >= 0 => n % w <= n)
OBVIOUS

LEMMA PacerTypes ==
    ASSUME Sender!TypeOK, Sender!PacedSoFar, [Sender!Next]_(Sender!vars)
    PROVE  Sender!TypeOK'
<1>0. Rate \in Nat /\ Width \in Nat \ {0}
  BY LabsAssumption
<1>1. CASE Sender!Write
  <2>1. PICK n \in 0 .. Rate * (end - start) : bytesent' = (bytesent + n) % Width
    BY <1>1 DEF Sender!Write
  <2>2. n \in Int /\ bytesent + n \in Int
    BY <2>1 DEF Sender!TypeOK
  <2>3. bytesent' \in Nat
    BY <1>0, <2>1, <2>2, Modulo
  <2> QED
    BY <1>1, <2>3 DEF Sender!Write, Sender!TypeOK
<1>2. CASE Sender!WriteFails
  <2>1. bytesent - 1 \in Int
    BY DEF Sender!TypeOK
  <2>2. bytesent' \in Nat
    BY <1>0, <1>2, <2>1, Modulo DEF Sender!WriteFails
  <2> QED
    BY <1>2, <2>2 DEF Sender!WriteFails, Sender!TypeOK
<1>3. CASE UNCHANGED Sender!vars \/ Sender!Tick \/ Sender!Measure \/ Sender!Killed
           \/ Sender!Stamp \/ Sender!Sleep \/ Sender!Interrupt
  BY <1>3 DEF Sender!vars, Sender!Tick, Sender!Measure, Sender!Killed,
                 Sender!Stamp, Sender!Sleep, Sender!Interrupt, Sender!TypeOK
<1> QED
  BY <1>1, <1>2, <1>3 DEF Sender!Next

LEMMA PacedStep ==
    ASSUME Sender!TypeOK, Sender!PacedSoFar, [Sender!Next]_(Sender!vars)
    PROVE  Sender!PacedSoFar'
<1>0. /\ t0 <= start /\ start <= now
      /\ t0 \in Nat /\ start \in Nat /\ now \in Nat /\ bytesent \in Nat
      /\ Rate \in Nat /\ Width \in Nat \ {0}
  BY LabsAssumption DEF Sender!TypeOK, Sender!PacedSoFar
<1> DEFINE allowed == Rate * (start - t0)
           allowedNow == Rate * (now - t0)
<1>m. allowed \in Int /\ allowedNow \in Int /\ allowed <= allowedNow
  BY <1>0, More
<1>1. CASE UNCHANGED Sender!vars
  BY <1>1 DEF Sender!vars, Sender!PacedSoFar
<1>2. CASE Sender!Tick
  <2>1. now' \in Nat /\ now <= now' /\ UNCHANGED <<t0, start, end, bytesent, pace, connected>>
    BY <1>0, <1>2 DEF Sender!Tick
  <2> DEFINE next == now'
             allowedNext == Rate * (next - t0)
  <2>2. allowedNext \in Int /\ allowedNow <= allowedNext
    <3>1. next \in Nat /\ t0 <= now /\ now <= next
      BY <1>0, <2>1
    <3> HIDE DEF next
    <3> QED
      BY <1>0, <3>1, More
  <2>3. end \in Nat
    BY DEF Sender!TypeOK
  <2>6. t0' <= start' /\ start' <= now' /\ (pace' = "write" => start' <= end' /\ end' <= now')
    BY <1>0, <2>1, <2>3 DEF Sender!PacedSoFar
  <2> HIDE DEF allowed, allowedNow, next, allowedNext
  <2>4. CASE pace \in {"measure", "write", "sleep"}
    BY <2>1, <2>4, <2>6 DEF Sender!PacedSoFar
  <2>5. CASE pace \notin {"measure", "write", "sleep"}
    <3>1. connected => bytesent <= allowedNow
      BY <2>5 DEF Sender!PacedSoFar, allowedNow
    <3>2. connected => bytesent <= allowedNext
      BY <1>0, <1>m, <2>2, <3>1
    <3> QED
      BY <2>1, <2>5, <2>6, <3>2 DEF Sender!PacedSoFar, allowedNext, next
  <2> QED
    BY <2>4, <2>5
<1>3. CASE Sender!Measure
  BY <1>0, <1>3 DEF Sender!Measure, Sender!PacedSoFar
<1>4. CASE Sender!Write
  <2>1. PICK n \in 0 .. Rate * (end - start) : bytesent' = (bytesent + n) % Width
    BY <1>4 DEF Sender!Write
  <2>2. /\ pace = "write" /\ connected /\ pace' = "stamp"
        /\ UNCHANGED <<now, t0, start, end, connected>>
    BY <1>4 DEF Sender!Write
  <2>3. end \in Nat /\ start <= end /\ end <= now /\ bytesent <= allowed
    BY <2>2 DEF Sender!PacedSoFar, Sender!TypeOK
  <2>4. Rate * (end - start) \in Nat /\ allowed + Rate * (end - start) <= allowedNow
    BY <1>0, <2>3, Room
  <2> HIDE DEF allowed, allowedNow
  <2>5. n \in Nat /\ bytesent + n <= allowedNow
    BY <1>0, <1>m, <2>1, <2>3, <2>4
  <2>8. bytesent + n \in Int /\ bytesent + n >= 0
    BY <1>0, <2>5
  <2>6. bytesent' \in Nat /\ bytesent' <= bytesent + n
    BY <1>0, <2>1, <2>8, Modulo
  <2>7. bytesent' <= allowedNow
    BY <1>0, <1>m, <2>5, <2>6
  <2> QED
    BY <1>0, <2>2, <2>7 DEF Sender!PacedSoFar, allowedNow
<1>5. CASE Sender!WriteFails
  BY <1>0, <1>5 DEF Sender!WriteFails, Sender!PacedSoFar
<1>6. CASE Sender!Killed \/ Sender!Interrupt
  <2>1. pace' = "end" /\ UNCHANGED <<now, t0, start, end, bytesent, connected>>
    BY <1>6 DEF Sender!Killed, Sender!Interrupt
  <2>2. connected => bytesent <= allowed \/ bytesent <= allowedNow
    BY DEF Sender!PacedSoFar
  <2> HIDE DEF allowed, allowedNow
  <2>3. connected => bytesent <= allowedNow
    BY <1>0, <1>m, <2>2
  <2> QED
    BY <1>0, <2>1, <2>3 DEF Sender!PacedSoFar, allowedNow
<1>7. CASE Sender!Stamp
  BY <1>0, <1>7 DEF Sender!Stamp, Sender!PacedSoFar
<1>8. CASE Sender!Sleep
  BY <1>0, <1>8 DEF Sender!Sleep, Sender!PacedSoFar
<1> QED
  BY <1>1, <1>2, <1>3, <1>4, <1>5, <1>6, <1>7, <1>8 DEF Sender!Next

\* The sender's part of the invariant.
PacerInv == Sender!TypeOK /\ Sender!PacedSoFar

LEMMA PacerInvariant == Sender!Spec => []PacerInv
<1>1. Sender!Init => PacerInv
  <2> SUFFICES ASSUME Sender!Init PROVE PacerInv
    OBVIOUS
  <2>0. Rate \in Nat
    BY LabsAssumption
  <2>1. Sender!TypeOK
    BY <2>0 DEF Sender!Init, Sender!TypeOK
  <2>2. t0 <= start /\ start <= now /\ 0 <= Rate * (start - t0)
    BY <2>0, Room DEF Sender!Init
  <2> QED
    BY <2>1, <2>2 DEF Sender!Init, PacerInv, Sender!PacedSoFar
<1>2. PacerInv /\ [Sender!Next]_(Sender!vars) => PacerInv'
  BY PacerTypes, PacedStep DEF PacerInv
<1> QED
  BY <1>1, <1>2, PTL DEF Sender!Spec

\* What is allowed up to the last stamp is allowed up to now.
LEMMA PacedNow == PacerInv => Paced
<1> SUFFICES ASSUME PacerInv PROVE Paced
  OBVIOUS
<1>1. /\ t0 <= start /\ start <= now
      /\ t0 \in Nat /\ start \in Nat /\ now \in Nat /\ bytesent \in Nat /\ Rate \in Nat
  BY LabsAssumption DEF PacerInv, Sender!TypeOK, Sender!PacedSoFar
<1> DEFINE allowed == Rate * (start - t0)
           allowedNow == Rate * (now - t0)
<1>2. allowed \in Int /\ allowedNow \in Int /\ allowed <= allowedNow
  BY <1>1, More
<1>3. connected => bytesent <= allowed \/ bytesent <= allowedNow
  BY DEF PacerInv, Sender!PacedSoFar
<1> HIDE DEF allowed, allowedNow
<1>4. connected => bytesent <= allowedNow
  BY <1>1, <1>2, <1>3
<1> QED
  BY <1>4 DEF Paced, Sender!Paced, allowedNow

(***************************************************************************)
(* The programs together.                                                  *)
(***************************************************************************)
\* Every behaviour of Labs is a behaviour of each of the programs, four of which
\* never take a step in it.
LEMMA EachProgram ==
    LabsSpec => Spec /\ Oraclep!Spec /\ Nkat!Spec /\ Pako!Spec /\ Sender!Spec
<1>1. LabsInit => Init /\ Oraclep!Init /\ Nkat!Init /\ Pako!Init /\ Sender!Init
  BY DEF LabsInit
<1>2. [LabsNext]_allVars => [Next]_vars
  BY DEF LabsNext, allVars
<1>3. [LabsNext]_allVars => [Oraclep!Next]_(Oraclep!vars)
  BY DEF LabsNext, allVars, oracleVars, Oraclep!vars
<1>4. [LabsNext]_allVars => [Nkat!Next]_(Nkat!vars)
  BY DEF LabsNext, allVars, nkatVars, Nkat!vars
<1>5. [LabsNext]_allVars => [Pako!Next]_(Pako!vars)
  BY DEF LabsNext, allVars, pakoVars, Pako!vars
<1>6. [LabsNext]_allVars => [Sender!Next]_(Sender!vars)
  BY DEF LabsNext, allVars, pacerVars, Sender!vars
<1> QED
  BY <1>1, <1>2, <1>3, <1>4, <1>5, <1>6, PTL
     DEF LabsSpec, Spec, Oraclep!Spec, Nkat!Spec, Pako!Spec, Sender!Spec

\* Every variable of every program keeps its type: the solver's frame stays on the
\* board, no index leaves a segment, and what is on disk is the content of an entry.
THEOREM ProgramsTypeCorrect == LabsSpec => []ProgramsTypeOK
<1>1. TypeOK /\ SecretsInv /\ CommandInv /\ PakoInv /\ PacerInv => ProgramsTypeOK
  BY DEF ProgramsTypeOK, SecretsInv, CommandInv, PakoInv, PacerInv
<1> QED
  BY <1>1, EachProgram, TypeCorrect, SecretsInvariant, CommandInvariant, PakoInvariant,
     PacerInvariant, PTL

\* In oraclep1.c guesses are compared with, and the last stage shows, the secret
\* that was made for that oracle, however many oracles share the static buffer.
THEOREM SecretsAreKept == LabsSpec => []SecretKept
<1>1. SecretsInv => SecretKept
  BY TextOfSecret DEF SecretsInv, Oraclep!TypeOK, HasOwn, SecretKept, Oraclep!SecretKept
<1> QED
  BY <1>1, EachProgram, SecretsInvariant, PTL

\* The command server leaves no child, running or as a zombie, when it turns to the
\* next connection or exits, whether or not fork succeeded.
THEOREM NoZombies == LabsSpec => []NoChildLeft
<1>1. CommandInv => NoChildLeft
  BY DEF CommandInv, NoChildLeft
<1> QED
  BY <1>1, EachProgram, CommandInvariant, PTL

\* For segments of any length and archives of any size the files in the
\* destination are those of the intact entries gone through.
THEOREM OnlyIntactWritten == LabsSpec => []OnlyIntact
<1>1. PakoInv => OnlyIntact
  BY DEF PakoInv, Pako!UnpackInv, OnlyIntact, Pako!OnlyIntact
<1> QED
  BY <1>1, EachProgram, PakoInvariant, PTL

\* For every rate, and whenever time passes: as long as no write has failed, the
\* sender is not ahead of its rate.
THEOREM NeverAhead == LabsSpec => []Paced
  BY EachProgram, PacerInvariant, PacedNow, PTL
=============================================================================
