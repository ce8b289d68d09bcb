-------------------------- MODULE FileTransferProofs --------------------------
(***************************************************************************)
(* Type correctness of FileTransfer, that only what the server holds is    *)
(* acknowledged, and that files are stored whole and once, for any files   *)
(* that fit the arrays of both programs (the assumption on Size: at most   *)
(* 32 segments each, and at most 1005 files), over a link that loses,      *)
(* delays, reorders and repeats packets, until the programs are killed.    *)
(***************************************************************************)
EXTENDS FileTransfer, FiniteSetTheorems, SequenceTheorems, TLAPS

(***************************************************************************)
(* Lemmas.                                                                 *)
(***************************************************************************)
\* The segments are the pairs of a file and one of its indices.
LEMMA SegmentPairs ==
    /\ \A f \in Files : \A s \in SegsOf(f) : <<f, s>> \in Segments
    /\ \A p \in Segments : p[1] \in Files /\ p[2] \in SegsOf(p[1]) /\ p = <<p[1], p[2]>>
BY DEF Segments

\* A file has as many segments as its size says.
LEMMA SegsFinite ==
    ASSUME NEW f \in Files
    PROVE  /\ Size[f] \in Nat
           /\ IsFiniteSet(SegsOf(f))
           /\ Cardinality(SegsOf(f)) = Size[f]
           /\ SegsOf(f) \subseteq Nat
<1>1. Size[f] \in Nat
  BY ConstAssumption
<1>2. IsFiniteSet(SegsOf(f)) /\ Cardinality(SegsOf(f)) = Size[f]
  <2>1. 0 \in Int /\ Size[f] - 1 \in Int
    BY <1>1
  <2>2. IsFiniteSet(0 .. Size[f] - 1)
        /\ Cardinality(0 .. Size[f] - 1) = IF 0 > Size[f] - 1 THEN 0 ELSE Size[f] - 1 - 0 + 1
    BY <2>1, FS_Interval
  <2>3. (IF 0 > Size[f] - 1 THEN 0 ELSE Size[f] - 1 - 0 + 1) = Size[f]
    BY <1>1
  <2> QED
    BY <2>2, <2>3 DEF SegsOf
<1> QED
  BY <1>1, <1>2 DEF SegsOf

\* What the server holds of a file is a finite part of it, and all of it when
\* there is as much as the file's size.
LEMMA HeldWhole ==
    ASSUME NEW f \in Files, NEW h
    PROVE  /\ HeldOf(f, h) \in SUBSET SegsOf(f)
           /\ IsFiniteSet(HeldOf(f, h))
           /\ Cardinality(HeldOf(f, h)) \in Nat
           /\ Cardinality(HeldOf(f, h)) = Size[f] => HeldOf(f, h) = SegsOf(f)
<1>1. HeldOf(f, h) \in SUBSET SegsOf(f)
  BY DEF HeldOf
<1> QED
  BY <1>1, SegsFinite, FS_Subset, FS_CardinalityType

\* Holding one more segment adds what strlen measures of it to its file, and
\* nothing to another.
LEMMA HeldGrows ==
    ASSUME NEW p \in Segments, NEW h, p \notin h
    PROVE  /\ Cardinality(HeldOf(p[1], h \union {p})) = Cardinality(HeldOf(p[1], h)) + StrLen(p)
           /\ \A f \in Files : f # p[1] => HeldOf(f, h \union {p}) = HeldOf(f, h)
<1>1. p[1] \in Files /\ p[2] \in SegsOf(p[1]) /\ p = <<p[1], p[2]>>
  BY SegmentPairs
<1>2. \A f \in Files : f # p[1] => HeldOf(f, h \union {p}) = HeldOf(f, h)
  <2>1. ASSUME NEW f \in Files, f # p[1], NEW s PROVE <<f, s>> # p
    BY <1>1, <2>1
  <2> QED
    BY <2>1 DEF HeldOf
<1> DEFINE f == p[1]
           s == p[2]
<1>3. p[2] \notin HeldOf(p[1], h)
  BY <1>1 DEF HeldOf
<1>4. CASE p \in Cut
  <2>1. HeldOf(p[1], h \union {p}) = HeldOf(p[1], h)
    BY <1>1, <1>4 DEF HeldOf
  <2> QED
    BY <1>1, <1>2, <1>4, <2>1, HeldWhole DEF StrLen
<1>5. CASE p \notin Cut
  <2>1. \A t : <<p[1], t>> = p <=> t = p[2]
    BY <1>1
  <2>2. HeldOf(p[1], h \union {p}) = HeldOf(p[1], h) \union {p[2]}
    BY <1>1, <1>5, <2>1 DEF HeldOf
  <2> QED
    BY <1>1, <1>2, <1>3, <1>5, <2>2, HeldWhole, FS_AddElement DEF StrLen
<1> QED
  BY <1>4, <1>5

\* Indices inside the files are inside the arrays.
LEMMA InsideArrays ==
    ASSUME NEW f \in Files, NEW s \in 0 .. Size[f]
    PROVE  f < MaxFiles /\ s <= OffsetSize /\ (s < Size[f] => s < OffsetSize)
BY ConstAssumption DEF Files

(***************************************************************************)
(* Type correctness.                                                       *)
(***************************************************************************)
\* Every variable keeps its type; in particular the client indexes its lists inside
\* their bounds, when every file fits in a row of them: where it waits for an
\* acknowledgement, j is below both the file's size and the row's.
THEOREM TypeCorrect == Spec => []TypeOK
<1>1. Init => TypeOK
  <2> SUFFICES ASSUME Init PROVE TypeOK
    OBVIOUS
  <2>1. i \in Files /\ j \in 0 .. Size[i]
    <3>1. 0 \in Files
      BY ConstAssumption DEF Files
    <3>2. Size[0] \in Nat
      BY <3>1, ConstAssumption
    <3> QED
      BY <3>1, <3>2 DEF Init
  <2>2. pc # "recv"
    BY DEF Init
  <2> QED
    BY <2>1, <2>2, InsideArrays DEF Init, TypeOK
<1>2. TypeOK /\ [Next]_vars => TypeOK'
  <2> SUFFICES ASSUME TypeOK, [Next]_vars PROVE TypeOK'
    OBVIOUS
  <2>1. i \in Files /\ i \in Nat /\ j \in Nat /\ Size[i] \in Nat /\ NumFiles \in Nat \ {0}
    BY ConstAssumption DEF TypeOK, Files
  <2>2. CASE UNCHANGED vars
    BY <2>2 DEF vars, clientVars, serverVars, TypeOK
  <2>3. CASE NextFile
    <3>1. i' \in Files
      BY <2>1, <2>3 DEF NextFile, Files
    <3>2. j' \in 0 .. Size[i']
      BY <2>3, <3>1, ConstAssumption DEF NextFile
    <3>3. pc' # "recv"
      BY <2>3 DEF NextFile
    <3> QED
      BY <2>3, <3>1, <3>2, <3>3, InsideArrays DEF NextFile, serverVars, TypeOK
  <2>4. CASE SkipSegment
    <3>1. j < Size[i]
      <4>1. <<i, j>> \in Segments
        BY <2>4 DEF SkipSegment, TypeOK
      <4>2. j \in SegsOf(i)
        BY <4>1, SegmentPairs
      <4> QED
        BY <2>1, <4>2 DEF SegsOf
    <3>2. j' \in 0 .. Size[i']
      BY <2>1, <2>4, <3>1 DEF SkipSegment
    <3>3. pc' # "recv" /\ i' \in Files
      BY <2>1, <2>4 DEF SkipSegment
    <3> QED
      BY <2>4, <3>2, <3>3, InsideArrays DEF SkipSegment, serverVars, TypeOK
  <2>5. CASE SendSegment
    <3>1. <<i, j>> \in Segments
      BY <2>1, <2>5, SegmentPairs DEF SendSegment, SegsOf
    <3>2. i' = i /\ j' = j /\ j < Size[i] /\ j \in 0 .. Size[i]
      BY <2>5 DEF SendSegment, TypeOK
    <3> QED
      BY <2>1, <2>5, <3>1, <3>2, InsideArrays DEF SendSegment, serverVars, TypeOK
  <2>6. CASE Timeout
    <3>1. j' \in 0 .. Size[i']
      BY <2>1, <2>6 DEF Timeout, TypeOK
    <3>2. pc' # "recv" /\ i' \in Files
      BY <2>1, <2>6 DEF Timeout
    <3> QED
      BY <2>6, <3>1, <3>2, InsideArrays DEF Timeout, serverVars, TypeOK
  <2>7. ASSUME NEW a \in Segments, ReceiveAck(a) PROVE TypeOK'
    <3>1. j' \in 0 .. Size[i']
      BY <2>1, <2>7 DEF ReceiveAck, TypeOK
    <3>2. pc' # "recv" /\ i' \in Files
      BY <2>1, <2>7 DEF ReceiveAck
    <3> QED
      BY <2>7, <3>1, <3>2, InsideArrays DEF ReceiveAck, serverVars, TypeOK
  <2>8. ASSUME NEW p \in Segments, Receive(p) PROVE TypeOK'
    <3>1. data' \subseteq Segments /\ acks' \subseteq Segments /\ held' \subseteq Segments
      BY <2>8 DEF Receive, TypeOK
    <3>2. p[1] \in Files /\ StrLen(p) \in Nat
      BY SegmentPairs DEF StrLen
    <3>3. file_len' \in [Files -> Nat]
      <4>1. file_len[p[1]] + StrLen(p) \in Nat /\ file_len \in [Files -> Nat]
        BY <3>2 DEF TypeOK
      <4>2. \/ file_len' = file_len
            \/ file_len' = [file_len EXCEPT ![p[1]] = file_len[p[1]] + StrLen(p)]
        BY <2>8 DEF Receive
      <4> QED
        BY <4>1, <4>2
    <3>4. file_fin' \in [Files -> BOOLEAN]
      <4>1. file_fin' = file_fin \/ file_fin' = [file_fin EXCEPT ![p[1]] = TRUE]
        BY <2>8 DEF Receive
      <4> QED
        BY <4>1 DEF TypeOK
    <3>5. written' \in [Files -> Seq(SUBSET Nat)]
      <4>1. HeldOf(p[1], held') \in SUBSET Nat
        BY <3>2, HeldWhole, SegsFinite
      <4>2. Append(written[p[1]], HeldOf(p[1], held')) \in Seq(SUBSET Nat)
        BY <3>2, <4>1 DEF TypeOK
      <4>3. \/ written' = written
            \/ written' = [written EXCEPT ![p[1]] = Append(written[p[1]], HeldOf(p[1], held'))]
        BY <2>8 DEF Receive
      <4> QED
        BY <4>2, <4>3 DEF TypeOK
    <3> QED
      BY <2>8, <3>1, <3>3, <3>4, <3>5 DEF Receive, clientVars, TypeOK
  <2>9. ASSUME NEW p \in Segments, Lose(p) PROVE TypeOK'
    BY <2>9 DEF Lose, clientVars, serverVars, TypeOK
  <2>10. ASSUME NEW a \in Segments, Arrive(a) PROVE TypeOK'
    BY <2>10 DEF Arrive, serverVars, TypeOK
  <2>11. CASE Kill
    <3>1. i' \in Files /\ j' \in 0 .. Size[i'] /\ pc' # "recv"
      <4>1. 0 \in Files
        BY ConstAssumption DEF Files
      <4> QED
        BY <2>11, <4>1, ConstAssumption DEF Kill
    <3>2. written' \in [Files -> Seq(SUBSET Nat)]
      <4>1. CASE UNCHANGED written
        BY <4>1 DEF TypeOK
      <4>2. ASSUME NEW p \in data \ held, NEW n \in 0 .. Size[p[1]],
                   written' = [written EXCEPT ![p[1]] = Append(@, Beginning(p, n))]
            PROVE  written' \in [Files -> Seq(SUBSET Nat)]
        <5>1. p[1] \in Files
          BY SegmentPairs DEF TypeOK
        <5>2. Beginning(p, n) \in SUBSET Nat
          BY <5>1, HeldWhole, SegsFinite DEF Beginning
        <5>3. Append(written[p[1]], Beginning(p, n)) \in Seq(SUBSET Nat)
          BY <5>1, <5>2 DEF TypeOK
        <5> QED
          BY <4>2, <5>3 DEF TypeOK
      <4> QED
        BY <2>11, <4>1, <4>2 DEF Kill
    <3> QED
      BY <2>11, <3>1, <3>2, InsideArrays DEF Kill, TypeOK
  <2> QED
    BY <2>2, <2>3, <2>4, <2>5, <2>6, <2>7, <2>8, <2>9, <2>10, <2>11 DEF Next, ClientNext
<1> QED
  BY <1>1, <1>2, PTL DEF Spec

(***************************************************************************)
(* Acknowledged segments are held, and files are written whole and once.   *)
(***************************************************************************)
LEMMA TransferInvariant == Spec => []TransferInv
<1>1. Init => TransferInv
  <2> SUFFICES ASSUME Init PROVE TransferInv
    OBVIOUS
  <2>1. \A f \in Files : HeldOf(f, {}) = {}
    BY DEF HeldOf
  <2>2. \A f \in Files : f \in Plain => Size[f] # 0
    BY ConstAssumption DEF Plain
  <2> QED
    BY <2>1, <2>2, FS_EmptySet DEF Init, TransferInv, AckedHeld
<1>2. TypeOK /\ TransferInv /\ [Next]_vars => TransferInv'
  <2> SUFFICES ASSUME TypeOK, TransferInv, [Next]_vars PROVE TransferInv'
    OBVIOUS
  <2>1. CASE \/ UNCHANGED vars
             \/ ~down /\ (ClientNext \/ \E p \in Segments : Lose(p) \/ Arrive(p))
    <3>1. UNCHANGED serverVars /\ acks' \subseteq acks /\ inq' \subseteq inq \union acks
          /\ acked' \subseteq acked \union inq /\ (acked' = acked \/ ~down)
      BY <2>1 DEF vars, clientVars, serverVars, ClientNext, NextFile, SkipSegment, SendSegment,
                  Timeout, ReceiveAck, Lose, Arrive
    <3> QED
      BY <3>1 DEF serverVars, TransferInv, AckedHeld
  <2>2. ASSUME ~down, NEW p \in Segments, Receive(p) PROVE TransferInv'
    <3> DEFINE f == p[1]
    <3>1. f \in Files
      BY SegmentPairs
    <3>2. /\ held' = held \union {p} /\ acks' = acks \union {p} /\ inq' = inq /\ acked' = acked
          /\ down' = down
      BY <2>2 DEF Receive, clientVars
    <3>3. CASE p \in held
      <4>1. held' = held /\ UNCHANGED <<file_len, written, file_fin>>
        BY <2>2, <3>2, <3>3 DEF Receive
      <4> QED
        BY <3>2, <3>3, <4>1 DEF TransferInv, AckedHeld
    <3>4. CASE p \notin held
      <4>1. file_len' = [file_len EXCEPT ![f] = file_len[f] + StrLen(p)]
        BY <2>2, <3>4 DEF Receive
      <4>2. \A g \in Files : file_len'[g] = Cardinality(HeldOf(g, held'))
        <5>1. \A g \in Files : file_len[g] = Cardinality(HeldOf(g, held))
          BY DEF TransferInv
        <5> QED
          BY <3>1, <3>2, <3>4, <4>1, <5>1, HeldGrows DEF TypeOK
      <4>3. \/ /\ file_len'[f] = Size[f] /\ ~file_fin[f]
               /\ written' = [written EXCEPT ![f] = Append(written[f], HeldOf(f, held'))]
               /\ file_fin' = [file_fin EXCEPT ![f] = TRUE]
            \/ /\ UNCHANGED <<written, file_fin>>
               /\ f \in Plain /\ file_len'[f] = Size[f] => file_fin[f]
        BY <2>2, <3>4, <4>1, <3>1 DEF Receive, Plain, Completes, Opens, TypeOK
      <4>4. \A g \in Files : file_fin[g] => file_len'[g] = Size[g]
        <5>1. ASSUME NEW g \in Files, file_fin[g] PROVE file_len'[g] = Size[g]
          <6>1. HeldOf(g, held) = SegsOf(g)
            BY <5>1, HeldWhole DEF TransferInv
          <6>2. HeldOf(g, held') = SegsOf(g)
            BY <3>2, <6>1 DEF HeldOf
          <6> QED
            BY <4>2, <6>2, SegsFinite
        <5> QED
          BY <5>1
      <4>5. CASE /\ UNCHANGED <<written, file_fin>>
                 /\ f \in Plain /\ file_len'[f] = Size[f] => file_fin[f]
        <5>1. \A g \in Files : g \in Plain /\ file_len'[g] = Size[g] => file_fin[g]
          BY <4>1, <4>5 DEF TransferInv, TypeOK
        <5> QED
          BY <3>2, <4>2, <4>4, <4>5, <5>1 DEF TransferInv, AckedHeld
      <4>6. CASE /\ file_len'[f] = Size[f] /\ ~file_fin[f]
                 /\ written' = [written EXCEPT ![f] = Append(written[f], HeldOf(f, held'))]
                 /\ file_fin' = [file_fin EXCEPT ![f] = TRUE]
        <5>1. HeldOf(f, held') = SegsOf(f)
          BY <3>1, <4>2, <4>6, HeldWhole
        <5>2. written[f] = <<>>
          BY <2>2, <3>1, <4>6 DEF TransferInv
        <5>3. Append(written[f], HeldOf(f, held')) = <<SegsOf(f)>>
          BY <5>1, <5>2
        <5>4. \A g \in Files : written'[g] = IF file_fin'[g] THEN <<SegsOf(g)>> ELSE <<>>
          BY <2>2, <3>1, <4>6, <5>3 DEF TransferInv, TypeOK
        <5>5. \A g \in Files : file_fin'[g] => file_len'[g] = Size[g]
          BY <3>1, <4>4, <4>6 DEF TypeOK
        <5>6. \A g \in Files : g \in Plain /\ file_len'[g] = Size[g] => file_fin'[g]
          BY <3>1, <4>1, <4>6 DEF TransferInv, TypeOK
        <5> QED
          BY <3>2, <4>2, <5>4, <5>5, <5>6 DEF TransferInv, AckedHeld
      <4> QED
        BY <4>3, <4>5, <4>6
    <3> QED
      BY <3>3, <3>4
  <2>3. CASE Kill
    <3>1. \A f \in Files : HeldOf(f, {}) = {}
      BY DEF HeldOf
    <3>2. \A f \in Files : f \in Plain => Size[f] # 0
      BY ConstAssumption DEF Plain
    <3> QED
      BY <2>3, <3>1, <3>2, FS_EmptySet DEF Kill, TransferInv, AckedHeld
  <2> QED
    BY <2>1, <2>2, <2>3 DEF Next
<1> QED
  BY <1>1, <1>2, TypeCorrect, PTL DEF Spec

\* The client stops sending a segment only when the server holds it: a lost
\* acknowledgement costs another round, never a segment.
THEOREM AckedIsHeld == Spec => []AckedHeld
<1>1. TransferInv => AckedHeld
  BY DEF TransferInv
<1> QED
  BY <1>1, TransferInvariant, PTL

\* When every segment of a plain file was acknowledged, the file is in the server's
\* directory: main writes it in the round that counts its last segment (line 98 of
\* server.cpp), and no round after that would.
THEOREM SilentIsStored == Spec => []SilentStored
<1>1. TransferInv => SilentStored
  <2> SUFFICES ASSUME TransferInv, NEW f \in Plain, {f} \X SegsOf(f) \subseteq acked
               PROVE  Stored[f] = "whole"
    BY DEF SilentStored
  <2>1. f \in Files /\ \A s \in SegsOf(f) : <<f, s>> \notin Cut
    BY DEF Plain
  <2>2. \A s \in SegsOf(f) : <<f, s>> \in held
    <3>1. \A s \in SegsOf(f) : <<f, s>> \in {f} \X SegsOf(f)
      OBVIOUS
    <3> QED
      BY <3>1 DEF TransferInv, AckedHeld
  <2>3. HeldOf(f, held) = SegsOf(f)
    BY <2>1, <2>2 DEF HeldOf
  <2>4. file_len[f] = Size[f]
    <3>1. file_len[f] = Cardinality(HeldOf(f, held))
      BY <2>1 DEF TransferInv
    <3>2. Cardinality(SegsOf(f)) = Size[f]
      BY <2>1, SegsFinite
    <3> QED
      BY <2>3, <3>1, <3>2
  <2>5. ~down
    <3>1. <<f, 0>> \in {f} \X SegsOf(f)
      BY <2>1, ConstAssumption DEF Plain, SegsOf
    <3> QED
      BY <3>1 DEF TransferInv
  <2>6. written[f] = <<SegsOf(f)>>
    BY <2>1, <2>4, <2>5 DEF TransferInv
  <2> QED
    BY <2>1, <2>6 DEF Stored
<1> QED
  BY <1>1, TransferInvariant, PTL

\* When one file changes in the server's directory, the directory changes there.
LEMMA StoredOne ==
    ASSUME NEW f \in Files, NEW b, Stored'[f] = b,
           \A g \in Files : g # f => Stored'[g] = Stored[g]
    PROVE  Stored' = [Stored EXCEPT ![f] = b]
<1>1. /\ Stored' = [g \in Files |-> Stored'[g]]
      /\ Stored = [g \in Files |-> Stored[g]]
  BY DEF Stored
<1> HIDE DEF Stored
<1> QED
  BY <1>1

\* The transfer implements the safety part of FileStore: every step leaves the
\* server's directory alone or adds one file to it, whole, that was not there; only
\* when the server is killed may the file that is added be broken.
THEOREM StoresWhole == Spec => Store!Spec
<1>1. Init => Store!Init
  BY DEF Init, Store!Init, Stored
<1>2. TypeOK /\ TransferInv /\ TransferInv' /\ [Next]_vars => [Store!Next]_<<Stored, down>>
  <2> SUFFICES ASSUME TypeOK, TransferInv, TransferInv', [Next]_vars
               PROVE  [Store!Next]_<<Stored, down>>
    OBVIOUS
  <2>1. \A f \in Files : <<SegsOf(f)>> # <<>>
    OBVIOUS
  <2>2. CASE UNCHANGED <<written, down>>
    BY <2>2 DEF Stored
  <2>3. ASSUME ~down, NEW p \in Segments, Receive(p), ~UNCHANGED written
        PROVE  Store!Put(p[1])
    <3> DEFINE f == p[1]
    <3>1. f \in Files
      BY SegmentPairs
    <3>2. /\ ~file_fin[f]
          /\ written' = [written EXCEPT ![f] = Append(written[f], HeldOf(f, held'))]
          /\ file_fin' = [file_fin EXCEPT ![f] = TRUE]
          /\ down' = down
      BY <2>3 DEF Receive, Completes
    <3>3. written[f] = <<>> /\ written'[f] = <<SegsOf(f)>>
      BY <2>3, <3>1, <3>2 DEF TransferInv, TypeOK
    <3>4. \A g \in Files : g # f => written'[g] = written[g]
      BY <3>2 DEF TypeOK
    <3>5. Stored[f] = "absent" /\ Stored'[f] = "whole"
      BY <2>1, <3>1, <3>3 DEF Stored
    <3>6. \A g \in Files : g # f => Stored'[g] = Stored[g]
      BY <3>4 DEF Stored
    <3>7. Stored' = [Stored EXCEPT ![f] = "whole"]
      BY <3>1, <3>5, <3>6, StoredOne
    <3> QED
      BY <2>3, <3>2, <3>5, <3>7 DEF Store!Put
  <2>4. CASE UNCHANGED vars \/ ClientNext \/ (\E p \in Segments : Lose(p) \/ Arrive(p))
    <3>1. UNCHANGED <<written, down>>
      BY <2>4 DEF vars, clientVars, serverVars, ClientNext, NextFile, SkipSegment, SendSegment,
                  Timeout, ReceiveAck, Lose, Arrive
    <3> QED
      BY <2>2, <3>1
  <2>5. ASSUME ~down, NEW p \in Segments, Receive(p) PROVE [Store!Next]_<<Stored, down>>
    <3>1. p[1] \in Files /\ down' = down
      BY <2>5, SegmentPairs DEF Receive
    <3> QED
      BY <2>2, <2>3, <2>5, <3>1 DEF Store!Next
  <2>6. ASSUME ~down, Kill PROVE Store!Kill
    <3>1. CASE UNCHANGED written
      BY <2>6, <3>1 DEF Kill, Store!Kill, Stored
    <3>2. ASSUME NEW p \in data \ held, NEW n \in 0 .. Size[p[1]], Completes(p),
                 written' = [written EXCEPT ![p[1]] = Append(@, Beginning(p, n))]
          PROVE  Store!Kill
      <4> DEFINE f == p[1]
                 b == IF Beginning(p, n) = SegsOf(f) THEN "whole" ELSE "broken"
      <4>1. f \in Files
        BY SegmentPairs DEF TypeOK
      <4>2. written[f] = <<>>
        BY <2>6, <3>2, <4>1 DEF TransferInv, Completes
      <4>3. written'[f] = <<Beginning(p, n)>>
        BY <3>2, <4>1, <4>2 DEF TypeOK
      <4>4. \A g \in Files : g # f => written'[g] = written[g]
        BY <3>2 DEF TypeOK
      <4>5. Stored[f] = "absent"
        BY <4>1, <4>2 DEF Stored
      <4>6. Stored'[f] = b
        BY <4>1, <4>3 DEF Stored
      <4>7. \A g \in Files : g # f => Stored'[g] = Stored[g]
        BY <4>4 DEF Stored
      <4>8. Stored' = [Stored EXCEPT ![f] = b]
        BY <4>1, <4>6, <4>7, StoredOne
      <4>9. b \in {"broken", "whole"} /\ down' = TRUE
        BY <2>6 DEF Kill
      <4> HIDE DEF b, f
      <4> QED
        BY <2>6, <4>1, <4>5, <4>8, <4>9 DEF Store!Kill
    <3> QED
      BY <2>6, <3>1, <3>2 DEF Kill
  <2> QED
    BY <2>4, <2>5, <2>6 DEF Next, Store!Next
<1> QED
  BY <1>1, <1>2, TypeCorrect, TransferInvariant, PTL DEF Spec, Store!Spec
=============================================================================
