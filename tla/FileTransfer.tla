---------------------------- MODULE FileTransfer ----------------------------
(***************************************************************************)
(* The file transfer over UDP of Lab8: client.cpp sends every segment of   *)
(* every file again and again until it is acknowledged; server.cpp         *)
(* acknowledges what it gets, keeps the segments in memory, and writes a   *)
(* file when the lengths of its segments add up to the file's size.        *)
(*                                                                         *)
(* A segment stands for up to 1024 bytes, and lengths are counted in       *)
(* segments.  The server measures a segment with strlen, so one with a NUL *)
(* byte counts for less than it is (here: nothing).                        *)
(*                                                                         *)
(* Both programs have arrays of 1005 files of 32 segments and test no      *)
(* index against them: the model is about files that fit.                  *)
(***************************************************************************)
EXTENDS Integers, Sequences, FiniteSets

CONSTANTS
    MaxFiles,   \* the rows of the arrays: 1005
    OffsetSize, \* offset_size, the segments in a row: 32
    NumFiles,   \* num_of_file
    Size,       \* the number of segments of each file
    Cut,        \* the segments that contain a NUL byte
    Unwritable  \* the files that fopen may fail to create at the server

Files == 0 .. NumFiles - 1
SegsOf(f) == 0 .. Size[f] - 1
Segments == UNION {{f} \X SegsOf(f) : f \in Files}

ASSUME ConstAssumption ==
    /\ MaxFiles \in Nat
    /\ OffsetSize \in Nat
    /\ NumFiles \in 1 .. MaxFiles
    /\ Size \in [Files -> 0 .. OffsetSize]
    /\ Cut \subseteq Segments
    /\ Unwritable \subseteq Files

VARIABLES
    acked,      \* check_list of the client
    pc, i, j,   \* the client: the call it is in, and its loop indices
    data, acks, \* the packets and acknowledgements on the link
    inq,        \* the acknowledgements in the client's socket buffer
    held,       \* check_list of the server, and what file_tmp holds
    file_len,
    file_fin,
    written,    \* what was appended to each file: a sequence of sets of segments
    down        \* the programs were killed

clientVars == <<acked, pc, i, j, inq>>
serverVars == <<held, file_len, file_fin, written, down>>
vars == <<clientVars, serverVars, data, acks>>

Init ==
    /\ acked = {}
    /\ pc = "file"
    /\ i = 0
    /\ j = 0
    /\ data = {}
    /\ acks = {}
    /\ inq = {}
    /\ held = {}
    /\ file_len = [f \in Files |-> 0]
    /\ file_fin = [f \in Files |-> FALSE]
    /\ written = [f \in Files |-> <<>>]
    /\ down = FALSE

(***************************************************************************)
(* A definition whose name begins with Bad is a plausible mistake in the   *)
(* definition that follows it: no action uses it, and a property is known  *)
(* to fail when it takes the place of the definition.                      *)
(***************************************************************************)

(***************************************************************************)
(* The client.                                                             *)
(***************************************************************************)
\* The end of the loop over the files starts it again, for ever.
NextFile ==
    /\ pc = "file"
    /\ j >= Size[i]
    /\ i' = IF i + 1 = NumFiles THEN 0 ELSE i + 1
    /\ j' = 0
    /\ UNCHANGED <<inq, acked, pc, serverVars, data, acks>>

\* Ending the loop where it should go on.
BadSkipSegment ==
    /\ pc = "file"
    /\ <<i, j>> \in acked
    /\ j' = Size[i]
    /\ UNCHANGED <<inq, acked, pc, i, serverVars, data, acks>>

SkipSegment ==
    /\ pc = "file"
    /\ <<i, j>> \in acked
    /\ j' = j + 1
    /\ UNCHANGED <<inq, acked, pc, i, serverVars, data, acks>>

\* Sending one segment more than the file has.
BadSendSegment ==
    /\ pc = "file"
    /\ j <= Size[i]
    /\ <<i, j>> \notin acked
    /\ data' = data \union {<<i, j>>}
    /\ pc' = "recv"
    /\ UNCHANGED <<inq, acked, i, j, serverVars, acks>>

SendSegment ==
    /\ pc = "file"
    /\ j < Size[i]
    /\ <<i, j>> \notin acked
    /\ data' = data \union {<<i, j>>}
    /\ pc' = "recv"
    /\ UNCHANGED <<inq, acked, i, j, serverVars, acks>>

\* Taking any acknowledgement for that of the segment just sent.
BadReceiveAck(a) ==
    /\ pc = "recv"
    /\ a \in inq
    /\ inq' = inq \ {a}
    /\ acked' = acked \union {<<i, j>>}
    /\ pc' = "file"
    /\ j' = j + 1
    /\ UNCHANGED <<i, serverVars, data, acks>>

\* The acknowledgement that recvfrom returns may be for any segment sent so far.
ReceiveAck(a) ==
    /\ pc = "recv"
    /\ a \in inq
    /\ inq' = inq \ {a}
    /\ acked' = acked \union {a}
    /\ pc' = "file"
    /\ j' = j + 1
    /\ UNCHANGED <<i, serverVars, data, acks>>

\* The receive timeout is one microsecond: without an acknowledgement in the
\* buffer it may always be over first.
Timeout ==
    /\ pc = "recv"
    /\ inq = {}
    /\ pc' = "file"
    /\ j' = j + 1
    /\ UNCHANGED <<inq, acked, i, serverVars, data, acks>>

(***************************************************************************)
(* The server.                                                             *)
(***************************************************************************)
StrLen(p) == IF p \in Cut THEN 0 ELSE 1

HeldOf(f, h) == {s \in SegsOf(f) : <<f, s>> \in h /\ <<f, s>> \notin Cut}

\* Segment p makes the lengths add up to the size, for the first time.
Completes(p) == file_len[p[1]] + StrLen(p) = Size[p[1]] /\ ~file_fin[p[1]]

\* What fopen may answer.
Opens(f) == IF f \in Unwritable THEN BOOLEAN ELSE {TRUE}

\* A segment that was received before is kept and counted again.
BadReceive(p) ==
    LET f == p[1] IN
    /\ p \in data
    /\ data' \in {data, data \ {p}}
    /\ acks' = acks \union {p}
    /\ held' = held \union {p}
    /\ file_len' = [file_len EXCEPT ![f] = @ + StrLen(p)]
    /\ \E opened \in Opens(f) :
         IF Completes(p) /\ opened
         THEN /\ written' = [written EXCEPT ![f] = Append(@, HeldOf(f, held'))]
              /\ file_fin' = [file_fin EXCEPT ![f] = TRUE]
         ELSE UNCHANGED <<written, file_fin>>
    /\ UNCHANGED <<clientVars, down>>

\* Testing for completeness before the segment is counted.
BadReceiveEarly(p) ==
    LET f == p[1] IN
    /\ p \in data
    /\ data' \in {data, data \ {p}}
    /\ acks' = acks \union {p}
    /\ held' = held \union {p}
    /\ IF p \in held THEN UNCHANGED <<file_len, written, file_fin>>
       ELSE /\ file_len' = [file_len EXCEPT ![f] = @ + StrLen(p)]
            /\ IF file_len[f] = Size[f] /\ ~file_fin[f]
               THEN /\ written' = [written EXCEPT ![f] = Append(@, HeldOf(f, held'))]
                    /\ file_fin' = [file_fin EXCEPT ![f] = TRUE]
               ELSE UNCHANGED <<written, file_fin>>
    /\ UNCHANGED <<clientVars, down>>

\* A segment is acknowledged first (a second time if it was received before),
\* then stored and counted; the file is written when it is complete.  When
\* fopen fails nothing is left to try again: every segment was received.  A
\* round is one step, unless Kill cuts it off: nobody sees its middle, but for the
\* acknowledgement, which may be at the client before its end.
Receive(p) ==
    LET f == p[1] IN
    /\ p \in data
    /\ data' \in {data, data \ {p}}
    /\ acks' = acks \union {p}
    /\ held' = held \union {p}
    /\ IF p \in held THEN UNCHANGED <<file_len, written, file_fin>>
       ELSE /\ file_len' = [file_len EXCEPT ![f] = @ + StrLen(p)]
            /\ \E opened \in Opens(f) :
                 IF Completes(p) /\ opened
                 THEN /\ written' = [written EXCEPT ![f] = Append(@, HeldOf(f, held'))]
                      /\ file_fin' = [file_fin EXCEPT ![f] = TRUE]
                 ELSE UNCHANGED <<written, file_fin>>
    /\ UNCHANGED <<clientVars, down>>

\* The first n segments of the file that p completes.
Beginning(p, n) == {s \in HeldOf(p[1], held \union {p}) : s < n}

\* The challenge server kills both programs at some time (about 300 s), the server
\* in the middle of a round as well: when it was writing the file that segment p
\* completes, the first segments of the file are there, or none of them.  What
\* the programs had in memory is gone, and what is on the link reaches nobody.
Kill ==
    /\ down' = TRUE
    /\ \/ UNCHANGED written
       \/ \E p \in data \ held : \E n \in 0 .. Size[p[1]] :
            /\ Completes(p)
            /\ written' = [written EXCEPT ![p[1]] = Append(@, Beginning(p, n))]
    /\ pc' = "file" /\ i' = 0 /\ j' = 0
    /\ acked' = {} /\ data' = {} /\ acks' = {} /\ inq' = {} /\ held' = {}
    /\ file_len' = [f \in Files |-> 0]
    /\ file_fin' = [f \in Files |-> FALSE]

(***************************************************************************)
(* The link: packets are lost, delayed and reordered, and delivered twice  *)
(* (Receive and Arrive may leave what they take on the link).              *)
(***************************************************************************)
Lose(p) ==
    /\ \/ p \in data /\ data' = data \ {p} /\ acks' = acks
       \/ p \in acks /\ acks' = acks \ {p} /\ data' = data
    /\ UNCHANGED <<clientVars, serverVars>>

Arrive(a) ==
    /\ a \in acks
    /\ acks' \in {acks, acks \ {a}}
    /\ inq' = inq \union {a}
    /\ UNCHANGED <<acked, pc, i, j, serverVars, data>>

ClientNext ==
    \/ NextFile \/ SkipSegment \/ SendSegment \/ Timeout
    \/ \E a \in Segments : ReceiveAck(a)

Next ==
    /\ ~down
    /\ \/ ClientNext
       \/ \E p \in Segments : Receive(p) \/ Lose(p) \/ Arrive(p)
       \/ Kill

Spec == Init /\ [][Next]_vars

\* The client never stops; of what is sent again and again the link delivers
\* some, in both directions.
FairSpec ==
    /\ Spec
    /\ WF_vars(~down /\ ClientNext)
    /\ \A p \in Segments : /\ SF_vars(~down /\ Receive(p))
                          /\ SF_vars(~down /\ Arrive(p))
                          /\ SF_vars(~down /\ ReceiveAck(p))

(***************************************************************************)
(* Properties.                                                             *)
(***************************************************************************)
\* Every variable keeps its type: the link carries segments of the client's files
\* only, and the client's indices stay inside the arrays of both programs (1005
\* files of 32 segments), in particular where the acknowledgement is waited for.
TypeOK ==
    /\ acked \subseteq Segments
    /\ pc \in {"file", "recv"}
    /\ i \in Files
    /\ j \in 0 .. Size[i]
    /\ pc = "recv" => j < Size[i]
    /\ i < MaxFiles
    /\ j <= OffsetSize
    /\ pc = "recv" => j < OffsetSize
    /\ data \subseteq Segments
    /\ acks \subseteq Segments
    /\ inq \subseteq Segments
    /\ held \subseteq Segments
    /\ file_len \in [Files -> Nat]
    /\ file_fin \in [Files -> BOOLEAN]
    /\ written \in [Files -> Seq(SUBSET Nat)]
    /\ down \in BOOLEAN

\* The client stops sending a segment only when the server has received it,
\* whatever was lost, delayed or acknowledged twice, and keeps it (at the latest at
\* the end of its round).
AckedHeld == acked \subseteq held

\* The files that have something to send, are text and can be created.
Plain == {f \in Files : /\ Size[f] > 0
                        /\ f \notin Unwritable
                        /\ \A s \in SegsOf(f) : <<f, s>> \notin Cut}

\* Why that is so, and why a file is written whole and once, and in time: an
\* acknowledgement is only sent for what the server received, file_len counts what
\* it keeps, and the segment that completes a plain file has it written.
TransferInv ==
    /\ acks \subseteq held
    /\ inq \subseteq held
    /\ AckedHeld
    /\ down => acked = {}
    /\ \A f \in Files :
         /\ file_len[f] = Cardinality(HeldOf(f, held))
         /\ down \/ written[f] = IF file_fin[f] THEN <<SegsOf(f)>> ELSE <<>>
         /\ file_fin[f] => file_len[f] = Size[f]
         /\ f \in Plain /\ file_len[f] = Size[f] => file_fin[f]

\* What the directory holds of a file: nothing, the file, or something else.
Stored ==
    [f \in Files |-> CASE written[f] = <<>> -> "absent"
                       [] written[f] = <<SegsOf(f)>> -> "whole"
                       [] OTHER -> "broken"]

\* The client has nothing left to send of a plain file only when the file is in
\* the server's directory, whole: nothing would make the server write it later.
SilentStored ==
    \A f \in Plain : {f} \X SegsOf(f) \subseteq acked => Stored[f] = "whole"

Store == INSTANCE FileStore WITH Due <- Plain, store <- Stored

\* The transfer implements FileStore: files appear whole and once, only the kill
\* may leave one that is not whole, and without it every plain file does appear.
StoreSpec == Store!FairSpec

\* The client falls silent: every segment is acknowledged in the end, unless the
\* programs are killed before.
AllAcked == <>(acked = Segments \/ down)
=============================================================================
