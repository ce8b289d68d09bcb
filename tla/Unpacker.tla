------------------------------ MODULE Unpacker ------------------------------
(***************************************************************************)
(* The unpacker of Lab2/unpacker.cpp: for each entry of the archive it     *)
(* reads the content, xors it in segments, and writes the file if the      *)
(* result is the entry's checksum.  Xor treats the bits of a byte apart,   *)
(* so a byte is one bit here.                                              *)
(***************************************************************************)
EXTENDS Integers, Sequences, FiniteSets

CONSTANTS
    Archives,   \* sequences of entries [name, content, checksum]
    SegLen,     \* bytes of a segment, 8 in the program
    Unwritable  \* names fopen cannot create in the destination

VARIABLES
    archive,
    i, j,           \* the entry, and the byte of its content
    tmp, counter,   \* the segment being filled, and how far
    segment_xor,
    disk,           \* the files written
    state           \* "read", "bytes", "compare", "end" or "crashed"

vars == <<archive, i, j, tmp, counter, segment_xor, disk, state>>

Segments == [0 .. SegLen - 1 -> BOOLEAN]
Zero == [k \in 0 .. SegLen - 1 |-> FALSE]
Xor(s, t) == [k \in 0 .. SegLen - 1 |-> s[k] # t[k]]

Init ==
    /\ archive \in Archives
    /\ i = 1
    /\ j = 0
    /\ tmp = Zero
    /\ counter = 0
    /\ segment_xor = Zero
    /\ disk = {}
    /\ state = "read"

\* The entry's content is read into a buffer; tmp, counter and the segments are
\* the loop's own variables.
ReadEntry ==
    /\ state = "read"
    /\ i <= Len(archive)
    /\ j' = 0
    /\ tmp' = Zero
    /\ counter' = 0
    /\ segment_xor' = Zero
    /\ state' = "bytes"
    /\ UNCHANGED <<archive, i, disk>>

content == archive[i].content

Byte ==
    /\ state = "bytes"
    /\ j < Len(content)
    /\ counter + 1 < SegLen
    /\ tmp' = [tmp EXCEPT ![counter] = content[j + 1]]
    /\ counter' = counter + 1
    /\ j' = j + 1
    /\ UNCHANGED <<archive, i, segment_xor, disk, state>>

\* A mistake no action makes: the segment is not cleared for the next one.
BadFullSegment ==
    /\ state = "bytes"
    /\ j < Len(content)
    /\ counter + 1 = SegLen
    /\ tmp' = [tmp EXCEPT ![counter] = content[j + 1]]
    /\ segment_xor' = Xor(segment_xor, tmp')
    /\ counter' = 0
    /\ j' = j + 1
    /\ UNCHANGED <<archive, i, disk, state>>

\* The segment is full: it is added, and cleared.
FullSegment ==
    /\ state = "bytes"
    /\ j < Len(content)
    /\ counter + 1 = SegLen
    /\ segment_xor' = Xor(segment_xor, [tmp EXCEPT ![counter] = content[j + 1]])
    /\ tmp' = Zero
    /\ counter' = 0
    /\ j' = j + 1
    /\ UNCHANGED <<archive, i, disk, state>>

\* What is left is the last segment, even if nothing is.
LastSegment ==
    /\ state = "bytes"
    /\ j = Len(content)
    /\ segment_xor' = Xor(segment_xor, tmp)
    /\ state' = "compare"
    /\ UNCHANGED <<archive, i, j, tmp, counter, disk>>

\* fopen truncates the file that is there.
Write ==
    /\ state = "compare"
    /\ archive[i].checksum = segment_xor
    /\ archive[i].name \notin Unwritable
    /\ disk' = {f \in disk : f.name # archive[i].name}
                 \union {[name |-> archive[i].name, content |-> content]}
    /\ i' = i + 1
    /\ state' = "read"
    /\ UNCHANGED <<archive, j, tmp, counter, segment_xor>>

Skip ==
    /\ state = "compare"
    /\ archive[i].checksum # segment_xor
    /\ i' = i + 1
    /\ state' = "read"
    /\ UNCHANGED <<archive, j, tmp, counter, segment_xor, disk>>

\* fopen's result is not tested: fwrite is given NULL.
Crash ==
    /\ state = "compare"
    /\ archive[i].checksum = segment_xor
    /\ archive[i].name \in Unwritable
    /\ state' = "crashed"
    /\ UNCHANGED <<archive, i, j, tmp, counter, segment_xor, disk>>

End ==
    /\ state = "read"
    /\ i > Len(archive)
    /\ state' = "end"
    /\ UNCHANGED <<archive, i, j, tmp, counter, segment_xor, disk>>

Next ==
    \/ ReadEntry \/ Byte \/ FullSegment \/ LastSegment
    \/ Write \/ Skip \/ Crash \/ End

Spec == Init /\ [][Next]_vars

(***************************************************************************)
(* Properties.                                                             *)
(***************************************************************************)
TypeOK ==
    /\ archive \in Archives
    /\ i \in 1 .. Len(archive) + 1
    /\ j \in Nat
    /\ tmp \in Segments /\ segment_xor \in Segments
    /\ counter = j % SegLen
    /\ \A f \in disk : \E e \in 1 .. Len(archive) :
         f = [name |-> archive[e].name, content |-> archive[e].content]
    /\ state \in {"read", "bytes", "compare", "end", "crashed"}

\* The checksum of the format: byte k of it is the xor of all bytes whose place
\* in the file is k modulo the length of a segment; here, of the first n bytes.
Parity(bytes, n) ==
    [k \in 0 .. SegLen - 1 |->
        Cardinality({p \in 1 .. n : (p - 1) % SegLen = k /\ bytes[p]}) % 2 = 1]

Checksum(bytes) == Parity(bytes, Len(bytes))

Intact(e) == e.checksum = Checksum(e.content)

\* The files of the first n entries: of each name, the last whose checksum is right.
FilesOf(n) ==
    {[name |-> archive[e].name, content |-> archive[e].content] :
        e \in {e \in 1 .. n :
                 /\ Intact(archive[e])
                 /\ \A l \in e + 1 .. n :
                      Intact(archive[l]) => archive[l].name # archive[e].name}}

\* The files in the destination are those of the entries gone through whose
\* checksum is right, each with the content of the last one of its name (README
\* of Lab2: "Do not unpack the files having incorrect checksums").
OnlyIntact == state = "read" => disk = FilesOf(i - 1)

\* Why: what was added to segment_xor and what is in tmp make up the checksum of
\* the bytes read so far, and tmp has nothing yet where the next byte goes.
Summed ==
    /\ state \in {"bytes", "compare"} => i <= Len(archive)
    /\ state = "bytes" => /\ j <= Len(content)
                          /\ Xor(segment_xor, tmp) = Parity(content, j)
                          /\ \A k \in counter .. SegLen - 1 : ~tmp[k]
    /\ state = "compare" => segment_xor = Checksum(content)

UnpackInv == Summed /\ disk = FilesOf(i - 1)
=============================================================================
