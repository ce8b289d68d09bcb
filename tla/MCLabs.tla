------------------------------- MODULE MCLabs -------------------------------
(***************************************************************************)
(* The instance of Labs for TLC: boards and archives.                      *)
(***************************************************************************)
EXTENDS Labs, TLC

\* Boards with boxes of two by two: with one solution, with several, with none,
\* and one where each number that fits in a row is refused by a column or a box.
Board(s) == [c \in Cells |-> s[c + 1]]
MCBoards == {
    Board(<<1,2,3,4, 3,0,0,2, 0,1,4,3, 0,0,0,0>>),
    Board(<<0,0,3,4, 3,4,0,0, 0,1,0,3, 4,3,0,1>>),
    Board(<<1,0,0,0, 0,3,0,0, 3,4,2,1, 2,1,4,3>>),
    Board(<<0,0,4,3, 0,0,2,1, 3,0,0,0, 2,1,3,4>>),
    Board(<<1,2,3,0, 0,0,0,4, 2,1,4,3, 4,3,0,0>>)}

\* Segments of two bytes, and entries of no, one and a half, and two segments,
\* with the right checksum or a wrong one.
Entry(name, content, checksum) == [name |-> name, content |-> content, checksum |-> checksum]
Sum(a, b) == (0 :> a) @@ (1 :> b)
MCEntries == {
    Entry("f1", <<>>, Sum(FALSE, FALSE)),
    Entry("f1", <<TRUE, TRUE, TRUE>>, Sum(FALSE, TRUE)),
    Entry("f1", <<TRUE, TRUE, TRUE>>, Sum(TRUE, TRUE)),
    Entry("f2", <<FALSE, TRUE, TRUE, TRUE>>, Sum(TRUE, FALSE)),
    Entry("f2", <<FALSE, TRUE, TRUE, TRUE>>, Sum(TRUE, TRUE)),
    Entry("no/f", <<TRUE>>, Sum(TRUE, FALSE))}
MCArchives == {<<a, b>> : a, b \in MCEntries}
=============================================================================
