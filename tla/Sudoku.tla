------------------------------- MODULE Sudoku -------------------------------
(***************************************************************************)
(* The sudoku solver of Lab9/solver.cpp: backtrace() fills the empty cells *)
(* in order, tests each number with isPlace(), and sends every solution it *)
(* finds to the puzzle server; it goes on until all numbers were tried,    *)
(* and only then asks the server to check the board.                       *)
(* (Lab9/solve_sudoku.cpp is the same search; it prints what it finds.)    *)
(*                                                                         *)
(* The recursion needs no stack: the frame of a cell knows where it was    *)
(* from the number in the cell, and whether it was to fill the cell from   *)
(* ifsend.                                                                 *)
(***************************************************************************)
EXTENDS Integers

CONSTANTS
    Box,    \* the side of a box, 3 in the program
    Boards  \* the boards the server may ask for

Side == Box * Box
Last == Side * Side
Cells == 0 .. Last - 1
Row(c) == c \div Side
Col(c) == c % Side
BoxOf(c) == <<Row(c) \div Box, Col(c) \div Box>>

\* Two cells that may not have the same number.
Peers(c, d) == c # d /\ (Row(c) = Row(d) \/ Col(c) = Col(d) \/ BoxOf(c) = BoxOf(d))

ASSUME BoardAssumption ==
    /\ Box \in Nat \ {0}
    /\ \A b \in Boards :
         /\ b \in [Cells -> 0 .. Side]
         /\ \A c, d \in Cells : Peers(c, d) => b[c] = 0 \/ b[c] # b[d]

VARIABLES
    map, ifsend,
    count, at,  \* the frame of backtrace that runs, and where it is
    board,      \* the server's board
    sent        \* history: the boards sent

vars == <<map, ifsend, count, at, board, sent>>

\* main: the board is asked for and read into map and ifsend.
Init ==
    /\ map \in Boards
    /\ ifsend = {c \in Cells : map[c] = 0}
    /\ count = 0
    /\ at = "call"
    /\ board = map
    /\ sent = {}

(***************************************************************************)
(* A definition whose name begins with Bad is a plausible mistake in the   *)
(* definition that follows it: no action uses it, and a property is known  *)
(* to fail when it takes the place of the definition.                      *)
(***************************************************************************)

\* Reading "same row and column" for "same row or column" in the test of the box,
\* and leaving the test of the columns to it.
BadisPlace(c) ==
    \A d \in Cells :
        /\ Row(d) = Row(c) /\ Col(d) # Col(c) => map[d] # map[c]
        /\ BoxOf(d) = BoxOf(c) /\ Row(d) # Row(c) /\ Col(d) # Col(c) => map[d] # map[c]

\* The test of the box skips the row and the column of the cell, which were
\* tested before.
isPlace(c) ==
    \A d \in Cells :
        /\ Row(d) = Row(c) /\ Col(d) # Col(c) => map[d] # map[c]
        /\ Col(d) = Col(c) /\ Row(d) # Row(c) => map[d] # map[c]
        /\ BoxOf(d) = BoxOf(c) /\ Row(d) # Row(c) /\ Col(d) # Col(c) => map[d] # map[c]

\* A cell that has its number already.
SkipCell ==
    /\ at = "call"
    /\ count < Last
    /\ map[count] # 0
    /\ count' = count + 1
    /\ UNCHANGED <<map, ifsend, at, board, sent>>

FirstNumber ==
    /\ at = "call"
    /\ count < Last
    /\ map[count] = 0
    /\ map' = [map EXCEPT ![count] = 1]
    /\ at' = "try"
    /\ UNCHANGED <<ifsend, count, board, sent>>

Place ==
    /\ at = "try"
    /\ isPlace(count)
    /\ count' = count + 1
    /\ at' = "call"
    /\ UNCHANGED <<map, ifsend, board, sent>>

\* The loop over the numbers goes on: one was refused, or all that follows from
\* it was tried.
Refused ==
    \/ at = "try" /\ ~isPlace(count)
    \/ at = "return" /\ count \in ifsend

\* One number too many.
BadNextNumber ==
    /\ Refused
    /\ map[count] <= Side
    /\ map' = [map EXCEPT ![count] = @ + 1]
    /\ at' = "try"
    /\ UNCHANGED <<ifsend, count, board, sent>>

NextNumber ==
    /\ Refused
    /\ map[count] < Side
    /\ map' = [map EXCEPT ![count] = @ + 1]
    /\ at' = "try"
    /\ UNCHANGED <<ifsend, count, board, sent>>

\* Leaving the last number in the cell.
BadGiveUp ==
    /\ Refused
    /\ map[count] = Side
    /\ count' = count - 1
    /\ at' = "return"
    /\ UNCHANGED <<map, ifsend, board, sent>>

GiveUp ==
    /\ Refused
    /\ map[count] = Side
    /\ map' = [map EXCEPT ![count] = 0]
    /\ count' = count - 1
    /\ at' = "return"
    /\ UNCHANGED <<ifsend, board, sent>>

\* Back in the frame of a cell that was skipped.
SkipBack ==
    /\ at = "return"
    /\ count >= 0
    /\ count \notin ifsend
    /\ count' = count - 1
    /\ UNCHANGED <<map, ifsend, at, board, sent>>

\* All cells have a number: the server is sent those of the empty cells, one
\* "v" after the other, and the search goes on.
Send ==
    /\ at = "call"
    /\ count = Last
    /\ board' = [c \in Cells |-> IF c \in ifsend THEN map[c] ELSE board[c]]
    /\ sent' = sent \union {board'}
    /\ count' = count - 1
    /\ at' = "return"
    /\ UNCHANGED <<map, ifsend>>

\* backtrace(0) has returned: "c".
Check ==
    /\ at = "return"
    /\ count = -1
    /\ at' = "checked"
    /\ UNCHANGED <<map, ifsend, count, board, sent>>

Next ==
    \/ SkipCell \/ FirstNumber \/ Place \/ NextNumber
    \/ GiveUp \/ SkipBack \/ Send \/ Check

Spec == Init /\ [][Next]_vars

(***************************************************************************)
(* Properties.                                                             *)
(***************************************************************************)
TypeOK ==
    /\ map \in [Cells -> 0 .. Side]
    /\ ifsend \subseteq Cells
    /\ count \in -1 .. Last
    /\ at \in {"call", "try", "return", "checked"}
    /\ board \in [Cells -> 0 .. Side]
    /\ sent \subseteq [Cells -> 0 .. Side]
    /\ at = "call" => count >= 0
    /\ at = "try" => count \in ifsend

\* The board as it was asked for, and the ways to complete it.
Puzzle == [c \in Cells |-> IF c \in ifsend THEN 0 ELSE map[c]]

Valid(b) == \A c, d \in Cells : Peers(c, d) => b[c] # b[d]

Completes(b) ==
    /\ b \in [Cells -> 1 .. Side]
    /\ \A c \in Cells \ ifsend : b[c] = map[c]

\* What is sent completes the board the server asked for to a valid one,
\* although isPlace leaves part of each box untested (40) and cells are only
\* tested when they are filled.
SentValid == \A b \in sent : Completes(b) /\ Valid(b)

\* When the server is asked to check the board, all solutions were sent, one
\* of them is on the server's board, and map is the board as it was.
Solutions == {b \in {[c \in Cells |-> IF c \in ifsend THEN f[c] ELSE map[c]] :
                        f \in [ifsend -> 1 .. Side]} : Valid(b)}

AllSent ==
    at = "checked" =>
        /\ sent = Solutions
        /\ sent # {} => board \in sent
        /\ map = Puzzle

\* Why what is sent is valid.  The empty cells are filled up to the frame that
\* runs, a number placed in one differs from those of its peers, and only the
\* number being tried may not.
Filled ==
    \A c \in ifsend :
        /\ c < count => map[c] # 0
        /\ c > count => map[c] = 0
        /\ c = count => (map[c] = 0 <=> at = "call")

Placed ==
    \A c \in ifsend : \A d \in Cells :
        Peers(c, d) /\ map[c] # 0 => map[c] # map[d]
                                    \/ (at # "call" /\ count \in ifsend /\ count \in {c, d})

Kept ==
    \A c \in Cells \ ifsend :
        /\ map[c] # 0
        /\ board[c] = map[c]
        /\ \A d \in Cells \ ifsend : Peers(c, d) => map[c] # map[d]

SolverInv == Filled /\ Placed /\ Kept /\ SentValid

\* Why all are sent.  A board is still to come if the first cell where it differs
\* from map is one of a frame that will try its number later, or if the frame
\* that runs has not got as far as its number.
Agree(b, n) == \A d \in Cells : d < n => b[d] = map[d]

Later(b, n) == \E c \in Cells : c < n /\ Agree(b, c) /\ b[c] > map[c]

ToCome(b) ==
    \/ at = "call" /\ (Later(b, count) \/ Agree(b, count))
    \/ at = "try" /\ (Later(b, count) \/ (Agree(b, count) /\ b[count] >= map[count]))
    \/ at = "return" /\ Later(b, count + 1)

Answers == {b \in [Cells -> 1 .. Side] : Completes(b) /\ Valid(b)}

Searched ==
    /\ \A b \in Answers : b \in sent \/ ToCome(b)
    /\ sent # {} => board \in sent
    /\ at = "checked" => count = -1
=============================================================================
