---------------------------- MODULE SudokuProofs ----------------------------
(***************************************************************************)
(* Type correctness of Sudoku, and that what the solver sends is a valid   *)
(* completion of the board, for boxes of any size and any consistent board *)
(* (the program's boxes have a side of 3).                                 *)
(***************************************************************************)
EXTENDS Sudoku, TLAPS

\* The sizes are positive.
LEMMA Sizes == Side \in Nat \ {0} /\ Last \in Nat \ {0}
BY BoardAssumption DEF Side, Last

\* A row and a column have one cell in common, so what isPlace leaves out of its
\* three tests is the cell itself.
LEMMA CellUnique ==
    ASSUME NEW c \in Cells, NEW d \in Cells, Row(c) = Row(d), Col(c) = Col(d)
    PROVE  c = d
<1>1. Side \in Nat \ {0} /\ c \in Int /\ d \in Int
  BY Sizes DEF Cells
<1>2. \A S \in Nat \ {0} : \A x \in Int : x = S * (x \div S) + (x % S)
  OBVIOUS
<1> QED
  BY <1>1, <1>2 DEF Row, Col

\* Cells that share a row or a column are apart in the other.
LEMMA CellsApart ==
    ASSUME NEW c \in Cells, NEW d \in Cells
    PROVE  Row(c) # Row(d) \/ Col(c) # Col(d) => c # d
OBVIOUS

\* isPlace compares a cell with all its peers.
LEMMA PlaceTestsPeers ==
    ASSUME NEW c \in Cells, isPlace(c), NEW d \in Cells, Peers(c, d) \/ Peers(d, c)
    PROVE  map[d] # map[c]
<1>1. Row(d) # Row(c) \/ Col(d) # Col(c)
  BY CellUnique DEF Peers
<1>2. Row(d) = Row(c) \/ Col(d) = Col(c) \/ BoxOf(d) = BoxOf(c)
  BY DEF Peers
<1> QED
  BY <1>1, <1>2 DEF isPlace

\* Every variable keeps its type.
LEMMA TypeStep ==
    ASSUME TypeOK, Kept, [Next]_vars
    PROVE  TypeOK'
<1> USE Sizes
<1>0. \A c \in Cells : c \in Int /\ 0 <= c /\ c < Last
  BY DEF Cells
<1>1. CASE UNCHANGED vars
  BY <1>1 DEF vars, TypeOK
<1>2. CASE SkipCell
  BY <1>2 DEF SkipCell, TypeOK
<1>3. CASE FirstNumber
  <2>1. count \in Cells
    BY <1>3 DEF FirstNumber, TypeOK, Cells
  <2>4. 1 \in 0 .. Side
    OBVIOUS
  <2>2. map' \in [Cells -> 0 .. Side] /\ UNCHANGED <<ifsend, count, board, sent>>
    BY <1>3, <2>1, <2>4 DEF FirstNumber, TypeOK
  <2>3. at' = "try" /\ count \in ifsend
    BY <1>3, <2>1 DEF FirstNumber, Kept
  <2> QED
    BY <2>2, <2>3 DEF TypeOK
<1>4. CASE Place
  <2>1. count \in Cells
    BY <1>4 DEF Place, TypeOK
  <2> QED
    BY <1>0, <1>4, <2>1 DEF Place, TypeOK
<1>5. CASE NextNumber
  <2>1. count \in ifsend /\ count \in Cells
    BY <1>5 DEF NextNumber, Refused, TypeOK
  <2>2. map[count] + 1 \in 0 .. Side
    BY <1>5, <2>1 DEF NextNumber, TypeOK
  <2> QED
    BY <1>5, <2>1, <2>2 DEF NextNumber, TypeOK
<1>6. CASE GiveUp
  <2>1. count \in Cells
    BY <1>6 DEF GiveUp, Refused, TypeOK
  <2>2. map' \in [Cells -> 0 .. Side]
    BY <1>6, <2>1 DEF GiveUp, TypeOK
  <2> QED
    BY <1>0, <1>6, <2>1, <2>2 DEF GiveUp, TypeOK
<1>7. CASE SkipBack
  BY <1>7 DEF SkipBack, TypeOK
<1>8. CASE Send
  <2>1. board' \in [Cells -> 0 .. Side] /\ sent' = sent \union {board'}
    BY <1>8 DEF Send, TypeOK
  <2>2. count' \in -1 .. Last /\ at' = "return" /\ UNCHANGED <<map, ifsend>>
    BY <1>8 DEF Send
  <2> QED
    BY <2>1, <2>2 DEF TypeOK
<1>9. CASE Check
  BY <1>9 DEF Check, TypeOK
<1> QED
  BY <1>1, <1>2, <1>3, <1>4, <1>5, <1>6, <1>7, <1>8, <1>9 DEF Next

\* The empty cells are filled up to the frame that runs.
LEMMA FilledStep ==
    ASSUME TypeOK, Kept, Filled, [Next]_vars
    PROVE  Filled'
<1> USE Sizes
<1>0. \A c \in ifsend : c \in Cells /\ c \in Int /\ 0 <= c /\ c < Last
  BY DEF Cells, TypeOK
<1>1. CASE UNCHANGED vars
  BY <1>1 DEF vars, Filled
<1>2. CASE SkipCell
  BY <1>0, <1>2 DEF SkipCell, Filled, TypeOK
<1>3. CASE FirstNumber
  <2>1. count \in Cells
    BY <1>3 DEF FirstNumber, TypeOK, Cells
  <2>2. \A c \in Cells : map'[c] = IF c = count THEN 1 ELSE map[c]
    BY <1>3 DEF FirstNumber, TypeOK
  <2> QED
    BY <1>0, <1>3, <2>1, <2>2 DEF FirstNumber, Filled
<1>4. CASE Place
  BY <1>0, <1>4 DEF Place, Filled, TypeOK
<1>5. CASE NextNumber
  <2>1. \A c \in Cells : map'[c] = IF c = count THEN map[c] + 1 ELSE map[c]
    BY <1>5 DEF NextNumber, TypeOK
  <2>2. at # "call" /\ at' = "try" /\ count' = count /\ ifsend' = ifsend
    BY <1>5 DEF NextNumber, Refused
  <2>3. \A c \in Cells : map[c] \in Nat
    BY DEF TypeOK
  <2> QED
    BY <1>0, <2>1, <2>2, <2>3 DEF Filled
<1>6. CASE GiveUp
  <2>1. \A c \in Cells : map'[c] = IF c = count THEN 0 ELSE map[c]
    BY <1>6 DEF GiveUp, TypeOK
  <2>2. at' = "return" /\ count' = count - 1 /\ ifsend' = ifsend /\ count \in Int
    BY <1>6 DEF GiveUp, TypeOK
  <2> QED
    BY <1>0, <2>1, <2>2 DEF Filled
<1>7. CASE SkipBack
  <2>1. at' = "return" /\ at = "return" /\ count' = count - 1 /\ UNCHANGED <<map, ifsend>>
        /\ count \in Int /\ count \notin ifsend
    BY <1>7 DEF SkipBack, TypeOK
  <2> QED
    BY <1>0, <2>1 DEF Filled
<1>8. CASE Send
  BY <1>0, <1>8 DEF Send, Filled
<1>9. CASE Check
  BY <1>0, <1>9 DEF Check, Filled
<1> QED
  BY <1>1, <1>2, <1>3, <1>4, <1>5, <1>6, <1>7, <1>8, <1>9 DEF Next

\* A number that was placed differs from those of its peers.
LEMMA PlacedStep ==
    ASSUME TypeOK, Kept, Filled, Placed, [Next]_vars
    PROVE  Placed'
<1>0. \A c \in ifsend : c \in Cells
  BY DEF TypeOK
<1>1. CASE UNCHANGED vars \/ SkipCell \/ Send \/ Check
  <2>1. UNCHANGED <<map, ifsend>>
        /\ (at = "call" \/ (at' = at /\ count' = count) \/ (count = -1 /\ at = "return"))
    BY <1>1 DEF vars, SkipCell, Send, Check
  <2>2. -1 \notin ifsend
    BY <1>0, Sizes DEF Cells
  <2> QED
    BY <1>0, <2>1, <2>2 DEF Placed
<1>2. CASE FirstNumber
  <2>1. \A c \in Cells : c # count => map'[c] = map[c]
    BY <1>2 DEF FirstNumber, TypeOK
  <2>2. at = "call" /\ at' = "try" /\ count' = count /\ ifsend' = ifsend /\ count \in ifsend
    BY <1>2, TypeStep DEF FirstNumber, TypeOK
  <2> QED
    BY <1>0, <2>1, <2>2 DEF Placed
<1>3. CASE Place
  <2>1. count \in Cells /\ isPlace(count) /\ UNCHANGED <<map, ifsend>>
    BY <1>3 DEF Place, TypeOK
  <2>2. ASSUME NEW c \in ifsend, NEW d \in Cells, Peers(c, d), map[c] # 0 PROVE map[c] # map[d]
    BY <1>0, <2>1, <2>2, PlaceTestsPeers DEF Placed
  <2> QED
    BY <2>1, <2>2 DEF Placed
<1>4. CASE NextNumber
  <2>1. \A c \in Cells : c # count => map'[c] = map[c]
    BY <1>4 DEF NextNumber, TypeOK
  <2>2. at' = "try" /\ count' = count /\ ifsend' = ifsend /\ count \in ifsend
    BY <1>4 DEF NextNumber, Refused, TypeOK
  <2> QED
    BY <1>0, <2>1, <2>2 DEF Placed
<1>5. CASE GiveUp
  <2>1. \A c \in Cells : map'[c] = IF c = count THEN 0 ELSE map[c]
    BY <1>5 DEF GiveUp, TypeOK
  <2>2. ifsend' = ifsend
    BY <1>5 DEF GiveUp
  <2>3. ASSUME NEW c \in ifsend, NEW d \in Cells, Peers(c, d), map'[c] # 0 PROVE map'[c] # map'[d]
    <3>1. c # count /\ map'[c] = map[c]
      BY <1>0, <2>1, <2>3
    <3>2. CASE d = count
      BY <2>1, <2>3, <3>2
    <3>3. CASE d # count
      BY <2>1, <2>3, <3>1, <3>3 DEF Placed
    <3> QED
      BY <3>2, <3>3
  <2> QED
    BY <2>2, <2>3 DEF Placed
<1>6. CASE SkipBack
  <2>1. UNCHANGED <<map, ifsend>> /\ count \notin ifsend
    BY <1>6 DEF SkipBack
  <2> QED
    BY <2>1 DEF Placed
<1> QED
  BY <1>1, <1>2, <1>3, <1>4, <1>5, <1>6 DEF Next

\* The numbers of the given cells stay as they are, on the server's board too.
LEMMA KeptStep ==
    ASSUME TypeOK, Kept, [Next]_vars
    PROVE  /\ Kept'
           /\ ifsend' = ifsend
           /\ \A c \in Cells \ ifsend : map'[c] = map[c]
<1>1. ifsend' = ifsend
  BY DEF Next, vars, SkipCell, FirstNumber, Place, NextNumber, GiveUp, SkipBack, Send, Check
<1>2. CASE FirstNumber \/ NextNumber \/ GiveUp
  <2>1. count \in ifsend /\ board' = board
    BY <1>2, TypeStep DEF FirstNumber, NextNumber, GiveUp, Refused, TypeOK
  <2>2. \A c \in Cells : c # count => map'[c] = map[c]
    BY <1>2 DEF FirstNumber, NextNumber, GiveUp, TypeOK
  <2> QED
    BY <1>1, <2>1, <2>2 DEF Kept
<1>3. CASE UNCHANGED vars \/ SkipCell \/ Place \/ SkipBack \/ Check
  <2>1. UNCHANGED <<map, board>>
    BY <1>3 DEF vars, SkipCell, Place, SkipBack, Check
  <2> QED
    BY <1>1, <2>1 DEF Kept
<1>4. CASE Send
  <2>1. map' = map /\ \A c \in Cells \ ifsend : board'[c] = board[c]
    BY <1>4 DEF Send
  <2> QED
    BY <1>1, <2>1 DEF Kept
<1> QED
  BY <1>2, <1>3, <1>4 DEF Next

\* What is sent completes the board and is valid.
LEMMA SentStep ==
    ASSUME TypeOK, SolverInv, [Next]_vars
    PROVE  SentValid'
<1>1. ASSUME NEW b, Completes(b) PROVE Completes(b)'
  BY <1>1, KeptStep DEF Completes, SolverInv
<1>2. CASE sent' = sent
  BY <1>1, <1>2 DEF SentValid, SolverInv, Valid
<1>3. CASE Send
  <2>1. at = "call" /\ count = Last /\ sent' = sent \union {board'}
    BY <1>3 DEF Send
  <2>2. board' = map
    <3>1. board' = [c \in Cells |-> IF c \in ifsend THEN map[c] ELSE board[c]]
      BY <1>3 DEF Send
    <3>2. \A c \in Cells : board'[c] = map[c]
      BY <3>1 DEF Kept, SolverInv
    <3> QED
      BY <3>1, <3>2 DEF TypeOK
  <2>3. \A c \in Cells : map[c] \in 1 .. Side
    <3>1. \A c \in Cells : c < Last /\ map[c] \in 0 .. Side
      BY Sizes DEF Cells, TypeOK
    <3>2. \A c \in Cells : map[c] # 0
      BY <2>1, <3>1 DEF Filled, Kept, SolverInv
    <3> QED
      BY <3>1, <3>2, Sizes
  <2>4. Completes(map)
    BY <2>3 DEF Completes, TypeOK
  <2>5. Valid(map)
    <3>1. ASSUME NEW c \in Cells, NEW d \in Cells, Peers(c, d) PROVE map[c] # map[d]
      <4>1. Peers(d, c)
        BY <3>1 DEF Peers
      <4>2. map[c] # 0 /\ map[d] # 0
        BY <2>3
      <4>3. CASE c \in ifsend
        BY <2>1, <3>1, <4>2, <4>3 DEF Placed, SolverInv
      <4>4. CASE d \in ifsend
        BY <2>1, <3>1, <4>1, <4>2, <4>4 DEF Placed, SolverInv
      <4>5. CASE c \notin ifsend /\ d \notin ifsend
        BY <3>1, <4>5 DEF Kept, SolverInv
      <4> QED
        BY <4>3, <4>4, <4>5
    <3> QED
      BY <3>1 DEF Valid
  <2> QED
    BY <1>1, <2>1, <2>2, <2>4, <2>5 DEF SentValid, SolverInv, Valid
<1> QED
  BY <1>2, <1>3 DEF Next, vars, SkipCell, FirstNumber, Place, NextNumber, GiveUp, SkipBack, Check

\* Later and Agree of another map, so that they can be compared over a step.
AgreeWith(m, b, n) == \A d \in Cells : d < n => b[d] = m[d]
LaterIn(m, b, n) == \E c \in Cells : c < n /\ AgreeWith(m, b, c) /\ b[c] > m[c]

\* What is to come after a cell does not depend on the cells from there on.
LEMMA LaterKept ==
    ASSUME NEW m, NEW k, NEW b, NEW n \in Int, NEW p \in Int, n <= p,
           \A d \in Cells : d < n => m[d] = k[d]
    PROVE  /\ AgreeWith(m, b, n) => AgreeWith(k, b, n)
           /\ LaterIn(m, b, n) => LaterIn(k, b, p)
<1>0. Cells \subseteq Int
  BY Sizes DEF Cells
<1>1. AgreeWith(m, b, n) => AgreeWith(k, b, n)
  BY DEF AgreeWith
<1>2. ASSUME LaterIn(m, b, n) PROVE LaterIn(k, b, p)
  <2>1. PICK c \in Cells : c < n /\ AgreeWith(m, b, c) /\ b[c] > m[c]
    BY <1>2 DEF LaterIn
  <2>2. \A d \in Cells : d < c => d < n
    BY <1>0, <2>1
  <2>3. AgreeWith(k, b, c)
    BY <2>1, <2>2 DEF AgreeWith
  <2>4. c < p /\ b[c] > k[c]
    BY <1>0, <2>1
  <2> QED
    BY <2>3, <2>4 DEF LaterIn
<1> QED
  BY <1>1, <1>2

\* A number that isPlace refuses is in no board that is to come and agrees up to
\* its cell.
LEMMA RefusedIsWrong ==
    ASSUME TypeOK, SolverInv, NEW b \in Answers, at = "try", ~isPlace(count), Agree(b, count)
    PROVE  b[count] # map[count]
<1>1. count \in ifsend /\ count \in Cells /\ map[count] # 0
  BY DEF TypeOK, SolverInv, Filled
<1>2. PICK d \in Cells : Peers(d, count) /\ map[d] = map[count]
  BY <1>1, CellsApart DEF isPlace, Peers
<1>3. map[d] = b[d]
  <2>1. d < count \/ d > count
    BY <1>1, <1>2, Sizes DEF Cells, Peers
  <2>2. CASE d < count
    BY <2>2 DEF Agree
  <2>3. CASE d > count
    <3>1. d \notin ifsend
      BY <1>1, <1>2, <2>3 DEF SolverInv, Filled
    <3> QED
      BY <3>1 DEF Answers, Completes
  <2> QED
    BY <2>1, <2>2, <2>3
<1>4. b[d] # b[count]
  BY <1>1, <1>2 DEF Answers, Valid
<1> QED
  BY <1>2, <1>3, <1>4

\* A board that is to come is still to come after a step, or it was sent.
LEMMA ComeStep ==
    ASSUME TypeOK, SolverInv, NEW b \in Answers, ToCome(b), [Next]_vars
    PROVE  b \in sent' \/ ToCome(b)'
<1> USE Sizes
<1>0. /\ \A c \in Cells : c \in Int /\ 0 <= c /\ c < Last
      /\ count \in Int
      /\ \A c \in Cells : map[c] \in 0 .. Side
  BY DEF Cells, TypeOK
<1>b. /\ b \in [Cells -> 1 .. Side]
      /\ \A c \in Cells \ ifsend : b[c] = map[c]
  BY DEF Answers, Completes
<1>t. /\ at = "call" => LaterIn(map, b, count) \/ AgreeWith(map, b, count)
      /\ at = "try" => \/ LaterIn(map, b, count)
                       \/ AgreeWith(map, b, count) /\ b[count] >= map[count]
      /\ at = "return" => LaterIn(map, b, count + 1)
      /\ at \in {"call", "try", "return"}
  BY DEF ToCome, Later, Agree, LaterIn, AgreeWith
<1>g. ASSUME \/ at' = "call" /\ (LaterIn(map', b, count') \/ AgreeWith(map', b, count'))
             \/ at' = "try" /\ \/ LaterIn(map', b, count')
                               \/ AgreeWith(map', b, count') /\ b[count'] >= map'[count']
             \/ at' = "return" /\ LaterIn(map', b, count' + 1)
      PROVE  ToCome(b)'
  BY <1>g DEF ToCome, Later, Agree, LaterIn, AgreeWith
<1>1. CASE UNCHANGED vars
  BY <1>1 DEF vars, ToCome, Later, Agree
<1>2. CASE SkipCell
  <2>1. at = "call" /\ at' = "call" /\ count' = count + 1 /\ map' = map /\ map[count] # 0
    BY <1>2 DEF SkipCell
  <2>2. count \in Cells \ ifsend
    BY <1>2 DEF SkipCell, TypeOK, Cells, SolverInv, Filled
  <2>3. CASE LaterIn(map, b, count)
    BY <1>0, <1>g, <2>1, <2>3, LaterKept
  <2>4. CASE AgreeWith(map, b, count)
    <3>1. AgreeWith(map, b, count + 1)
      BY <1>0, <1>b, <2>2, <2>4 DEF AgreeWith
    <3> QED
      BY <1>g, <2>1, <3>1
  <2> QED
    BY <1>t, <2>1, <2>3, <2>4
<1>3. CASE FirstNumber
  <2>1. at = "call" /\ at' = "try" /\ count' = count
    BY <1>3 DEF FirstNumber
  <2>2. count \in Cells
    BY <1>3 DEF FirstNumber, TypeOK, Cells
  <2>3. map'[count] = 1 /\ \A d \in Cells : d < count => map[d] = map'[d]
    BY <1>0, <1>3, <2>2 DEF FirstNumber, TypeOK
  <2>4. b[count] >= 1
    BY <1>b, <2>2
  <2>5. LaterIn(map', b, count) \/ AgreeWith(map', b, count)
    BY <1>0, <1>t, <2>1, <2>3, LaterKept
  <2> QED
    BY <1>g, <2>1, <2>3, <2>4, <2>5
<1>4. CASE Place
  <2>1. at = "try" /\ at' = "call" /\ count' = count + 1 /\ map' = map
    BY <1>4 DEF Place
  <2>2. count \in Cells
    BY <2>1 DEF TypeOK
  <2>3. CASE LaterIn(map, b, count)
    BY <1>0, <1>g, <2>1, <2>3, LaterKept
  <2>4. CASE AgreeWith(map, b, count) /\ b[count] > map[count]
    <3>1. LaterIn(map, b, count + 1)
      BY <1>0, <2>2, <2>4 DEF LaterIn
    <3> QED
      BY <1>g, <2>1, <3>1
  <2>5. CASE AgreeWith(map, b, count) /\ b[count] = map[count]
    <3>1. AgreeWith(map, b, count + 1)
      BY <1>0, <2>2, <2>5 DEF AgreeWith
    <3> QED
      BY <1>g, <2>1, <3>1
  <2>6. b[count] >= map[count] => b[count] > map[count] \/ b[count] = map[count]
    BY <1>0, <1>b, <2>2
  <2> QED
    BY <1>t, <2>1, <2>3, <2>4, <2>5, <2>6
<1>5. ASSUME Refused
      PROVE  /\ count \in Cells
             /\ \/ LaterIn(map, b, count)
                \/ AgreeWith(map, b, count) /\ b[count] > map[count]
  <2>1. count \in ifsend /\ count \in Cells
    BY <1>5 DEF Refused, TypeOK
  <2>2. CASE at = "try" /\ ~isPlace(count)
    <3>1. CASE LaterIn(map, b, count)
      BY <2>1, <3>1
    <3>2. CASE AgreeWith(map, b, count) /\ b[count] >= map[count]
      <4>1. b[count] # map[count]
        BY <2>2, <3>2, RefusedIsWrong DEF Agree, AgreeWith
      <4> QED
        BY <1>0, <1>b, <2>1, <3>2, <4>1
    <3> QED
      BY <1>t, <2>2, <3>1, <3>2
  <2>3. CASE at = "return"
    <3>1. PICK c \in Cells : c < count + 1 /\ AgreeWith(map, b, c) /\ b[c] > map[c]
      BY <1>t, <2>3 DEF LaterIn
    <3>2. c < count \/ c = count
      BY <1>0, <3>1
    <3> QED
      BY <2>1, <3>1, <3>2 DEF LaterIn
  <2> QED
    BY <1>5, <2>2, <2>3 DEF Refused
<1>6. CASE NextNumber
  <2>1. Refused /\ at' = "try" /\ count' = count
    BY <1>6 DEF NextNumber
  <2>2. count \in Cells
    BY <1>5, <2>1
  <2>3. map'[count] = map[count] + 1 /\ \A d \in Cells : d < count => map[d] = map'[d]
    BY <1>0, <1>6, <2>2 DEF NextNumber, TypeOK
  <2>4. CASE LaterIn(map, b, count)
    <3>1. LaterIn(map', b, count)
      BY <1>0, <2>3, <2>4, LaterKept
    <3> QED
      BY <1>g, <2>1, <3>1
  <2>5. CASE AgreeWith(map, b, count) /\ b[count] > map[count]
    <3>1. AgreeWith(map', b, count)
      BY <1>0, <2>3, <2>5, LaterKept
    <3>2. b[count] >= map'[count]
      BY <1>0, <1>b, <2>2, <2>3, <2>5
    <3> QED
      BY <1>g, <2>1, <3>1, <3>2
  <2> QED
    BY <1>5, <2>1, <2>4, <2>5
<1>7. CASE GiveUp
  <2>1. Refused /\ map[count] = Side /\ at' = "return" /\ count' = count - 1
    BY <1>7 DEF GiveUp
  <2>2. count \in Cells
    BY <1>5, <2>1
  <2>3. \A d \in Cells : d < count => map[d] = map'[d]
    BY <1>0, <1>7, <2>2 DEF GiveUp, TypeOK
  <2>4. b[count] \in 1 .. Side
    BY <1>b, <2>2
  <2>5. LaterIn(map, b, count)
    BY <1>5, <2>1, <2>4
  <2>6. LaterIn(map', b, count' + 1)
    BY <1>0, <2>1, <2>3, <2>5, LaterKept
  <2> QED
    BY <1>g, <2>1, <2>6
<1>8. CASE SkipBack
  <2>1. at = "return" /\ at' = "return" /\ count' = count - 1 /\ map' = map /\ count \notin ifsend
    BY <1>8 DEF SkipBack
  <2>2. PICK c \in Cells : c < count + 1 /\ AgreeWith(map, b, c) /\ b[c] > map[c]
    BY <1>t, <2>1 DEF LaterIn
  <2>3. c # count
    <3>1. CASE c \in ifsend
      BY <2>1, <3>1
    <3>2. CASE c \notin ifsend
      BY <1>0, <1>b, <2>2, <3>2
    <3> QED
      BY <3>1, <3>2
  <2>4. c < count' + 1
    BY <1>0, <2>1, <2>2, <2>3
  <2> QED
    BY <1>g, <2>1, <2>2, <2>4 DEF LaterIn
<1>9. CASE Send
  <2>1. at = "call" /\ at' = "return" /\ count = Last /\ count' = count - 1 /\ map' = map
        /\ sent' = sent \union {board'}
    BY <1>9 DEF Send
  <2>2. CASE LaterIn(map, b, count)
    BY <1>0, <1>g, <2>1, <2>2, LaterKept
  <2>3. CASE AgreeWith(map, b, count)
    <3>1. \A c \in Cells : b[c] = map[c]
      BY <1>0, <2>1, <2>3 DEF AgreeWith
    <3>2. board' = [c \in Cells |-> IF c \in ifsend THEN map[c] ELSE board[c]]
      BY <1>9 DEF Send
    <3>3. \A c \in Cells : board'[c] = b[c]
      BY <3>1, <3>2 DEF SolverInv, Kept
    <3>4. board' = b
      BY <1>b, <3>2, <3>3
    <3> QED
      BY <2>1, <3>4
  <2> QED
    BY <1>t, <2>1, <2>2, <2>3
<1>c. CASE Check
  <2>1. at = "return" /\ count = -1
    BY <1>c DEF Check
  <2> QED
    BY <1>0, <1>t, <2>1 DEF LaterIn
<1> QED
  BY <1>1, <1>2, <1>3, <1>4, <1>6, <1>7, <1>8, <1>9, <1>c DEF Next

\* Nothing that is an answer is passed over.
LEMMA SearchedStep ==
    ASSUME TypeOK, SolverInv, Searched, [Next]_vars
    PROVE  Searched'
<1>1. ASSUME NEW b \in Answers' PROVE b \in sent' \/ ToCome(b)'
  <2>1. b \in Answers
    BY <1>1, KeptStep DEF Answers, Completes, Valid, SolverInv
  <2>2. CASE b \in sent
    BY <2>2 DEF Next, vars, SkipCell, FirstNumber, Place, NextNumber, GiveUp, SkipBack, Send, Check
  <2>3. CASE ToCome(b)
    BY <2>1, <2>3, ComeStep
  <2> QED
    BY <2>1, <2>2, <2>3 DEF Searched
<1>2. sent' # {} => board' \in sent'
  BY DEF Searched, Next, vars, SkipCell, FirstNumber, Place, NextNumber, GiveUp, SkipBack, Send, Check
<1>3. at' = "checked" => count' = -1
  BY DEF Searched, Next, vars, SkipCell, FirstNumber, Place, NextNumber, GiveUp, SkipBack, Send, Check
<1> QED
  BY <1>1, <1>2, <1>3 DEF Searched

\* What the last state says about the boards sent.
LEMMA SearchedAll ==
    ASSUME TypeOK, SolverInv, Searched
    PROVE  AllSent
<1> SUFFICES ASSUME at = "checked" PROVE sent = Solutions /\ (sent # {} => board \in sent) /\ map = Puzzle
  BY DEF AllSent
<1>1. count = -1 /\ (sent # {} => board \in sent)
  BY DEF Searched
<1>2. ASSUME NEW b \in sent PROVE b \in Solutions
  <2>1. Completes(b) /\ Valid(b)
    BY <1>2 DEF SolverInv, SentValid
  <2> DEFINE f == [c \in ifsend |-> b[c]]
  <2>2. f \in [ifsend -> 1 .. Side]
    BY <2>1 DEF Completes, TypeOK
  <2>3. b = [c \in Cells |-> IF c \in ifsend THEN f[c] ELSE map[c]]
    BY <2>1 DEF Completes, TypeOK
  <2> HIDE DEF f
  <2> QED
    BY <2>1, <2>2, <2>3 DEF Solutions
<1>3. ASSUME NEW b \in Solutions PROVE b \in sent
  <2>1. PICK f \in [ifsend -> 1 .. Side] :
          b = [c \in Cells |-> IF c \in ifsend THEN f[c] ELSE map[c]]
    BY <1>3 DEF Solutions
  <2>2. \A c \in Cells : b[c] \in 1 .. Side
    <3>1. \A c \in Cells \ ifsend : map[c] \in 1 .. Side
      BY Sizes DEF TypeOK, SolverInv, Kept
    <3> QED
      BY <2>1, <3>1
  <2>3. b \in [Cells -> 1 .. Side] /\ \A c \in Cells \ ifsend : b[c] = map[c]
    BY <2>1, <2>2
  <2>4. b \in Answers
    BY <1>3, <2>3 DEF Solutions, Answers, Completes
  <2> QED
    BY <2>4 DEF Searched, ToCome
<1>4. map = Puzzle
  <2>1. \A c \in ifsend : map[c] = 0
    BY <1>1, Sizes DEF TypeOK, SolverInv, Filled, Cells
  <2> QED
    BY <2>1 DEF Puzzle, TypeOK
<1> QED
  BY <1>1, <1>2, <1>3, <1>4

LEMMA SolverInvariant == Spec => [](TypeOK /\ SolverInv /\ Searched)
<1>1. Init => TypeOK /\ SolverInv /\ Searched
  <2> SUFFICES ASSUME Init PROVE TypeOK /\ SolverInv /\ Searched
    OBVIOUS
  <2>1. map \in [Cells -> 0 .. Side]
        /\ \A c, d \in Cells : Peers(c, d) => map[c] = 0 \/ map[c] # map[d]
    BY BoardAssumption DEF Init
  <2>2. TypeOK
    BY <2>1, Sizes DEF Init, TypeOK
  <2>3. Filled
    BY Sizes DEF Init, Filled, Cells
  <2>4. Placed /\ Kept /\ SentValid
    BY <2>1 DEF Init, Placed, Kept, SentValid
  <2>5. Searched
    BY Sizes DEF Init, Searched, ToCome, Agree, Cells
  <2> QED
    BY <2>2, <2>3, <2>4, <2>5 DEF SolverInv
<1>2. TypeOK /\ SolverInv /\ Searched /\ [Next]_vars => (TypeOK /\ SolverInv /\ Searched)'
  BY TypeStep, FilledStep, PlacedStep, KeptStep, SentStep, SearchedStep DEF SolverInv
<1> QED
  BY <1>1, <1>2, PTL DEF Spec

\* Every variable keeps its type; in particular only empty cells are tried.
THEOREM TypeCorrect == Spec => []TypeOK
BY SolverInvariant, PTL

\* Whatever is sent to the server is a valid completion of its board.
THEOREM SentAreValid == Spec => []SentValid
<1>1. SolverInv => SentValid
  BY DEF SolverInv
<1> QED
  BY <1>1, SolverInvariant, PTL

\* The search is complete: when the server is asked to check, every solution was
\* sent and nothing else, one of them is on its board, and map is the puzzle again.
THEOREM AllAreSent == Spec => []AllSent
<1>1. TypeOK /\ SolverInv /\ Searched => AllSent
  BY SearchedAll
<1> QED
  BY <1>1, SolverInvariant, PTL
=============================================================================
