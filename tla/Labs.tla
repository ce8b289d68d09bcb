-------------------------------- MODULE Labs --------------------------------
(***************************************************************************)
(* The repository's small programs, which have nothing in common: the      *)
(* initial states choose the program that runs, and the others stay in an  *)
(* initial state of theirs.                                                *)
(***************************************************************************)
EXTENDS Sudoku, Sequences

CONSTANTS
    Oracles, Seeds, MaxDrawn,           \* Oracle
    Clients, Backlog,                   \* CommandServer
    Archives, Names, SegLen, Unwritable, \* Unpacker; Names are those of files
    Rate, Width, MaxTime                \* Pacer

ASSUME LabsAssumption ==
    /\ Seeds \subseteq Nat
    /\ MaxDrawn \in Nat \ {0}
    /\ SegLen \in Nat \ {0}
    /\ Archives \subseteq Seq([name : Names, content : Seq(BOOLEAN),
                              checksum : [0 .. SegLen - 1 -> BOOLEAN]])
    /\ Rate \in Nat
    /\ Width \in Nat \ {0}

VARIABLES
    program,
    stage, secret, oseed, drawn, buf, own, running,         \* Oracle
    queue, server, current, child, holders, came,           \* CommandServer
    archive, i, j, tmp, counter, segment_xor, disk, state,  \* Unpacker
    now, t0, start, end, bytesent, pace, connected          \* Pacer

Programs == {"sudoku", "oracle", "nkat", "unpacker", "pacer"}

\* The service that keeps copies of the secrets, oraclep1.c.
Oraclep == INSTANCE Oracle WITH Copied <- TRUE
Nkat == INSTANCE CommandServer
Pako == INSTANCE Unpacker
Sender == INSTANCE Pacer WITH at <- pace

oracleVars == <<stage, secret, oseed, drawn, buf, own, running>>
nkatVars == <<queue, server, current, child, holders, came>>
pakoVars == <<archive, i, j, tmp, counter, segment_xor, disk, state>>
pacerVars == <<now, t0, start, end, bytesent, pace, connected>>

allVars == <<vars, program, oracleVars, nkatVars, pakoVars, pacerVars>>

LabsInit ==
    /\ program \in Programs
    /\ Init /\ Oraclep!Init /\ Nkat!Init /\ Pako!Init /\ Sender!Init
    /\ program # "sudoku" => map = CHOOSE b \in Boards : TRUE
    /\ program # "unpacker" => archive = CHOOSE a \in Archives : TRUE
    /\ program # "pacer" => start = 0

LabsNext ==
    /\ UNCHANGED program
    /\ \/ /\ program = "sudoku" /\ Next
          /\ UNCHANGED <<oracleVars, nkatVars, pakoVars, pacerVars>>
       \/ /\ program = "oracle" /\ Oraclep!Next
          /\ UNCHANGED <<vars, nkatVars, pakoVars, pacerVars>>
       \/ /\ program = "nkat" /\ Nkat!Next
          /\ UNCHANGED <<vars, oracleVars, pakoVars, pacerVars>>
       \/ /\ program = "unpacker" /\ Pako!Next
          /\ UNCHANGED <<vars, oracleVars, nkatVars, pacerVars>>
       \/ /\ program = "pacer" /\ Sender!Next
          /\ UNCHANGED <<vars, oracleVars, nkatVars, pakoVars>>

LabsSpec == LabsInit /\ [][LabsNext]_allVars /\ (program = "nkat" => Nkat!Fairness)

(***************************************************************************)
(* Properties: those of the programs, each in the module of its program.   *)
(***************************************************************************)
\* Every variable of every program keeps its type.
ProgramsTypeOK ==
    TypeOK /\ Oraclep!TypeOK /\ Nkat!TypeOK /\ Pako!TypeOK /\ Sender!TypeOK

\* Oracle: an oracle's secret is the one made for it.
SecretKept == Oraclep!SecretKept

\* CommandServer: no child is left when the server turns to the next client, and
\* every client sees its connection end.
NoChildLeft == Nkat!NoChildLeft
Served == program = "nkat" => Nkat!Served

\* Unpacker: exactly the entries with the right checksum are written.
OnlyIntact == Pako!OnlyIntact

\* Pacer: the sender never gets ahead of its rate.
Paced == Sender!Paced
=============================================================================
