-------------------------------- MODULE Pacer --------------------------------
(***************************************************************************)
(* The constant-bitrate sender of Lab3/tcp_2.cpp: about every millisecond  *)
(* it sends what the rate allows for the time since it last finished       *)
(* sending.  Each call of gettimeofday is a step, and time may pass before *)
(* any of them: write blocks, and the process may not be scheduled.        *)
(* The clock never goes back, and the arithmetic, which the program does   *)
(* in doubles, is exact.                                                   *)
(***************************************************************************)
EXTENDS Integers

CONSTANTS
    Rate,       \* bytes per unit of time
    Width,      \* bytesent is a number modulo Width, 2^64 in the program
    MaxTime     \* bound: the last moment looked at

VARIABLES
    now,
    t0, start, end, \* what gettimeofday last gave for each
    bytesent,
    at,
    connected       \* FALSE once a write has failed

vars == <<now, t0, start, end, bytesent, at, connected>>

\* Both clocks are read before the loop, t0 first.
Init ==
    /\ t0 \in 0 .. MaxTime
    /\ start \in t0 .. MaxTime
    /\ now = start
    /\ end = 0
    /\ bytesent = 0
    /\ at = "measure"
    /\ connected = TRUE

\* gettimeofday reads the clock of the wall.  Here it only goes on; a clock that
\* is set back is left out (end - start would be negative in Write).
Tick ==
    /\ now < MaxTime
    /\ now' = now + 1
    /\ UNCHANGED <<t0, start, end, bytesent, at, connected>>

Measure ==
    /\ at = "measure"
    /\ end' = now
    /\ at' = "write"
    /\ UNCHANGED <<now, t0, start, bytesent, connected>>

\* A product that is not a whole number is cut, and write may take less.
Write ==
    /\ at = "write" /\ connected
    /\ \E n \in 0 .. Rate * (end - start) : bytesent' = (bytesent + n) % Width
    /\ at' = "stamp"
    /\ UNCHANGED <<now, t0, start, end, connected>>

\* The server has reset the connection: -1 is added to bytesent.
WriteFails ==
    /\ at = "write" /\ connected
    /\ bytesent' = (bytesent - 1) % Width
    /\ connected' = FALSE
    /\ at' = "stamp"
    /\ UNCHANGED <<now, t0, start, end>>

\* The next write raises SIGPIPE, which no handler waits for.
Killed ==
    /\ at = "write" /\ ~connected
    /\ at' = "end"
    /\ UNCHANGED <<now, t0, start, end, bytesent, connected>>

\* A mistake no action makes: start is not taken again.
BadStamp ==
    /\ at = "stamp"
    /\ at' = "sleep"
    /\ UNCHANGED <<now, t0, start, end, bytesent, connected>>

Stamp ==
    /\ at = "stamp"
    /\ start' = now
    /\ at' = "sleep"
    /\ UNCHANGED <<now, t0, end, bytesent, connected>>

Sleep ==
    /\ at = "sleep"
    /\ at' = "measure"
    /\ UNCHANGED <<now, t0, start, end, bytesent, connected>>

\* SIGINT or SIGTERM: the handler reports bytesent and exits.
Interrupt ==
    /\ at # "end"
    /\ at' = "end"
    /\ UNCHANGED <<now, t0, start, end, bytesent, connected>>

Next ==
    \/ Tick \/ Measure \/ Write \/ WriteFails \/ Killed
    \/ Stamp \/ Sleep \/ Interrupt

Spec == Init /\ [][Next]_vars

(***************************************************************************)
(* Properties.                                                             *)
(***************************************************************************)
TypeOK ==
    /\ now \in Nat /\ t0 \in Nat /\ start \in Nat /\ end \in Nat
    /\ bytesent \in Nat
    /\ at \in {"measure", "write", "stamp", "sleep", "end"}
    /\ connected \in BOOLEAN

\* However long a write blocks or a sleep lasts, the sender never gets ahead of
\* its rate: what was sent since it began is at most the rate times the time
\* since then.
Paced == connected => bytesent <= Rate * (now - t0)

\* Why: what is sent in a round is allowed for by the time since the last stamp,
\* which no earlier round counted.
PacedSoFar ==
    /\ t0 <= start /\ start <= now
    /\ at = "write" => start <= end /\ end <= now
    /\ connected =>
         IF at \in {"measure", "write", "sleep"} THEN bytesent <= Rate * (start - t0)
                                                 ELSE bytesent <= Rate * (now - t0)
=============================================================================
