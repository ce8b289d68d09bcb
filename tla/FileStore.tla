------------------------------ MODULE FileStore ------------------------------
(***************************************************************************)
(* What the programs of Lab8 promise ("send 1000 files from a client to a  *)
(* server over a lossy link"): a file appears in the server's directory    *)
(* whole, in one piece and once, or not at all.  Killing the server may    *)
(* leave one file broken, a file that was not there before.                *)
(***************************************************************************)
CONSTANTS
    Files,  \* the files of the client
    Due     \* those that must arrive

VARIABLES
    store,  \* what the server's directory holds of each file
    down    \* the server was killed

Init ==
    /\ store = [f \in Files |-> "absent"]
    /\ down = FALSE

Put(f) ==
    /\ ~down
    /\ store[f] = "absent"
    /\ store' = [store EXCEPT ![f] = "whole"]
    /\ down' = down

Kill ==
    /\ ~down
    /\ down' = TRUE
    /\ \/ store' = store
       \/ \E f \in Files : /\ store[f] = "absent"
                           /\ \E s \in {"broken", "whole"} : store' = [store EXCEPT ![f] = s]

Next == Kill \/ \E f \in Files : Put(f)

Spec == Init /\ [][Next]_<<store, down>>

FairSpec == Spec /\ \A f \in Due : WF_<<store, down>>(Put(f))
=============================================================================
