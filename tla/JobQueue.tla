------------------------------ MODULE JobQueue ------------------------------
(***************************************************************************)
(* What the queue of the web crawler (Lab7/webcrawler.cpp) promises: jobs  *)
(* are taken in the order they were added, each by one worker, and an idle *)
(* worker does not leave a job waiting.  A job may take for ever, and the  *)
(* program may stop at any time, with jobs still in the queue.             *)
(***************************************************************************)
EXTENDS Sequences

CONSTANTS
    Workers,
    Jobs,
    NoJob   \* what an idle worker has

VARIABLES
    queue,
    busy,   \* the job of each worker
    over    \* the program has stopped

vars == <<queue, busy, over>>

Idle == [w \in Workers |-> NoJob]

Init ==
    /\ queue = <<>>
    /\ busy = Idle
    /\ over = FALSE

Add(j) ==
    /\ ~over
    /\ queue' = Append(queue, j)
    /\ UNCHANGED <<busy, over>>

Take(w) ==
    /\ ~over
    /\ busy[w] = NoJob
    /\ queue # <<>>
    /\ busy' = [busy EXCEPT ![w] = Head(queue)]
    /\ queue' = Tail(queue)
    /\ UNCHANGED over

Finish(w) ==
    /\ ~over
    /\ busy[w] # NoJob
    /\ busy' = [busy EXCEPT ![w] = NoJob]
    /\ UNCHANGED <<queue, over>>

Stop ==
    /\ over' = TRUE
    /\ queue' = <<>>
    /\ busy' = Idle

Next ==
    \/ \E j \in Jobs : Add(j)
    \/ \E w \in Workers : Take(w) \/ Finish(w)
    \/ Stop

Spec == Init /\ [][Next]_vars

FairSpec == Spec /\ \A w \in Workers : WF_vars(Take(w))
=============================================================================
