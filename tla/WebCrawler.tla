----------------------------- MODULE WebCrawler -----------------------------
(***************************************************************************)
(* The web checker of Lab7/webcrawler.cpp.  The main thread reads requests *)
(* "server/port" from its user and queues them; two workers, asleep on a   *)
(* condition variable while the queue is empty, resolve the name, refuse   *)
(* private addresses, fetch the page and leave a line in status[].         *)
(*                                                                         *)
(* gethostbyname2 returns a pointer into a static buffer: glibc runs one   *)
(* lookup at a time, but what ent points to is overwritten by the next     *)
(* lookup of either worker.  Who reads it while another lookup is under    *)
(* way, or after one that failed, may see any address, or follow a pointer *)
(* that leads nowhere.                                                     *)
(*                                                                         *)
(* check_queue and view_worker only print, under the same mutex, and are   *)
(* stuttering steps; a worker cannot be handed an empty string, on which   *)
(* it would return, as strtok_r returns none.                              *)
(***************************************************************************)
EXTENDS Integers, Sequences, FiniteSets

CONSTANTS
    Workers,
    Servers,     \* the names that may be asked for, with a port
    Malformed,   \* the requests that are not server/port
    Addresses,
    Answers,     \* the addresses each server's name resolves to
    Private,     \* the addresses do_job refuses: local and private ones
    Star,        \* 0.0.0.0
    Silent,      \* the addresses where a read never returns
    MaxAttempts, \* MAX_ATTEMPTS
    Free, NoJob, \* the mutex is not held; no job
    Junk         \* nothing sensible in the static buffer

Requests == Servers \union Malformed
Jobs == [n : 1 .. MaxAttempts, server : Requests]

ASSUME ConstAssumption ==
    /\ IsFiniteSet(Workers)
    /\ Answers \in [Servers -> SUBSET Addresses]
    /\ Private \subseteq Addresses
    /\ Star \in Addresses
    /\ Silent \subseteq Addresses
    /\ MaxAttempts \in Nat
    /\ Servers \intersect Malformed = {}
    /\ Free \notin Workers
    /\ NoJob \notin Jobs

VARIABLES
    jobs, jcount,
    mut,     \* who holds mut between two steps
    pc,      \* where each worker is
    job,     \* s of each worker, server of its do_job
    ent,     \* the address in the static result of gethostbyname2
    addr,    \* sin.sin_addr of each worker
    attempt, \* i of each do_job
    status,  \* status[]: what it says, of which request and address
    main     \* the main thread: at the menu, before notify_one, gone

queueVars == <<jobs, jcount, mut, main>>
locals == <<job, addr, attempt>>
vars == <<queueVars, pc, locals, ent, status>>

Each(x) == [w \in Workers |-> x]
Blank == [kind |-> "none", from |-> Star]

Init ==
    /\ jobs = <<>> /\ jcount = 0 /\ mut = Free
    /\ main = "menu"
    /\ pc = Each("lock")
    /\ job = Each(NoJob) /\ addr = Each(Star) /\ attempt = Each(0)
    /\ ent = Junk
    /\ status = Each(Blank)

Goto(w, l) == pc' = [pc EXCEPT ![w] = l]

\* update_status: it takes the mutex, so nobody may hold it, do_job's caller
\* included.
Show(w, kind, from) ==
    /\ mut = Free
    /\ status' = [status EXCEPT ![w] = [kind |-> kind, from |-> from]]

(***************************************************************************)
(* A definition whose name begins with Bad is a plausible mistake in the   *)
(* definition that follows it: no action uses it, and a property is known  *)
(* to fail when it takes the place of the definition.                      *)
(***************************************************************************)

(***************************************************************************)
(* The main thread.                                                        *)
(***************************************************************************)
\* _exit: the threads and all they worked on are gone.
Exit ==
    /\ main' = "end"
    /\ jobs' = <<>> /\ jcount' = 0 /\ mut' = Free
    /\ pc' = Each("lock")
    /\ job' = Each(NoJob) /\ addr' = Each(Star) /\ attempt' = Each(0)
    /\ ent' = Junk
    /\ status' = Each(Blank)

\* add_job up to its unlock.
Add(r) ==
    /\ main = "menu"
    /\ mut = Free
    /\ jcount < MaxAttempts
    /\ jobs' = Append(jobs, [n |-> jcount + 1, server |-> r])
    /\ jcount' = jcount + 1
    /\ main' = "notify"
    /\ UNCHANGED <<mut, pc, locals, ent, status>>

\* One request too many ends the process, with jobs in the queue or in hand.
AddTooMany ==
    /\ main = "menu"
    /\ mut = Free
    /\ jcount = MaxAttempts
    /\ Exit

Quit == main = "menu" /\ Exit

Waiting == {w \in Workers : pc[w] = "wait"}

\* cv.notify_one, after the unlock.
Notify ==
    /\ main = "notify"
    /\ IF Waiting = {} THEN UNCHANGED pc ELSE \E w \in Waiting : Goto(w, "woken")
    /\ main' = "menu"
    /\ UNCHANGED <<jobs, jcount, mut, locals, ent, status>>

(***************************************************************************)
(* A worker.                                                               *)
(***************************************************************************)
\* Taking the job that was added last.
BadTake(w) ==
    /\ pc[w] \in {"lock", "woken"}
    /\ mut = Free
    /\ jobs # <<>>
    /\ job' = [job EXCEPT ![w] = jobs[Len(jobs)]]
    /\ jobs' = SubSeq(jobs, 1, Len(jobs) - 1)
    /\ Goto(w, "parse")
    /\ UNCHANGED <<jcount, mut, main, addr, attempt, ent, status>>

\* do_job called before the unlock.
BadTakeLocked(w) ==
    /\ pc[w] \in {"lock", "woken"}
    /\ mut = Free
    /\ jobs # <<>>
    /\ job' = [job EXCEPT ![w] = Head(jobs)]
    /\ jobs' = Tail(jobs)
    /\ mut' = w
    /\ Goto(w, "parse")
    /\ UNCHANGED <<jcount, main, addr, attempt, ent, status>>

Take(w) ==
    /\ pc[w] \in {"lock", "woken"}
    /\ mut = Free
    /\ jobs # <<>>
    /\ job' = [job EXCEPT ![w] = Head(jobs)]
    /\ jobs' = Tail(jobs)
    /\ Goto(w, "parse")
    /\ UNCHANGED <<jcount, mut, main, addr, attempt, ent, status>>

\* Letting the mutex go between the look at the queue and the wait.
BadFindEmpty(w) ==
    /\ pc[w] \in {"lock", "woken"}
    /\ mut = Free
    /\ jobs = <<>>
    /\ Goto(w, "sleep")
    /\ UNCHANGED <<queueVars, locals, ent, status>>

\* The queue is empty: the worker goes to sleep with the mutex in hand.
FindEmpty(w) ==
    /\ pc[w] \in {"lock", "woken"}
    /\ mut = Free
    /\ jobs = <<>>
    /\ mut' = w
    /\ Goto(w, "sleep")
    /\ UNCHANGED <<jobs, jcount, main, locals, ent, status>>

\* cv.wait gives the mutex back and waits, in one step.
Sleep(w) ==
    /\ pc[w] = "sleep"
    /\ mut' = Free
    /\ Goto(w, "wait")
    /\ UNCHANGED <<jobs, jcount, main, locals, ent, status>>

\* A wait may end without a notification.
WakeUp(w) ==
    /\ main # "end"
    /\ pc[w] = "wait"
    /\ Goto(w, "woken")
    /\ UNCHANGED <<queueVars, locals, ent, status>>

\* do_job returns, and the variables of do_job and of the loop are gone.
Return(w) ==
    /\ Goto(w, "lock")
    /\ job' = [job EXCEPT ![w] = NoJob]
    /\ addr' = [addr EXCEPT ![w] = Star]
    /\ attempt' = [attempt EXCEPT ![w] = 0]

GoOn(w, l) == Goto(w, l) /\ UNCHANGED <<locals, status>>

\* The format of the request.
Parse(w) ==
    /\ pc[w] = "parse"
    /\ IF job[w].server \in Malformed
       THEN Show(w, "format", Star) /\ Return(w)
       ELSE GoOn(w, "lookup")
    /\ UNCHANGED <<queueVars, ent>>

\* gethostbyname2 enters the lock of the resolver.
BeginLookup(w) ==
    /\ pc[w] = "lookup"
    /\ \A v \in Workers : pc[v] # "resolve"
    /\ GoOn(w, "resolve")
    /\ ent' = Junk
    /\ UNCHANGED queueVars

EndLookup(w) ==
    /\ pc[w] = "resolve"
    /\ ent' \in Answers[job[w].server]
    /\ GoOn(w, "check")
    /\ UNCHANGED queueVars

\* gethostbyname2 returns NULL; what it leaves in the buffer is not defined.
FailLookup(w) ==
    /\ pc[w] = "resolve"
    /\ GoOn(w, "unresolved")
    /\ UNCHANGED <<queueVars, ent>>

Unresolved(w) ==
    /\ pc[w] = "unresolved"
    /\ Show(w, "unresolved", Star)
    /\ Return(w)
    /\ UNCHANGED <<queueVars, ent>>

\* What a read of *ent->h_addr_list[0] may return, if it does not crash.
Reads == IF ent = Junk THEN Addresses ELSE {ent}

\* The four tests for local and private addresses read ent once each.  One step
\* stands for them: the worker goes on or not whether ent changes between two of
\* them, or before the first or after the last.
Check(w) ==
    /\ pc[w] = "check"
    /\ \E a \in Reads :
         IF a \in Private THEN Show(w, "private", a) /\ Return(w) ELSE GoOn(w, "star")
    /\ UNCHANGED <<queueVars, ent>>

CheckStar(w) ==
    /\ pc[w] = "star"
    /\ \E a \in Reads :
         IF a = Star THEN Show(w, "star", a) /\ Return(w) ELSE GoOn(w, "connect")
    /\ UNCHANGED <<queueVars, ent>>

\* The address is read again for every attempt.
Connect(w) ==
    /\ pc[w] = "connect"
    /\ \E a \in Reads : addr' = [addr EXCEPT ![w] = a] /\ Show(w, "connecting", a)
    /\ Goto(w, "fetch")
    /\ UNCHANGED <<queueVars, job, attempt, ent>>

\* connect, write and read succeed.
Fetch(w) ==
    /\ pc[w] = "fetch"
    /\ addr[w] \notin Silent
    /\ Show(w, "page", addr[w])
    /\ Return(w)
    /\ UNCHANGED <<queueVars, ent>>

\* One attempt too many.
BadFailFetch(w) ==
    /\ pc[w] = "fetch"
    /\ addr[w] \notin Silent
    /\ Show(w, "error", addr[w])
    /\ IF attempt[w] = 2 THEN Return(w)
       ELSE /\ Goto(w, "connect")
            /\ attempt' = [attempt EXCEPT ![w] = @ + 1]
            /\ UNCHANGED <<job, addr>>
    /\ UNCHANGED <<queueVars, ent>>

\* One of them fails; the second failure ends the job.
FailFetch(w) ==
    /\ pc[w] = "fetch"
    /\ addr[w] \notin Silent
    /\ Show(w, "error", addr[w])
    /\ IF attempt[w] = 1 THEN Return(w)
       ELSE /\ Goto(w, "connect")
            /\ attempt' = [attempt EXCEPT ![w] = 1]
            /\ UNCHANGED <<job, addr>>
    /\ UNCHANGED <<queueVars, ent>>

\* The process dies: reading through a pointer that leads nowhere, or by SIGPIPE
\* when it writes to a server that has closed the connection.
Die(w) ==
    /\ main # "end"
    /\ \/ pc[w] \in {"check", "star", "connect"} /\ ent = Junk
       \/ pc[w] = "fetch" /\ addr[w] \notin Silent
    /\ Exit

DoJob(w) ==
    \/ Parse(w)
    \/ BeginLookup(w) \/ EndLookup(w) \/ FailLookup(w) \/ Unresolved(w)
    \/ Check(w) \/ CheckStar(w)
    \/ Connect(w) \/ Fetch(w) \/ FailFetch(w)

Worker(w) == main # "end" /\ (Take(w) \/ FindEmpty(w) \/ Sleep(w) \/ DoJob(w))

Next ==
    \/ \E r \in Requests : Add(r)
    \/ AddTooMany \/ Quit
    \/ Notify
    \/ \E w \in Workers : Worker(w) \/ WakeUp(w) \/ Die(w)

Spec == Init /\ [][Next]_vars

\* The main thread goes on to notify_one; a worker goes on, gets the mutex
\* although others take it again and again, and the resolver's lock likewise.
\* Nothing makes the user ask or a silent server answer.
FairSpec == Spec /\ WF_vars(Notify) /\ \A w \in Workers : SF_vars(Worker(w))

(***************************************************************************)
(* Properties.                                                             *)
(***************************************************************************)
Locations ==
    {"lock", "sleep", "wait", "woken", "parse", "lookup", "resolve",
     "unresolved", "check", "star", "connect", "fetch"}

Idling == {"lock", "sleep", "wait", "woken"}

\* Every variable keeps its type, and a worker in do_job has a job, past the
\* test of the format one that names a server.
TypeOK ==
    /\ jobs \in Seq(Jobs)
    /\ jcount \in 0 .. MaxAttempts
    /\ mut \in Workers \union {Free}
    /\ pc \in [Workers -> Locations]
    /\ job \in [Workers -> Jobs \union {NoJob}]
    /\ ent \in Addresses \union {Junk}
    /\ addr \in [Workers -> Addresses]
    /\ attempt \in [Workers -> {0, 1}]
    /\ status \in [Workers -> [kind : {"none", "format", "unresolved", "private", "star",
                                       "connecting", "page", "error"},
                               from : Addresses]]
    /\ main \in {"menu", "notify", "end"}
    /\ \A w \in Workers :
         /\ pc[w] \notin Idling => job[w] \in Jobs
         /\ pc[w] \notin Idling \union {"parse"} => job[w].server \in Servers

Woken == {w \in Workers : pc[w] = "woken"}

\* No job is left to a worker that sleeps (100-113, 121-131): while one waits,
\* every job in the queue has a worker that was woken, or the main thread is
\* about to wake one.
NoLostWakeup ==
    Waiting # {} =>
        Len(jobs) <= Cardinality(Woken) + (IF main = "notify" THEN 1 ELSE 0)

\* Why that is so: the mutex is held from the look at the queue to the wait.
SleepsUnderLock ==
    \A w \in Workers : (mut = w <=> pc[w] = "sleep") /\ (pc[w] = "sleep" => jobs = <<>>)

\* Every job that a worker begins comes to its end (40-95), unless a server keeps
\* it waiting for ever: update_status takes the mutex of the queue, which other
\* workers and the main thread take again and again, lookups wait for each other,
\* and an attempt that fails is repeated once.
JobEnds ==
    \A w \in Workers :
        pc[w] \notin Idling ~> pc[w] \in Idling \/ (pc[w] = "fetch" /\ addr[w] \in Silent)

Queue == INSTANCE JobQueue WITH
    queue <- jobs,
    busy <- [w \in Workers |-> IF pc[w] \in Idling THEN NoJob ELSE job[w]],
    over <- main = "end"

\* The crawler implements JobQueue: first come, first served, each job once, and
\* no job waits for ever for a worker that has nothing to do.
QueueSpec == Queue!FairSpec
=============================================================================
