-------------------------- MODULE WebCrawlerProofs --------------------------
(***************************************************************************)
(* Type correctness of WebCrawler, that no job is left to a sleeping       *)
(* worker, and that the crawler implements JobQueue, for any number of     *)
(* workers, servers, addresses and requests.                               *)
(***************************************************************************)
EXTENDS WebCrawler, FiniteSetTheorems, SequenceTheorems, TLAPS

(***************************************************************************)
(* Lemmas.                                                                 *)
(***************************************************************************)
\* A step of do_job leaves the queue alone and either stays inside do_job with
\* its job or returns.
LEMMA DoJobStep ==
    ASSUME TypeOK, NEW w \in Workers, DoJob(w)
    PROVE  /\ pc[w] \notin Idling
           /\ UNCHANGED queueVars
           /\ \/ job' = job /\ \E l \in Locations \ (Idling \union {"parse"}) : Goto(w, l)
              \/ Return(w)
<1>1. CASE Parse(w)
  BY <1>1 DEF Parse, GoOn, Goto, Return, Idling, Locations, locals
<1>2. CASE BeginLookup(w) \/ EndLookup(w) \/ FailLookup(w)
  BY <1>2 DEF BeginLookup, EndLookup, FailLookup, GoOn, Goto, Idling, Locations, locals, queueVars
<1>3. CASE Unresolved(w) \/ Fetch(w)
  BY <1>3 DEF Unresolved, Fetch, Idling
<1>4. CASE Check(w)
  BY <1>4 DEF Check, GoOn, Goto, Idling, Locations, locals
<1>5. CASE CheckStar(w)
  BY <1>5 DEF CheckStar, GoOn, Goto, Idling, Locations, locals
<1>6. CASE Connect(w)
  BY <1>6 DEF Connect, Goto, Idling, Locations
<1>7. CASE FailFetch(w)
  BY <1>7 DEF FailFetch, Goto, Idling, Locations
<1> QED
  BY <1>1, <1>2, <1>3, <1>4, <1>5, <1>6, <1>7 DEF DoJob

(***************************************************************************)
(* Type correctness.                                                       *)
(***************************************************************************)
\* What is shown and returned keeps its type.
LEMMA StatusType ==
    ASSUME TypeOK, NEW w \in Workers, NEW a \in Addresses,
           NEW k \in {"none", "format", "unresolved", "private", "star", "connecting", "page", "error"},
           Show(w, k, a)
    PROVE  status' \in [Workers -> [kind : {"none", "format", "unresolved", "private", "star",
                                            "connecting", "page", "error"},
                                    from : Addresses]]
BY DEF TypeOK, Show

\* What a worker reads of the shared result is an address.
LEMMA ReadsType ==
    ASSUME TypeOK
    PROVE  Reads \subseteq Addresses
BY DEF TypeOK, Reads

\* The part of TypeOK that says what a worker has at each place.
WorkerType(w) ==
    /\ pc[w] \notin Idling => job[w] \in Jobs
    /\ pc[w] \notin Idling \union {"parse"} => job[w].server \in Servers

\* do_job keeps the types of a worker's variables.
LEMMA DoJobTypes ==
    ASSUME TypeOK, NEW w \in Workers, DoJob(w)
    PROVE  TypeOK'
<1> USE ConstAssumption
<1> DEFINE Statuses == [kind : {"none", "format", "unresolved", "private", "star",
                                "connecting", "page", "error"},
                        from : Addresses]
<1>1. UNCHANGED queueVars /\ pc[w] \notin Idling
  BY DoJobStep
<1>2. pc' \in [Workers -> Locations] /\ job' \in [Workers -> Jobs \union {NoJob}]
  <2>1. CASE job' = job /\ \E l \in Locations : Goto(w, l)
    BY <2>1 DEF TypeOK, Goto
  <2>2. CASE Return(w)
    BY <2>2 DEF Return, Goto, TypeOK, Locations
  <2> QED
    BY <2>1, <2>2, DoJobStep
<1> DEFINE Kept == /\ addr' \in [Workers -> Addresses]
                     /\ attempt' \in [Workers -> {0, 1}]
                     /\ status' \in [Workers -> Statuses]
                     /\ ent' \in Addresses \union {Junk}
<1>3. Kept
  <2>0. Star \in Addresses /\ addr[w] \in Addresses /\ Reads \subseteq Addresses
    BY ReadsType DEF TypeOK
  <2>1. ASSUME NEW k \in {"format", "unresolved", "private", "star", "page", "error"},
               NEW a \in Addresses, Show(w, k, a), Return(w), UNCHANGED ent
        PROVE  Kept
    <3>1. status' \in [Workers -> Statuses]
      BY <2>1, StatusType
    <3>2. addr' \in [Workers -> Addresses] /\ attempt' \in [Workers -> {0, 1}]
      BY <2>0, <2>1 DEF Return, TypeOK
    <3> QED
      BY <2>1, <3>1, <3>2 DEF TypeOK
  <2>2. ASSUME NEW l, GoOn(w, l), ent' \in Addresses \union {Junk} PROVE Kept
    BY <2>2 DEF GoOn, locals, TypeOK
  <2>3. ASSUME UNCHANGED ent PROVE ent' \in Addresses \union {Junk}
    BY <2>3 DEF TypeOK
  <2>4. CASE Parse(w)
    <3>1. UNCHANGED ent /\ ((Show(w, "format", Star) /\ Return(w)) \/ GoOn(w, "lookup"))
      BY <2>4 DEF Parse
    <3> HIDE DEF Kept
    <3> QED
      BY <2>0, <2>1, <2>2, <2>3, <3>1
  <2>5. CASE BeginLookup(w) \/ FailLookup(w)
    BY <2>5 DEF BeginLookup, FailLookup, GoOn, locals, TypeOK
  <2>6. CASE EndLookup(w)
    <3>1. job[w].server \in Servers
      BY <2>6 DEF EndLookup, TypeOK, Idling
    <3> QED
      BY <2>6, <3>1 DEF EndLookup, GoOn, locals, TypeOK
  <2>7. CASE Unresolved(w)
    BY <2>0, <2>1, <2>7 DEF Unresolved
  <2>8. CASE Check(w)
    <3>1. UNCHANGED ent
          /\ \E a \in Reads : (Show(w, "private", a) /\ Return(w)) \/ GoOn(w, "star")
      BY <2>8 DEF Check
    <3> HIDE DEF Kept
    <3> QED
      BY <2>0, <2>1, <2>2, <2>3, <3>1
  <2>9. CASE CheckStar(w)
    <3>1. UNCHANGED ent
          /\ \E a \in Reads : (Show(w, "star", a) /\ Return(w)) \/ GoOn(w, "connect")
      BY <2>9 DEF CheckStar
    <3> HIDE DEF Kept
    <3> QED
      BY <2>0, <2>1, <2>2, <2>3, <3>1
  <2>10. CASE Connect(w)
    <3>1. PICK a \in Addresses : addr' = [addr EXCEPT ![w] = a] /\ Show(w, "connecting", a)
      BY <2>0, <2>10 DEF Connect
    <3>2. status' \in [Workers -> Statuses]
      BY <3>1, StatusType
    <3>3. UNCHANGED <<attempt, ent>>
      BY <2>10 DEF Connect
    <3> QED
      BY <3>1, <3>2, <3>3 DEF TypeOK
  <2>11. CASE Fetch(w)
    BY <2>0, <2>1, <2>11 DEF Fetch
  <2>12. CASE FailFetch(w)
    <3>1. status' \in [Workers -> Statuses]
      BY <2>0, <2>12, StatusType DEF FailFetch
    <3>2. UNCHANGED ent
      BY <2>12 DEF FailFetch
    <3>3. Return(w) \/ (attempt' = [attempt EXCEPT ![w] = 1] /\ addr' = addr)
      BY <2>12 DEF FailFetch
    <3>4. addr' \in [Workers -> Addresses] /\ attempt' \in [Workers -> {0, 1}]
      <4>1. /\ addr' = addr \/ addr' = [addr EXCEPT ![w] = Star]
            /\ attempt' = [attempt EXCEPT ![w] = 0] \/ attempt' = [attempt EXCEPT ![w] = 1]
        BY <3>3 DEF Return
      <4>2. addr' \in [Workers -> Addresses]
        BY <2>0, <4>1 DEF TypeOK
      <4>3. attempt' \in [Workers -> {0, 1}]
        BY <4>1 DEF TypeOK
      <4> QED
        BY <4>2, <4>3
    <3>5. ent' \in Addresses \union {Junk}
      BY <2>3, <3>2
    <3> QED
      BY <3>1, <3>4, <3>5
  <2> QED
    BY <2>4, <2>5, <2>6, <2>7, <2>8, <2>9, <2>10, <2>11, <2>12 DEF DoJob
<1>4. \A v \in Workers : WorkerType(v)'
  <2>1. ASSUME NEW v \in Workers, v # w PROVE WorkerType(v)'
    BY <2>1, DoJobStep DEF TypeOK, WorkerType, Goto, Return
  <2>2. CASE Return(w)
    BY <2>1, <2>2 DEF TypeOK, WorkerType, Return, Goto, Idling
  <2>3. CASE job' = job /\ pc[w] = "parse"
    <3>1. Parse(w)
      BY <2>3 DEF DoJob, Parse, BeginLookup, EndLookup, FailLookup, Unresolved, Check, CheckStar,
                  Connect, Fetch, FailFetch
    <3>2. job[w] \in Jobs
      BY <2>3 DEF TypeOK, Idling
    <3>3. job[w] # NoJob /\ job'[w] = job[w]
      BY <2>3, <3>2
    <3>4. job[w].server \notin Malformed
      BY <3>1, <3>3 DEF Parse, Return, TypeOK
    <3>5. job[w].server \in Servers
      BY <3>2, <3>4 DEF Jobs, Requests
    <3>6. WorkerType(w)'
      BY <3>2, <3>3, <3>5 DEF WorkerType
    <3> QED
      BY <2>1, <3>6
  <2>4. CASE job' = job /\ pc[w] # "parse"
    BY <1>1, <2>1, <2>4 DEF TypeOK, WorkerType
  <2> QED
    BY <2>2, <2>3, <2>4, DoJobStep
<1> QED
  BY <1>1, <1>2, <1>3, <1>4 DEF TypeOK, WorkerType, queueVars

\* Every variable keeps its type; in particular do_job runs with a job, and looks
\* up the name of a server only.
THEOREM TypeCorrect == Spec => []TypeOK
<1>1. Init => TypeOK
  BY ConstAssumption DEF Init, TypeOK, Each, Blank, Locations, Idling
<1>2. TypeOK /\ [Next]_vars => TypeOK'
  <2> SUFFICES ASSUME TypeOK, [Next]_vars PROVE TypeOK'
    OBVIOUS
  <2>1. CASE UNCHANGED vars
    BY <2>1 DEF vars, queueVars, locals, TypeOK
  <2>2. ASSUME NEW r \in Requests, Add(r) PROVE TypeOK'
    <3>1. jcount + 1 \in 1 .. MaxAttempts /\ jcount + 1 \in 0 .. MaxAttempts
      BY <2>2, ConstAssumption DEF Add, TypeOK
    <3>2. [n |-> jcount + 1, server |-> r] \in Jobs
      BY <3>1 DEF Jobs
    <3>3. jobs' \in Seq(Jobs)
      BY <2>2, <3>2 DEF Add, TypeOK
    <3> QED
      BY <2>2, <3>1, <3>3 DEF Add, TypeOK, locals
  <2>3. CASE AddTooMany \/ Quit \/ \E w \in Workers : Die(w)
    <3>1. Exit
      BY <2>3 DEF AddTooMany, Quit, Die
    <3>2. jcount' \in 0 .. MaxAttempts /\ jobs' \in Seq(Jobs)
      BY <3>1, ConstAssumption DEF Exit
    <3> QED
      BY <3>1, <3>2, ConstAssumption DEF Exit, Each, Blank, TypeOK, Locations, Idling
  <2>4. CASE Notify
    <3>1. pc' = pc \/ \E w \in Waiting : Goto(w, "woken")
      BY <2>4 DEF Notify
    <3>2. pc' \in [Workers -> Locations] /\ \A w \in Workers : pc'[w] \notin Idling => pc'[w] = pc[w]
      BY <3>1 DEF Waiting, Goto, TypeOK, Locations, Idling
    <3> QED
      BY <2>4, <3>2 DEF Notify, TypeOK, locals
  <2>5. ASSUME NEW w \in Workers, Take(w) PROVE TypeOK'
    <3>1. job'[w] \in Jobs /\ jobs' \in Seq(Jobs) /\ job' \in [Workers -> Jobs \union {NoJob}]
      BY <2>5, HeadTailProperties DEF Take, TypeOK
    <3>2. pc' \in [Workers -> Locations] /\ pc'[w] = "parse"
      BY <2>5 DEF Take, Goto, TypeOK, Locations
    <3>3. \A v \in Workers : v # w => pc'[v] = pc[v] /\ job'[v] = job[v]
      BY <2>5 DEF Take, Goto, TypeOK
    <3> QED
      BY <2>5, <3>1, <3>2, <3>3 DEF Take, TypeOK
  <2>6. ASSUME NEW w \in Workers, FindEmpty(w) PROVE TypeOK'
    BY <2>6 DEF FindEmpty, Goto, TypeOK, Locations, Idling, locals
  <2>7. ASSUME NEW w \in Workers, Sleep(w) PROVE TypeOK'
    BY <2>7 DEF Sleep, Goto, TypeOK, Locations, Idling, locals
  <2>8. ASSUME NEW w \in Workers, WakeUp(w) PROVE TypeOK'
    BY <2>8 DEF WakeUp, Goto, TypeOK, Locations, Idling, locals, queueVars
  <2>9. ASSUME NEW w \in Workers, DoJob(w) PROVE TypeOK'
    BY <2>9, DoJobTypes
  <2> QED
    BY <2>1, <2>2, <2>3, <2>4, <2>5, <2>6, <2>7, <2>8, <2>9 DEF Next, Worker
<1> QED
  BY <1>1, <1>2, PTL DEF Spec

(***************************************************************************)
(* No job is left to a sleeping worker.                                    *)
(***************************************************************************)
\* do_job changes nothing the queue's invariants speak of: no worker falls
\* asleep, wakes up or has the mutex because of it.
LEMMA DoJobAwake ==
    ASSUME TypeOK, NEW w \in Workers, DoJob(w)
    PROVE  /\ UNCHANGED queueVars
           /\ UNCHANGED <<Waiting, Woken>>
           /\ \A v \in Workers : pc'[v] = "sleep" <=> pc[v] = "sleep"
<1>1. pc[w] \notin Idling /\ UNCHANGED queueVars
  BY DoJobStep
<1>2. \E l \in Locations : Goto(w, l) /\ l \notin {"sleep", "wait", "woken"}
  BY DoJobStep DEF Return, Locations, Idling
<1>3. \A v \in Workers : \A l \in {"sleep", "wait", "woken"} : pc'[v] = l <=> pc[v] = l
  BY <1>1, <1>2 DEF Goto, TypeOK, Idling
<1> QED
  BY <1>1, <1>3 DEF Waiting, Woken

\* The woken workers are finitely many.
LEMMA WokenFinite == IsFiniteSet(Woken) /\ Cardinality(Woken) \in Nat
BY ConstAssumption, FS_Subset, FS_CardinalityType DEF Woken

\* One worker more that was woken, or one less.
LEMMA WokenMore ==
    ASSUME TypeOK, NEW w \in Workers, pc[w] # "woken", Goto(w, "woken")
    PROVE  Cardinality(Woken') = Cardinality(Woken) + 1
<1>1. Woken' = Woken \union {w} /\ w \notin Woken
  BY DEF Woken, Goto, TypeOK
<1> QED
  BY <1>1, WokenFinite, FS_AddElement

LEMMA WokenLess ==
    ASSUME TypeOK, NEW w \in Workers, NEW l, l # "woken", Goto(w, l)
    PROVE  /\ Cardinality(Woken') \in Nat
           /\ Cardinality(Woken') >= Cardinality(Woken) - 1
           /\ pc[w] # "woken" => Cardinality(Woken') = Cardinality(Woken)
<1>1. Woken' = Woken \ {w}
  BY DEF Woken, Goto, TypeOK
<1>2. CASE w \in Woken
  <2>1. Cardinality(Woken') = Cardinality(Woken) - 1 /\ IsFiniteSet(Woken')
    BY <1>1, <1>2, WokenFinite, FS_RemoveElement
  <2> QED
    BY <1>2, <2>1, WokenFinite, FS_CardinalityType DEF Woken
<1>3. CASE w \notin Woken
  <2>1. Woken' = Woken
    BY <1>1, <1>3
  <2> QED
    BY <2>1, WokenFinite
<1> QED
  BY <1>2, <1>3

\* The invariant: the mutex is held by the worker about to wait, for which the
\* queue is empty, and no wakeup is lost.
WakeInv == SleepsUnderLock /\ NoLostWakeup

LEMMA WakeInvStep ==
    ASSUME TypeOK, WakeInv, [Next]_vars
    PROVE  WakeInv'
<1> USE DEF WakeInv
<1>0. /\ Len(jobs) \in Nat
      /\ Cardinality(Woken) \in Nat
      /\ \A w \in Workers : w # Free
  BY WokenFinite, ConstAssumption DEF TypeOK
<1>1. CASE UNCHANGED vars
  BY <1>1 DEF vars, queueVars, SleepsUnderLock, NoLostWakeup, Waiting, Woken
<1>2. ASSUME NEW r \in Requests, Add(r) PROVE WakeInv'
  <2>1. mut = Free /\ mut' = mut /\ pc' = pc
    BY <1>2 DEF Add
  <2>2. SleepsUnderLock'
    BY <1>0, <2>1 DEF SleepsUnderLock
  <2>3. Len(jobs') = Len(jobs) + 1 /\ main = "menu" /\ main' = "notify"
    BY <1>2 DEF Add, TypeOK
  <2>4. NoLostWakeup'
    BY <1>0, <2>1, <2>3 DEF NoLostWakeup, Waiting, Woken
  <2> QED
    BY <2>2, <2>4
<1>3. CASE AddTooMany \/ Quit \/ \E w \in Workers : Die(w)
  <2>1. Exit
    BY <1>3 DEF AddTooMany, Quit, Die
  <2> QED
    BY <1>0, <2>1 DEF Exit, Each, SleepsUnderLock, NoLostWakeup, Waiting
<1>4. CASE Notify
  <2>1. main = "notify" /\ main' = "menu" /\ mut' = mut /\ jobs' = jobs
    BY <1>4 DEF Notify
  <2>2. CASE Waiting = {}
    <3>1. pc' = pc
      BY <1>4, <2>2 DEF Notify
    <3> QED
      BY <2>1, <2>2, <3>1 DEF SleepsUnderLock, NoLostWakeup, Waiting
  <2>3. CASE Waiting # {}
    <3>1. PICK w \in Waiting : Goto(w, "woken")
      BY <1>4, <2>3 DEF Notify
    <3>2. w \in Workers /\ pc[w] = "wait"
      BY <3>1 DEF Waiting
    <3>3. Cardinality(Woken') = Cardinality(Woken) + 1
      BY <3>1, <3>2, WokenMore
    <3>4. NoLostWakeup'
      BY <1>0, <2>1, <2>3, <3>3 DEF NoLostWakeup
    <3>5. SleepsUnderLock'
      BY <2>1, <3>1, <3>2 DEF SleepsUnderLock, Goto, TypeOK
    <3> QED
      BY <3>4, <3>5
  <2> QED
    BY <2>2, <2>3
<1>5. ASSUME NEW w \in Workers, Take(w) PROVE WakeInv'
  <2>1. mut = Free /\ mut' = mut /\ main' = main /\ jobs # <<>> /\ jobs' = Tail(jobs)
        /\ pc[w] \in {"lock", "woken"} /\ Goto(w, "parse")
    BY <1>5 DEF Take
  <2>2. Len(jobs') = Len(jobs) - 1
    BY <2>1, HeadTailProperties DEF TypeOK
  <2>3. /\ Cardinality(Woken') \in Nat
        /\ Cardinality(Woken') >= Cardinality(Woken) - 1
    BY <2>1, WokenLess
  <2>4. Waiting' = Waiting
    BY <2>1 DEF Waiting, Goto, TypeOK
  <2>5. NoLostWakeup'
    BY <1>0, <2>1, <2>2, <2>3, <2>4 DEF NoLostWakeup
  <2>6. SleepsUnderLock'
    BY <1>0, <2>1 DEF SleepsUnderLock, Goto, TypeOK
  <2> QED
    BY <2>5, <2>6
<1>6. ASSUME NEW w \in Workers, FindEmpty(w) PROVE WakeInv'
  <2>1. mut = Free /\ mut' = w /\ main' = main /\ jobs = <<>> /\ jobs' = jobs
        /\ pc[w] \in {"lock", "woken"} /\ Goto(w, "sleep")
    BY <1>6 DEF FindEmpty
  <2>2. Cardinality(Woken') \in Nat /\ Len(jobs') = 0
    BY <2>1, WokenLess
  <2>3. NoLostWakeup'
    BY <2>1, <2>2 DEF NoLostWakeup
  <2>4. SleepsUnderLock'
    BY <1>0, <2>1 DEF SleepsUnderLock, Goto, TypeOK
  <2> QED
    BY <2>3, <2>4
<1>7. ASSUME NEW w \in Workers, Sleep(w) PROVE WakeInv'
  <2>1. pc[w] = "sleep" /\ mut' = Free /\ main' = main /\ jobs' = jobs /\ Goto(w, "wait")
    BY <1>7 DEF Sleep
  <2>2. mut = w /\ jobs = <<>>
    BY <2>1 DEF SleepsUnderLock
  <2>3. Cardinality(Woken') \in Nat /\ Len(jobs') = 0
    BY <2>1, <2>2, WokenLess
  <2>4. NoLostWakeup'
    BY <2>1, <2>3 DEF NoLostWakeup
  <2>5. SleepsUnderLock'
    BY <1>0, <2>1, <2>2 DEF SleepsUnderLock, Goto, TypeOK
  <2> QED
    BY <2>4, <2>5
<1>8. ASSUME NEW w \in Workers, WakeUp(w) PROVE WakeInv'
  <2>1. pc[w] = "wait" /\ mut' = mut /\ main' = main /\ jobs' = jobs /\ Goto(w, "woken")
    BY <1>8 DEF WakeUp, queueVars
  <2>2. Cardinality(Woken') = Cardinality(Woken) + 1 /\ w \in Waiting
    BY <2>1, WokenMore DEF Waiting
  <2>3. NoLostWakeup'
    BY <1>0, <2>1, <2>2 DEF NoLostWakeup
  <2>4. SleepsUnderLock'
    BY <2>1 DEF SleepsUnderLock, Goto, TypeOK
  <2> QED
    BY <2>3, <2>4
<1>9. ASSUME NEW w \in Workers, DoJob(w) PROVE WakeInv'
  BY <1>9, DoJobAwake DEF SleepsUnderLock, NoLostWakeup, queueVars
<1> QED
  BY <1>1, <1>2, <1>3, <1>4, <1>5, <1>6, <1>7, <1>8, <1>9 DEF Next, Worker

\* While a worker waits, every job in the queue has a worker that was woken for
\* it or is about to be.
THEOREM NoJobLeft == Spec => []NoLostWakeup
<1>1. Init => WakeInv
  BY ConstAssumption DEF Init, Each, WakeInv, SleepsUnderLock, NoLostWakeup, Waiting
<1>2. TypeOK /\ WakeInv /\ [Next]_vars => WakeInv'
  BY WakeInvStep
<1>3. WakeInv => NoLostWakeup
  BY DEF WakeInv
<1> QED
  BY <1>1, <1>2, <1>3, TypeCorrect, PTL DEF Spec

(***************************************************************************)
(* The crawler implements JobQueue.                                        *)
(***************************************************************************)
\* What a worker has to do, as JobQueue sees it.
Busy == [w \in Workers |-> IF pc[w] \in Idling THEN NoJob ELSE job[w]]

\* A step inside the queue's code or inside do_job is none of the queue's.
LEMMA BusyKept ==
    ASSUME TypeOK, NEW w \in Workers, NEW l \in Locations, Goto(w, l),
           l \in Idling <=> pc[w] \in Idling,
           job' = job
    PROVE  Busy' = Busy
BY DEF Busy, Goto, TypeOK

\* First come, first served, each job by one worker: the safety of JobQueue.
THEOREM ImplementsQueue == Spec => Queue!Spec
<1> USE DEF Queue!vars
<1>1. Init => Queue!Init
  BY DEF Init, Each, Idling, Queue!Init, Queue!Idle
<1>2. TypeOK /\ [Next]_vars => [Queue!Next]_(Queue!vars)
  <2> SUFFICES ASSUME TypeOK, [Next]_vars
               PROVE  Queue!Next \/ (jobs' = jobs /\ Busy' = Busy /\ (main = "end")' = (main = "end"))
    BY DEF Busy
  <2>1. CASE UNCHANGED vars
    BY <2>1 DEF vars, queueVars, locals, Busy
  <2>2. ASSUME NEW r \in Requests, Add(r) PROVE Queue!Next
    <3>1. [n |-> jcount + 1, server |-> r] \in Jobs
      BY <2>2, ConstAssumption DEF Add, Jobs, TypeOK
    <3>2. Queue!Add([n |-> jcount + 1, server |-> r])
      BY <2>2 DEF Add, Queue!Add, locals
    <3> QED
      BY <3>1, <3>2 DEF Queue!Next
  <2>3. CASE AddTooMany \/ Quit \/ \E w \in Workers : Die(w)
    <3>1. Exit
      BY <2>3 DEF AddTooMany, Quit, Die
    <3>2. Queue!Stop
      BY <3>1 DEF Exit, Each, Idling, Queue!Stop, Queue!Idle
    <3> QED
      BY <3>2 DEF Queue!Next
  <2>4. CASE Notify
    <3>1. jobs' = jobs /\ job' = job /\ main # "end" /\ main' # "end"
      BY <2>4 DEF Notify, locals
    <3>2. pc' = pc \/ \E w \in Waiting : Goto(w, "woken")
      BY <2>4 DEF Notify
    <3>3. Busy' = Busy
      BY <3>1, <3>2, BusyKept DEF Busy, Waiting, Idling, Locations
    <3> QED
      BY <3>1, <3>3
  <2>5. ASSUME NEW w \in Workers, main # "end", Take(w) PROVE Queue!Next
    <3>1. Head(jobs) \in Jobs /\ pc[w] \in Idling
      BY <2>5, HeadTailProperties DEF Take, TypeOK, Idling
    <3>2. Busy[w] = NoJob /\ Busy' = [Busy EXCEPT ![w] = Head(jobs)]
      BY <2>5, <3>1 DEF Take, Goto, Busy, TypeOK, Idling
    <3>3. Queue!Take(w)
      BY <2>5, <3>2 DEF Take, Queue!Take, Busy
    <3> QED
      BY <3>3 DEF Queue!Next
  <2>6. ASSUME NEW w \in Workers, FindEmpty(w) \/ Sleep(w) \/ WakeUp(w)
        PROVE  jobs' = jobs /\ Busy' = Busy /\ main' = main
    <3>1. jobs' = jobs /\ main' = main /\ job' = job /\ pc[w] \in Idling
          /\ \E l \in {"sleep", "wait", "woken"} : Goto(w, l)
      BY <2>6 DEF FindEmpty, Sleep, WakeUp, queueVars, locals, Idling
    <3> QED
      BY <3>1, BusyKept DEF Idling, Locations
  <2>7. ASSUME NEW w \in Workers, main # "end", DoJob(w)
        PROVE  Queue!Next \/ (jobs' = jobs /\ Busy' = Busy /\ main' = main)
    <3>1. jobs' = jobs /\ main' = main /\ pc[w] \notin Idling
      BY <2>7, DoJobStep DEF queueVars
    <3>2. CASE job' = job /\ \E l \in Locations \ Idling : Goto(w, l)
      BY <3>1, <3>2, BusyKept
    <3>3. CASE Return(w)
      <4>1. Busy[w] \in Jobs
        BY <3>1 DEF Busy, TypeOK
      <4>2. Busy' = [Busy EXCEPT ![w] = NoJob]
        BY <3>3 DEF Return, Goto, Busy, TypeOK, Idling
      <4>3. Queue!Finish(w)
        BY <2>7, <3>1, <4>1, <4>2, ConstAssumption DEF Queue!Finish, Busy
      <4> QED
        BY <4>3 DEF Queue!Next
    <3> QED
      BY <2>7, <3>2, <3>3, DoJobStep
  <2> QED
    BY <2>1, <2>2, <2>3, <2>4, <2>5, <2>6, <2>7 DEF Next, Worker
<1> QED
  BY <1>1, <1>2, TypeCorrect, PTL DEF Spec, Queue!Spec
=============================================================================
