------------------------------- MODULE Oracle -------------------------------
(***************************************************************************)
(* The oracle services of Lab7: two oracles, each with a stage and a       *)
(* pointer to a secret.  gen_secret() writes every secret into one static  *)
(* buffer; oraclep1.c gives the oracle a copy of it, oracle.c the buffer.  *)
(***************************************************************************)
EXTENDS Integers

CONSTANTS
    Oracles,
    Seeds,      \* what a message and the time can make of a seed
    Copied,     \* TRUE in oraclep1.c, FALSE in oracle.c
    MaxDrawn    \* bound: secrets drawn from one seed

VARIABLES
    stage, secret,
    oseed, drawn,   \* the seed, -1 for none, and the secrets drawn since srand
    buf,            \* gen_secret's static buffer
    own,            \* history: the last secret made for each oracle
    running

vars == <<stage, secret, oseed, drawn, buf, own, running>>

maxstage == 4
Secrets == Seeds \X (0 .. MaxDrawn)
NoText == <<>>          \* a buffer nothing was written to
Static == <<"buf">>     \* a pointer to the static buffer

\* What an oracle's pointer points at; a copy is as good as its text.
Text(p) == IF p = Static THEN buf ELSE p

Init ==
    /\ stage = [o \in Oracles |-> 0]
    /\ secret = [o \in Oracles |-> NoText]
    /\ oseed = -1
    /\ drawn = 0
    /\ buf = NoText
    /\ own = [o \in Oracles |-> NoText]
    /\ running = TRUE

\* Rand: the numbers are those of the seed.  The key of the oracle is drawn from
\* the same numbers, so a secret is known by how many were made before it.
gen_secret(seed) ==
    /\ oseed' = IF oseed < 0 THEN seed ELSE oseed
    /\ drawn' = IF oseed < 0 THEN 1 ELSE drawn + 1
    /\ buf' = <<oseed', drawn' - 1>>

\* A mistake no action makes: the oracle keeps the buffer and not a copy, as
\* oracle.c does.
BadKeep(text) == Static

Keep(text) == IF Copied THEN text ELSE Static

NextStage(o) == stage' = [stage EXCEPT ![o] = (@ + 1) % maxstage]

\* oracle_init; an empty message changes nothing.
oracle_init(o) ==
    /\ running /\ stage[o] = 0
    /\ oseed < 0 \/ drawn < MaxDrawn
    /\ \E seed \in Seeds : gen_secret(seed)
    /\ secret' = [secret EXCEPT ![o] = Keep(buf')]
    /\ own' = [own EXCEPT ![o] = buf']
    /\ NextStage(o)
    /\ UNCHANGED running

\* oracle_guess: the guess is any secret, or another word.
oracle_guess(o) ==
    /\ running /\ stage[o] \in {1, 2}
    /\ \E guess \in Secrets \union {NoText} :
         IF guess = Text(secret[o])
         THEN stage' = [stage EXCEPT ![o] = 0]
         ELSE NextStage(o)
    /\ UNCHANGED <<secret, oseed, drawn, buf, own, running>>

\* An empty line has no word: strcmp is given NULL.
oracle_guess_nothing(o) ==
    /\ running /\ stage[o] \in {1, 2}
    /\ running' = FALSE
    /\ UNCHANGED <<stage, secret, oseed, drawn, buf, own>>

oracle_show(o) ==
    /\ running /\ stage[o] = 3
    /\ NextStage(o)
    /\ oseed' = -1
    /\ UNCHANGED <<secret, drawn, buf, own, running>>

\* "q", the end of the input, or the alarm after 300 seconds.
Quit ==
    /\ running
    /\ running' = FALSE
    /\ UNCHANGED <<stage, secret, oseed, drawn, buf, own>>

Next ==
    \/ \E o \in Oracles : \/ oracle_init(o) \/ oracle_guess(o)
                          \/ oracle_guess_nothing(o) \/ oracle_show(o)
    \/ Quit

Spec == Init /\ [][Next]_vars

(***************************************************************************)
(* Properties.                                                             *)
(***************************************************************************)
Pointers == Secrets \union {Static, NoText}

TypeOK ==
    /\ stage \in [Oracles -> 0 .. maxstage - 1]
    /\ secret \in [Oracles -> Pointers]
    /\ oseed \in Seeds \union {-1}
    /\ drawn \in 0 .. MaxDrawn
    /\ buf \in Secrets \union {NoText}
    /\ own \in [Oracles -> Secrets \union {NoText}]
    /\ running \in BOOLEAN

\* From its message to its last stage an oracle compares guesses with, and
\* shows, the secret that was made for it, although the other oracle's message
\* may have overwritten the static buffer since (true of oraclep1.c, not of
\* oracle.c).
SecretKept == \A o \in Oracles : stage[o] # 0 => Text(secret[o]) = own[o]
=============================================================================
