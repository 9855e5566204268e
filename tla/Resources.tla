------------------------------ MODULE Resources ------------------------------
(***************************************************************************)
(* What semaphores and mutexes promise to the threads that use them, with  *)
(* no word of priorities, ready sets or interrupts.  A thread that asks    *)
(* for a resource takes it, or waits.  What is given back may go, in the   *)
(* same step, to one thread that waits for it; so may what was given back  *)
(* earlier, at any time.  Nothing else moves a token or a mutex, but a     *)
(* reset, which starts everything over.                                    *)
(***************************************************************************)
EXTENDS Integers

CONSTANTS
    Threads,   \* the threads that may wait
    Semas,     \* the semaphores
    Mutexes,   \* the mutexes
    InitCount, \* the tokens that each semaphore has at first
    MaxCount,  \* the tokens that it can have
    NULL       \* no thread, no resource

VARIABLES
    tokens,    \* the tokens of each semaphore
    owner,     \* the owner of each mutex
    waits      \* what each thread waits for

resources == [tokens |-> tokens, owner |-> owner, waits |-> waits]

Become(r) ==
    /\ tokens' = r.tokens
    /\ owner'  = r.owner
    /\ waits'  = r.waits

Initial == [tokens |-> [s \in Semas |-> InitCount],
            owner  |-> [m \in Mutexes |-> NULL],
            waits  |-> [t \in Threads |-> NULL]]

Available(r, x) == IF x \in Semas THEN r.tokens[x] > 0 ELSE r.owner[x] = NULL

\* Thread t takes the semaphore or mutex x.
Taken(r, t, x) ==
    IF x \in Semas THEN [r EXCEPT !.tokens[x] = @ - 1]
                   ELSE [r EXCEPT !.owner[x] = t]

\* Thread t waits for x, or for nothing when x is NULL.
Waiting(r, t, x) ==
    [r EXCEPT !.waits = [u \in Threads |-> IF u = t THEN x ELSE r.waits[u]]]

\* It takes what it has waited for and stops waiting.
Granted(r, t) == Waiting(Taken(r, t, r.waits[t]), t, NULL)

Grantable(r) ==
    {t \in Threads : r.waits[t] # NULL /\ Available(r, r.waits[t])}

\* At most one thread is granted what it waits for.
Settled(r) == {r} \cup {Granted(r, t) : t \in Grantable(r)}

\* Thread t takes x, or waits for it.
Asked(r, t, x) ==
    IF Available(r, x) THEN Taken(r, t, x) ELSE Waiting(r, t, x)

Given(r, s)    == [r EXCEPT !.tokens[s] = @ + 1]
Released(r, m) == [r EXCEPT !.owner[m] = NULL]

-----------------------------------------------------------------------------

Init == tokens = Initial.tokens /\ owner = Initial.owner /\ waits = Initial.waits

Ask(t, x) ==
    /\ waits[t] = NULL
    /\ x \in Mutexes => owner[x] # t
    /\ \E r \in Settled(Asked(resources, t, x)) : Become(r)

Give(s) ==
    /\ tokens[s] < MaxCount
    /\ \E r \in Settled(Given(resources, s)) : Become(r)

\* Only the owner releases a mutex, and it is not waiting then.
Release(t, m) ==
    /\ owner[m] = t /\ waits[t] = NULL
    /\ \E r \in Settled(Released(resources, m)) : Become(r)

Grant == \E r \in Settled(resources) : Become(r)

Reset == Become(Initial)

Next ==
    \/ \E t \in Threads : \E x \in Semas \cup Mutexes : Ask(t, x)
    \/ \E s \in Semas : Give(s)
    \/ \E t \in Threads : \E m \in Mutexes : Release(t, m)
    \/ Grant
    \/ Reset

Spec == Init /\ [][Next]_<<tokens, owner, waits>>
=============================================================================
