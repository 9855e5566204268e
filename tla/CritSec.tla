------------------------------- MODULE CritSec -------------------------------
(***************************************************************************)
(* The critical sections of jorgOS, src/jorgOS/jCritSec.c: a depth counter *)
(* around PRIMASK.  The steps here are single instructions, because the    *)
(* functions run in part with interrupts enabled.  What they guarantee is  *)
(* what lets module JorgOS take a whole kernel call as one step.           *)
(***************************************************************************)
EXTENDS Integers

CONSTANTS
    Threads,              \* the threads, the idle thread included
    SysTick,              \* the tick handler
    J_MAX_CRIT_SEC_DEPTH  \* the deepest nesting (255 in the code)

ASSUME CritSecAssumption ==
    /\ Threads # {} /\ SysTick \notin Threads
    /\ J_MAX_CRIT_SEC_DEPTH \in 1 .. 255

Contexts == Threads \cup {SysTick}

VARIABLES
    primask,                \* interrupts are masked
    critical_section_depth,
    OS_curr,                \* the thread that runs, or is interrupted
    handling,               \* the tick handler runs
    at,                     \* where each context is in start or end
    nest,                   \* how many sections each context is in
    fault                   \* the J_REQUIRE that failed

vars == <<primask, critical_section_depth, OS_curr, handling, at, nest, fault>>

\* The context that has the processor.
Active == IF handling THEN SysTick ELSE OS_curr

Points == {"body", "disable", "count", "enable"}

J_crit_sec_init ==
    /\ primask = FALSE
    /\ critical_section_depth = 0
    /\ OS_curr \in Threads
    /\ handling = FALSE
    /\ at = [c \in Contexts |-> "body"]
    /\ nest = [c \in Contexts |-> 0]
    /\ fault = "none"

Executes(c, point) == c = Active /\ at[c] = point /\ fault = "none"

-----------------------------------------------------------------------------
(* J_crit_sec_start: check the depth, disable interrupts, then count.      *)

\* (Faulty: the depth is not checked.)
Start_unchecked(c) ==
    /\ Executes(c, "body")
    /\ c = SysTick => nest[c] > 0
    /\ at' = [at EXCEPT ![c] = "disable"]
    /\ UNCHANGED <<primask, critical_section_depth, OS_curr, handling, nest,
                   fault>>

Start_check(c) ==
    /\ Executes(c, "body")
    /\ c = SysTick => nest[c] > 0
    /\ IF critical_section_depth < J_MAX_CRIT_SEC_DEPTH
       THEN at' = [at EXCEPT ![c] = "disable"] /\ UNCHANGED fault
       ELSE fault' = "too deep" /\ UNCHANGED at
    /\ UNCHANGED <<primask, critical_section_depth, OS_curr, handling, nest>>

\* (Faulty: interrupts stay enabled.)
Start_disable_nothing(c) ==
    /\ Executes(c, "disable")
    /\ at' = [at EXCEPT ![c] = "count"]
    /\ UNCHANGED <<primask, critical_section_depth, OS_curr, handling, nest,
                   fault>>

Start_disable(c) ==
    /\ Executes(c, "disable")
    /\ primask' = TRUE
    /\ at' = [at EXCEPT ![c] = "count"]
    /\ UNCHANGED <<critical_section_depth, OS_curr, handling, nest, fault>>

Start_count(c) ==
    /\ Executes(c, "count")
    /\ critical_section_depth' = (critical_section_depth + 1) % 256
    /\ nest' = [nest EXCEPT ![c] = @ + 1]
    /\ at' = [at EXCEPT ![c] = "body"]
    /\ UNCHANGED <<primask, OS_curr, handling, fault>>

-----------------------------------------------------------------------------
(* J_crit_sec_end: check the depth, count down, then enable interrupts     *)
(* when no section is left.                                                *)

End_count(c) ==
    /\ Executes(c, "body")
    /\ nest[c] > 0
    /\ IF critical_section_depth > 0
       THEN /\ critical_section_depth' = critical_section_depth - 1
            /\ nest' = [nest EXCEPT ![c] = @ - 1]
            /\ at' = [at EXCEPT ![c] = "enable"]
            /\ UNCHANGED fault
       ELSE /\ fault' = "underflow"
            /\ UNCHANGED <<critical_section_depth, nest, at>>
    /\ UNCHANGED <<primask, OS_curr, handling>>

\* (Faulty: interrupts are enabled one section too late.)
End_enable_late(c) ==
    /\ Executes(c, "enable")
    /\ primask' = (primask /\ nest[c] = 0)
    /\ at' = [at EXCEPT ![c] = "body"]
    /\ UNCHANGED <<critical_section_depth, OS_curr, handling, nest, fault>>

End_enable(c) ==
    /\ Executes(c, "enable")
    /\ primask' = (primask /\ critical_section_depth # 0)
    /\ at' = [at EXCEPT ![c] = "body"]
    /\ UNCHANGED <<critical_section_depth, OS_curr, handling, nest, fault>>

-----------------------------------------------------------------------------
(* Interrupts, between any two instructions of a thread.  Both have the    *)
(* lowest priority, so neither interrupts the other.                       *)

Interruptible == ~primask /\ ~handling /\ fault = "none"

\* SysTick_Handler begins with a call of J_crit_sec_start ...
SysTick_entry ==
    /\ Interruptible
    /\ handling' = TRUE
    /\ IF critical_section_depth < J_MAX_CRIT_SEC_DEPTH
       THEN at' = [at EXCEPT ![SysTick] = "disable"] /\ UNCHANGED fault
       ELSE fault' = "too deep" /\ UNCHANGED at
    /\ UNCHANGED <<primask, critical_section_depth, OS_curr, nest>>

\* ... and ends with its end.
SysTick_return ==
    /\ Executes(SysTick, "body") /\ nest[SysTick] = 0
    /\ handling' = FALSE
    /\ UNCHANGED <<primask, critical_section_depth, OS_curr, at, nest, fault>>

\* PendSV switches to another thread, wherever that one was switched from.
\* It masks interrupts itself, without counting, and unmasks them again.
PendSV_Handler ==
    /\ Interruptible
    /\ OS_curr' \in Threads
    /\ UNCHANGED <<primask, critical_section_depth, handling, at, nest, fault>>

\* The reset after a J_REQUIRE that failed.
J_on_assert_failed ==
    /\ fault # "none"
    /\ primask' = FALSE /\ critical_section_depth' = 0
    /\ OS_curr' \in Threads /\ handling' = FALSE
    /\ at' = [c \in Contexts |-> "body"]
    /\ nest' = [c \in Contexts |-> 0]
    /\ fault' = "none"

Step(c) ==
    \/ Start_check(c) \/ Start_disable(c) \/ Start_count(c)
    \/ End_count(c) \/ End_enable(c)

Next ==
    \/ \E c \in Contexts : Step(c)
    \/ SysTick_entry \/ SysTick_return \/ PendSV_Handler
    \/ J_on_assert_failed

Spec == J_crit_sec_init /\ [][Next]_vars

-----------------------------------------------------------------------------

TypeOK ==
    /\ primask \in BOOLEAN
    /\ critical_section_depth \in 0 .. J_MAX_CRIT_SEC_DEPTH
    /\ OS_curr \in Threads
    /\ handling \in BOOLEAN
    /\ at \in [Contexts -> Points]
    /\ nest \in [Contexts -> 0 .. J_MAX_CRIT_SEC_DEPTH]
    /\ fault \in {"none", "too deep", "underflow"}

\* The context is in a section, or on its way in or out with interrupts off.
Protected(c) == nest[c] > 0 \/ at[c] \in {"count", "enable"}

\* No two contexts are in critical sections at once, whatever the interrupts
\* and the switches do: a kernel call is atomic.
SectionsExclude ==
    \A c, d \in Contexts : Protected(c) /\ Protected(d) => c = d

\* Interrupts are off exactly while the running context is in a section, so
\* they come back when the outermost one ends, and only then.  The depth
\* counts the sections of that context and of no other.
MaskedIffProtected ==
    /\ primask <=> Protected(Active)
    /\ critical_section_depth = nest[Active]
=============================================================================
