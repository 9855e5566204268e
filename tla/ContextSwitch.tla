---------------------------- MODULE ContextSwitch ----------------------------
(***************************************************************************)
(* The context switch of jorgOS, src/jorgOS/jorgOS.c: the first frame that *)
(* OS_Thread_start puts on a stack, the assembly of PendSV_Handler, and    *)
(* the check of the stacks in src/jorgOS/jAssert.c.  There is one stack    *)
(* pointer for threads and handlers, so a tick runs on the stack of the    *)
(* thread that it interrupts, or on that of main().                        *)
(*                                                                         *)
(* Memory is counted in words, and shared: a stack that grows out of its   *)
(* array overwrites what lies below.  A word tells which register of which *)
(* thread it holds.  What is modelled as external is the processor:        *)
(* exception entry pushes eight registers, with a padding word where the   *)
(* stack pointer is odd, and exception return pops them.  The build has no *)
(* floating-point unit, so all frames have that form.                      *)
(***************************************************************************)
EXTENDS Integers, Sequences, SequencesExt

CONSTANTS
    Threads,      \* the threads
    idle_thread,  \* the one that OS_init starts
    Stack,        \* the address of each thread's stack array, and of main's
    StackSize,    \* the words of each
    Words,        \* the words of memory
    Pushes,       \* the words that a function call puts on the stack
    MaxDepth,     \* bound: the words that a thread has on its stack
    HandlerWords, \* the words that SysTick_Handler puts on the stack
    main          \* the context that starts the kernel, no thread

ASSUME ContextSwitchAssumption ==
    /\ idle_thread \in Threads /\ main \notin Threads
    /\ Stack \in [Threads \cup {main} -> Nat]
    /\ StackSize \in [Threads \cup {main} -> Nat]
    /\ \A p \in Threads : StackSize[p] * 4 > 64   \* OS_Thread_start
    \* The stacks are arrays of their own, and that of main() has room for
    \* the frame and the words of an interrupt.
    /\ \A p, q \in Threads \cup {main} :
          p # q => \/ Stack[p] + StackSize[p] <= Stack[q]
                   \/ Stack[q] + StackSize[q] <= Stack[p]
    /\ \A p \in Threads \cup {main} : Stack[p] + StackSize[p] <= Words
    /\ StackSize[main] > 8 + HandlerWords
    /\ Words \in Nat /\ Pushes \subseteq Nat \ {0}
    /\ MaxDepth \in Nat /\ HandlerWords \in Nat

VARIABLES
    cpu,      \* the registers
    memory,   \* the words of memory
    on,       \* whose stack the stack pointer points into
    mode,     \* "Thread" or "SysTick"
    saved_sp, \* TCB: the stack pointer of each thread that does not run
    OS_curr,  \* the running thread, main before there is one
    OS_next,  \* the thread to switch to
    pendsv,   \* PendSV is pending
    SHP,      \* the priority of PendSV: 0 is the highest
    ticking,  \* the tick interrupt is enabled
    fault,    \* an exception return failed
    version,  \* what each thread last put into its registers
    depth,    \* how many words each thread has on its stack
    low       \* the lowest word of each stack that was in use

kernel == <<saved_sp, OS_curr, OS_next, pendsv, SHP, ticking>>
ghosts == <<version, depth>>
vars   == <<cpu, memory, on, mode, fault, low, kernel, ghosts>>

LowestPriority == 7

\* Pushed by the processor, and by PendSV_Handler, in the order of addresses.
AutoSaved == <<"R0", "R1", "R2", "R3", "R12", "LR", "PC", "xPSR">>
Saved     == <<"R4", "R5", "R6", "R7", "R8", "R9", "R10", "R11">>
General   == Range(AutoSaved \o Saved) \ {"xPSR"}

\* Where each is among those that are pushed with it.
Place == [r \in Range(AutoSaved \o Saved) |->
             CHOOSE i \in 1 .. 8 : AutoSaved[i] = r \/ Saved[i] = r]

\* What register r of thread p holds; what the status register does.
Word(p, r, v)   == [of |-> p, reg |-> r, version |-> v]
XPSR(md, padded) == [mode |-> md, padded |-> padded]
\* J_DEFAULT_STACK_FILLER, and memory that was never written.
Filler == [word |-> "0xDEADBEEF"]
Zero   == [word |-> "0"]

-----------------------------------------------------------------------------
(* Pushing and popping: c is the processor with its memory.                *)

Machine == [reg |-> [r \in General \cup {"xPSR"} |-> cpu[r]], sp |-> cpu.sp,
            mem |-> memory, low |-> low[on]]

\* The memory with the words written to it, upwards from address sp.  What
\* would be below the memory is lost.
Written(mem, sp, words) ==
    LET places == sp .. sp + Len(words) - 1
    IN  [a \in DOMAIN mem |->
            IF a \in places THEN words[a - sp + 1] ELSE mem[a]]

Push(c, words) ==
    LET sp == c.sp - Len(words)
    IN  [c EXCEPT !.sp = sp,
                  !.mem = Written(@, sp, words),
                  !.low = IF sp < @ THEN sp ELSE @]

PushRegisters(c, names) ==
    Push(c, [i \in 1 .. Len(names) |-> c.reg[names[i]]])

PopRegisters(c, names) ==
    LET popped == Range(names)
    IN  [c EXCEPT !.sp = @ + Len(names),
                  !.reg = [r \in DOMAIN @ |-> IF r \in popped
                                              THEN c.mem[c.sp + Place[r] - 1]
                                              ELSE @[r]]]

\* Exception entry.  The padding word is left as it is.
Enter(c) ==
    LET padded == c.sp % 2 = 1
        psr    == XPSR(mode, padded)
    IN  PushRegisters([c EXCEPT !.sp = IF padded THEN @ - 1 ELSE @,
                                !.reg["xPSR"] = psr], AutoSaved)

\* Exception return.
Leave(c, back) ==
    LET popped == PopRegisters(c, AutoSaved)
    IN  [popped EXCEPT
            !.sp = IF popped.reg["xPSR"] = XPSR(back, TRUE) THEN @ + 1 ELSE @]

Load(c) ==
    /\ cpu' = [r \in DOMAIN cpu |-> IF r = "sp" THEN c.sp ELSE c.reg[r]]
    /\ memory' = c.mem

-----------------------------------------------------------------------------
(* Starting threads.                                                       *)

\* Rounded to the 8-byte boundary inside of the array.
Top(p) == ((Stack[p] + StackSize[p]) \div 2) * 2

\* (Faulty: one boundary further up.)
stack_limit_higher(p) == ((Stack[p] + 1) \div 2) * 2 + 2

stack_limit(p) == ((Stack[p] + 1) \div 2) * 2

\* The fabricated frame: as if the thread had been switched away from before
\* its first instruction.
FirstFrame(p) ==
    [i \in 1 .. 16 |->
        LET r == (Saved \o AutoSaved)[i]
        IN  IF r = "xPSR" THEN XPSR("Thread", FALSE) ELSE Word(p, r, 0)]

PowerOnCpu ==
    [r \in General \cup {"xPSR", "sp"} |->
        CASE r = "sp"   -> Top(main)
          [] r = "xPSR" -> XPSR("Thread", FALSE)
          [] OTHER      -> Word(main, r, 0)]

PowerOn ==
    /\ cpu = PowerOnCpu
    /\ memory = [a \in 0 .. Words - 1 |-> Zero]
    /\ on = main /\ mode = "Thread"
    /\ saved_sp = [p \in Threads |-> 0]
    /\ OS_curr = main /\ OS_next = main
    /\ pendsv = FALSE /\ SHP = 0 /\ ticking = FALSE /\ fault = FALSE
    /\ version = [p \in Threads |-> 0]
    /\ depth = [p \in Threads |-> 0]
    /\ low = [p \in Threads \cup {main} |-> Top(p)]

IsStarted(p) == saved_sp[p] # 0

\* Below the frame the stack is filled, so that its use can be seen.
Start(p) ==
    LET sp == Top(p) - Len(FirstFrame(p))
    IN  /\ saved_sp' = [saved_sp EXCEPT ![p] = sp]
        /\ \E filler \in {[i \in 1 .. sp - stack_limit(p) |-> Filler]} :
              memory' = Written(Written(memory, stack_limit(p), filler),
                                sp, FirstFrame(p))
        /\ low' = [low EXCEPT ![p] = sp]

\* (Faulty: PendSV keeps the priority it has after a reset.)
OS_init_without_priority ==
    /\ ~ticking /\ ~IsStarted(idle_thread)
    /\ Start(idle_thread)
    /\ UNCHANGED <<cpu, on, mode, fault, OS_curr, OS_next, pendsv, ticking,
                   SHP, ghosts>>

OS_init ==
    /\ ~ticking /\ ~IsStarted(idle_thread)
    /\ SHP' = LowestPriority
    /\ Start(idle_thread)
    /\ UNCHANGED <<cpu, on, mode, fault, OS_curr, OS_next, pendsv, ticking,
                   ghosts>>

OS_Thread_start(p) ==
    /\ ~ticking /\ IsStarted(idle_thread) /\ ~IsStarted(p)
    /\ Start(p)
    /\ UNCHANGED <<cpu, on, mode, fault, OS_curr, OS_next, pendsv, SHP,
                   ticking, ghosts>>

OS_onStartup ==
    /\ ~ticking
    /\ \A p \in Threads : IsStarted(p)
    /\ ticking' = TRUE
    /\ UNCHANGED <<cpu, memory, on, mode, fault, low, saved_sp, OS_curr,
                   OS_next, pendsv, SHP, ghosts>>

-----------------------------------------------------------------------------
(* Interrupts.                                                             *)

\* A stack has grown out of its array.  What happens then depends on what it
\* has overwritten: the model ends there.
Overflow == \E p \in Threads : low[p] < Stack[p]
Alive == ~Overflow /\ ~fault

Schedule(p) ==
    /\ OS_next' = p
    /\ pendsv' = (pendsv \/ p # OS_curr)
    /\ UNCHANGED <<saved_sp, OS_curr, SHP, ticking>>

\* The handler saves what it uses of R4 to R11, and puts it back.
SysTick_entry ==
    /\ ticking /\ Alive /\ mode = "Thread"
    /\ \E c \in {Enter(Machine)} :
       \E h \in {Push(c, [i \in 1 .. HandlerWords |-> Zero])} :
           /\ Load([h EXCEPT !.sp = c.sp])
           /\ low' = [low EXCEPT ![on] = h.low]
    /\ mode' = "SysTick"
    /\ \E p \in Threads : Schedule(p)
    /\ UNCHANGED <<on, fault, ghosts>>

\* Returns to the mode that the status register tells, or fails.
Return(c, back) ==
    \E left \in {Leave(c, back)} :
        /\ Load(left)
        /\ fault' = (\A padded \in BOOLEAN :
                        left.reg["xPSR"] # XPSR(back, padded))
        /\ mode' = back

SysTick_return ==
    /\ Alive /\ mode = "SysTick"
    /\ ~(pendsv /\ SHP < LowestPriority)
    /\ Return(Machine, "Thread")
    /\ UNCHANGED <<on, low, kernel, ghosts>>

\* (Faulty: pushes in the other order.)
SwitchedFrom_reversed(c) ==
    [frame |-> PushRegisters(c, Reverse(Saved)), sp |-> c.sp - Len(Saved)]

\* PUSH {r4-r11}, and STR sp.
SwitchedFrom(c) ==
    [frame |-> PushRegisters(c, Saved), sp |-> c.sp - Len(Saved)]

\* SysTick has the lowest priority: a PendSV that has a higher one would
\* interrupt SysTick_Handler when it leaves its critical section.
PendSV_Handler ==
    /\ pendsv /\ Alive
    /\ mode = "Thread" \/ SHP < LowestPriority
    /\ \E c \in {Enter(Machine)} :
       \E s \in {SwitchedFrom(c)} :
       \E kept \in {IF OS_curr = main THEN c ELSE s.frame} :
           /\ saved_sp' = IF OS_curr = main THEN saved_sp
                          ELSE [saved_sp EXCEPT ![OS_curr] = s.sp]
           /\ Return(PopRegisters([kept EXCEPT !.sp = saved_sp'[OS_next]],
                                  Saved), mode)
           /\ low' = [low EXCEPT ![on] = kept.low]
    /\ on' = OS_next
    /\ OS_curr' = OS_next
    /\ pendsv' = FALSE
    /\ UNCHANGED <<OS_next, SHP, ticking, ghosts>>

-----------------------------------------------------------------------------
(* What threads do.                                                        *)

Running(p) == OS_curr = p /\ mode = "Thread" /\ ~pendsv /\ Alive

\* The thread computes: its registers change.
Compute(p) ==
    /\ Running(p)
    /\ \E v \in 0 .. 1 :
          /\ version' = [version EXCEPT ![p] = v]
          /\ cpu' = [r \in DOMAIN cpu |-> IF r \in General THEN Word(p, r, v)
                                                           ELSE cpu[r]]
    /\ UNCHANGED <<memory, on, mode, fault, low, kernel, depth>>

\* A local variable: the i-th word on the stack.
Local(p, i) == Word(p, "local", i)

\* The thread calls a function, and returns from it.
Call(p) ==
    /\ Running(p)
    /\ \E n \in Pushes :
          /\ depth[p] + n <= MaxDepth
          /\ depth' = [depth EXCEPT ![p] = @ + n]
          /\ LET c == Push(Machine, [i \in 1 .. n |->
                                        Local(p, depth'[p] + 1 - i)])
             IN  Load(c) /\ low' = [low EXCEPT ![on] = c.low]
    /\ UNCHANGED <<on, mode, fault, kernel, version>>

ReturnFrom(p) ==
    /\ Running(p)
    /\ \E n \in Pushes :
          /\ depth[p] >= n
          /\ depth' = [depth EXCEPT ![p] = @ - n]
          /\ cpu' = [cpu EXCEPT !.sp = @ + n]
    /\ UNCHANGED <<memory, on, mode, fault, low, kernel, version>>

\* A kernel call that schedules, in the thread or in OS_run.
OS_schedule ==
    /\ ticking
    /\ OS_curr = main \/ Running(OS_curr)
    /\ mode = "Thread" /\ ~pendsv /\ Alive
    /\ \E p \in Threads : Schedule(p)
    /\ UNCHANGED <<cpu, memory, on, mode, fault, low, ghosts>>

\* What J_assert_stack_integrity asserts, where thread p calls it.
StackIsSound(p) ==
    /\ cpu.sp >= Stack[p]
    /\ cpu.sp <= Stack[p] + StackSize[p] + 1
    /\ memory[Stack[p] + 1] = Filler

Next ==
    \/ OS_init
    \/ \E p \in Threads : OS_Thread_start(p)
    \/ OS_onStartup
    \/ OS_schedule
    \/ SysTick_entry \/ SysTick_return \/ PendSV_Handler
    \/ \E p \in Threads : Compute(p) \/ Call(p) \/ ReturnFrom(p)

Spec == PowerOn /\ [][Next]_vars

-----------------------------------------------------------------------------

\* A thread that runs finds its registers, its stack pointer and the words on
\* its stack as it left them, however often it was interrupted and switched
\* away from in between, and finds them as OS_Thread_start has prepared them
\* when it runs for the first time.
ContextIsKept ==
    \A p \in Threads :
        Running(p) =>
            /\ \A r \in General : cpu[r] = Word(p, r, version[p])
            /\ cpu.sp = Top(p) - depth[p]
            /\ \A i \in 1 .. depth[p] : memory[Top(p) - i] = Local(p, i)

\* Every exception returns to what it has interrupted, unless a stack has
\* overflown.  A context switch in the middle of another handler would not.
ExceptionsReturn == fault => Overflow

\* The check of the stack fails when the stack has been used down to the last
\* two words of its array, and at no other time: a fresh stack passes at both
\* alignments, and a thread that has come that close to the end is found out
\* although it has returned, been interrupted and switched since.  (The padding
\* of a frame can cover the checked word, and hide an overflow behind it.)
CheckIsExact ==
    \A p \in Threads :
        Running(p) => (StackIsSound(p) <=> low[p] > Stack[p] + 1)
=============================================================================
