-------------------------------- MODULE Demo --------------------------------
(***************************************************************************)
(* The program of src/main.c: nine threads on the kernel of module JorgOS. *)
(* Each thread follows its own function, one kernel call after the other,  *)
(* with the delays of the code.                                            *)
(*                                                                         *)
(* A tick comes at any time, also while a thread runs: the threads print   *)
(* over a serial line on which a few characters outlast a tick.            *)
(***************************************************************************)
EXTENDS JorgOS, Sequences

CONSTANTS
    sema_test, mutex_test,
    SECOND,  \* BSP_TICKS_PER_SEC, 100 in the code
    MaxLate  \* bound on the ticks that come while a thread runs

\* The threads by rising priority, from PRIO_EVENT_TEST (4) to
\* PRIO_ONE_SECOND_PRINT (32): the priorities between them are not in use.
event_test       == 1
blinky_blue      == 2
sema_test_signal == 3
sema_red         == 4
mutex_two        == 5
mutex_one        == 6
bsp_eqt          == 7
encoder_monitor  == 8
one_second_print == 9

ASSUME DemoAssumption ==
    /\ NPrio = 9 /\ EQTs = {event_test, bsp_eqt} /\ BSP_EQT_thread = bsp_eqt
    /\ Semas = {sema_test} /\ Mutexes = {mutex_test} /\ InitCount = 0
    /\ MaxCount > 0 /\ QueueSize >= 3   \* both ten in the code
    /\ SECOND \in Nat /\ SECOND >= 2 /\ MaxLate \in Nat
    /\ Delays = {n * SECOND : n \in {1, 2, 3, 5, 10, 15}}
                   \cup {SECOND \div 2}

VARIABLES
    pc,     \* the next call of each thread
    behind, \* history: the ticks since a thread below bsp_eqt last ran
    late    \* history: the ticks since the reset that came while a thread ran

demo_vars == <<vars, pc, behind, late>>

\* A loop is a sequence of calls.  A delay is given by its length.
Acquire_call == [op |-> "acquire", ticks |-> 0]
Release_call == [op |-> "release", ticks |-> 0]
Wait_call    == [op |-> "wait",    ticks |-> 0]
Signal_call  == [op |-> "signal",  ticks |-> 0]
Delay_call(ticks) == [op |-> "delay", ticks |-> ticks]

\* (Faulty: mutex_one does not rest after it released the mutex.)
Loop_restless ==
    [p \in Regular |->
        CASE p = mutex_one -> <<Acquire_call, Delay_call(10 * SECOND),
                                Release_call>>
          [] p = mutex_two -> <<Acquire_call, Delay_call(3 * SECOND),
                                Release_call>>
          [] p = sema_red         -> <<Wait_call, Delay_call(5 * SECOND)>>
          [] p = sema_test_signal -> <<Signal_call, Delay_call(15 * SECOND)>>
          [] p = blinky_blue      -> <<Delay_call(3 * SECOND),
                                       Delay_call(1 * SECOND)>>
          [] p = encoder_monitor  -> <<Delay_call(SECOND)>>
          [] OTHER                -> <<Delay_call(2 * SECOND)>>]

\* (Faulty: the two threads of the semaphore have exchanged their delays.)
Loop_hurried ==
    [p \in Regular |->
        CASE p = mutex_one -> <<Acquire_call, Delay_call(10 * SECOND),
                                Release_call, Delay_call(SECOND \div 2)>>
          [] p = mutex_two -> <<Acquire_call, Delay_call(3 * SECOND),
                                Release_call>>
          [] p = sema_red         -> <<Wait_call, Delay_call(15 * SECOND)>>
          [] p = sema_test_signal -> <<Signal_call, Delay_call(5 * SECOND)>>
          [] p = blinky_blue      -> <<Delay_call(3 * SECOND),
                                       Delay_call(1 * SECOND)>>
          [] p = encoder_monitor  -> <<Delay_call(SECOND)>>
          [] OTHER                -> <<Delay_call(2 * SECOND)>>]

Loop ==
    [p \in Regular |->
        CASE p = mutex_one -> <<Acquire_call, Delay_call(10 * SECOND),
                                Release_call, Delay_call(SECOND \div 2)>>
          [] p = mutex_two -> <<Acquire_call, Delay_call(3 * SECOND),
                                Release_call>>
          [] p = sema_red         -> <<Wait_call, Delay_call(5 * SECOND)>>
          [] p = sema_test_signal -> <<Signal_call, Delay_call(15 * SECOND)>>
          [] p = blinky_blue      -> <<Delay_call(3 * SECOND),
                                       Delay_call(1 * SECOND)>>
          [] p = encoder_monitor  -> <<Delay_call(SECOND)>>
          [] OTHER                -> <<Delay_call(2 * SECOND)>>]

DemoInit == Init /\ pc = [p \in Regular |-> 1] /\ behind = 0 /\ late = 0

\* The kernel after thread p made its call.
Called(k, p, call) ==
    CASE call.op = "acquire" -> J_Mutex_acquire(k, p, mutex_test)
      [] call.op = "release" -> J_Mutex_release(k, p, mutex_test)
      [] call.op = "wait"    -> J_sema_wait(k, p, sema_test)
      [] call.op = "signal"  -> J_sema_signal(k, sema_test)
      [] OTHER               -> OS_delay(k, p, call.ticks)

\* The loop of a thread.
Round(p) ==
    /\ Running(p)
    /\ \E k \in {Called(Kernel, p, Loop[p][pc[p]])} : Commit(k)
    /\ pc' = [pc EXCEPT ![p] = IF @ = Len(Loop[p]) THEN 1 ELSE @ + 1]
    /\ UNCHANGED <<behind, late>>

\* The handlers of the two EQTs make no call of the kernel.
HandleEvent(q) ==
    /\ Running(q)
    /\ \E k \in {UnreadyIfEmpty(J_EventQueue_get(Kernel, q), q)} : Commit(k)
    /\ UNCHANGED <<pc, behind, late>>

\* The switch to a thread below bsp_eqt leaves none of its events behind.
Switch ==
    /\ PendSV_Handler
    /\ behind' = IF OS_next < bsp_eqt THEN 0 ELSE behind
    /\ UNCHANGED <<pc, late>>

\* A thread below bsp_eqt runs, the idle thread included.
LowerRuns == \E p \in 0 .. bsp_eqt - 1 : Running(p)

\* The idle thread waits for an interrupt, and the tick comes.
IdleTick ==
    /\ Running(0)
    /\ SysTick_Handler
    /\ behind' = 1
    /\ UNCHANGED <<pc, late>>

\* The tick interrupts a thread, or main() after OS_onStartup, or the switch
\* that an earlier tick asked for.
BusyTick ==
    /\ ~Running(0) /\ late < MaxLate
    /\ SysTick_Handler
    /\ behind' = IF LowerRuns THEN 1 ELSE behind + 1
    /\ late' = late + 1
    /\ UNCHANGED pc

\* After the reset everything starts again.
Reset ==
    /\ J_on_assert_failed
    /\ pc' = [p \in Regular |-> 1] /\ behind' = 0 /\ late' = 0

DemoNext ==
    \/ Boot /\ UNCHANGED <<pc, behind, late>>
    \/ Switch
    \/ IdleTick
    \/ BusyTick
    \/ \E p \in Regular : Round(p)
    \/ \E q \in EQTs : HandleEvent(q)
    \/ Reset

\* Time passes: the threads of main.c all come to wait, again and again.
DemoSpec ==
    DemoInit /\ [][DemoNext]_demo_vars /\ []<><<IdleTick>>_demo_vars

-----------------------------------------------------------------------------

\* The threads never misuse the kernel: the semaphore is not signaled beyond
\* its limit, the mutex is released by its owner and not acquired twice, and
\* no thread delays for zero ticks.  The one assertion that can fail is that
\* of a full queue (jEvent.c:20), and only when bsp_eqt and the threads above
\* it kept the processor for as many ticks as fill the queue with three events
\* in each: with the ten places of the code, not before the fourth tick.
OnlyBurstsFail ==
    fault # NoFault =>
        fault = "event queue full" /\ 3 * behind >= QueueSize

\* The thread's acquire has returned, and it has not released the mutex yet.
InSection(p) ==
    /\ pc[p] \in {2, 3}
    /\ blocking_mutex[p] = NULL

\* "Wait longer than the sema_red threads sleeps" (main.c:161): the signals
\* never pile up, since each of them finds its waiter back.
SignalsDoNotPileUp == count[sema_test] <= 1

\* Both threads get the mutex again and again: neither starves the other,
\* although mutex_two asks again as soon as it released, and mutex_one, which
\* has the higher priority, keeps it for longer (unless the board is reset
\* again and again).
BothKeepAcquiring ==
    \/ []<>(fault # NoFault)
    \/ []<>InSection(mutex_one) /\ []<>InSection(mutex_two)
=============================================================================
