------------------------------- MODULE JorgOS -------------------------------
(***************************************************************************)
(* The kernel of jorgOS: the scheduler, delays, semaphores, mutexes and    *)
(* event-queue threads (EQTs) of src/jorgOS, with the two interrupts that  *)
(* drive them, SysTick (src/bsp/bsp.c) and PendSV.                         *)
(*                                                                         *)
(* Every kernel call runs inside one critical section, so it is one step.  *)
(* Its body is an operator on a snapshot of the kernel (`Kernel' below),   *)
(* because the calls nest: the tick posts events, a post schedules, and an *)
(* event handler may post or signal.  An assertion that fails resets the   *)
(* microcontroller; `Commit' then keeps only the name of the assertion.    *)
(*                                                                         *)
(* A thread is identified by its priority, as in OS_thread_list; thread 0  *)
(* is the idle thread.  Events carry no data here (see EventQueue).        *)
(*                                                                         *)
(* A definition marked (Faulty: ...) is a variant with a bug.  Nothing     *)
(* uses it: it is put in the place of the definition after it to see that  *)
(* a property notices the bug.                                             *)
(***************************************************************************)
EXTENDS Integers

CONSTANTS
    NPrio,          \* the highest priority in use (at most 32 in the code)
    EQTs,           \* the priorities that are event-queue threads
    BSP_EQT_thread, \* the EQT that the tick posts switch and knob events to
    Semas,          \* the semaphores
    InitCount,      \* the initial count of each semaphore
    MaxCount,       \* the max_count of each semaphore
    Mutexes,        \* the mutexes
    QueueSize,      \* the size of each EQT's event buffer
    Delays,         \* the arguments the threads give to OS_delay
    NULL            \* the null pointer

Threads == 0 .. NPrio
Regular == (1 .. NPrio) \ EQTs

ASSUME KernelAssumption ==
    /\ NPrio \in Nat
    /\ EQTs \subseteq 1 .. NPrio
    /\ BSP_EQT_thread \in EQTs
    /\ MaxCount \in Nat /\ InitCount \in 0 .. MaxCount   \* J_sema_init
    /\ QueueSize \in Nat /\ QueueSize > 1     \* OS_EventQueue_Thread_start
    /\ Delays \subseteq Nat
    /\ NULL \notin Threads \cup Semas \cup Mutexes
    /\ Semas \cap Mutexes = {}

VARIABLES
    OS_thread_list, \* the priorities that have a thread
    OS_curr,        \* the running thread, NULL while main() runs
    OS_next,        \* the thread PendSV will switch to
    OS_ready_set,   \* the threads that are neither delayed nor waiting for events
    OS_delayed_set, \* the threads that wait for a timeout
    timeout,        \* TCB: ticks left of each thread's delay
    blocking_sema,  \* TCB: the semaphore each thread is blocked by
    blocking_mutex, \* TCB: the mutex each thread is blocked by
    count,          \* the count of each semaphore
    owned_by,       \* the owner of each mutex
    capacity,       \* the free places in each EQT's event queue
    pendsv,         \* PENDSVSET: a context switch is pending
    systick,        \* the tick interrupt is enabled
    fault           \* the assertion that failed, NoFault if none did

vars == <<OS_thread_list, OS_curr, OS_next, OS_ready_set, OS_delayed_set,
          timeout, blocking_sema, blocking_mutex, count, owned_by, capacity,
          pendsv, systick, fault>>

NoFault == "none"
\* The assertions that an application can fail by misusing a call ...
ClientFaults == {"sema at max_count", "mutex acquired twice",
                 "mutex released by another", "event queue full",
                 "timeout is 0"}
\* ... and those that check the kernel itself.
KernelFaults == {"thread does not exist", "blocked twice", "EQT blocked",
                 "TCB integrity", "EQT has no event"}
Faults == ClientFaults \cup KernelFaults \cup {NoFault}

-----------------------------------------------------------------------------
(* The state that the kernel's functions read and write.                   *)

Kernel ==
    [list |-> OS_thread_list, curr |-> OS_curr, next |-> OS_next,
     ready |-> OS_ready_set, delayed |-> OS_delayed_set, timeout |-> timeout,
     sema |-> blocking_sema, mutex |-> blocking_mutex, count |-> count,
     owner |-> owned_by, free |-> capacity, pendsv |-> pendsv,
     fault |-> fault]

Assign(k) ==
    /\ OS_thread_list' = k.list    /\ OS_curr' = k.curr
    /\ OS_next' = k.next           /\ OS_ready_set' = k.ready
    /\ OS_delayed_set' = k.delayed /\ timeout' = k.timeout
    /\ blocking_sema' = k.sema     /\ blocking_mutex' = k.mutex
    /\ count' = k.count            /\ owned_by' = k.owner
    /\ capacity' = k.free          /\ pendsv' = k.pendsv

Commit(k) ==
    /\ IF k.fault = NoFault THEN Assign(k) ELSE Assign(Kernel)
    /\ fault' = k.fault
    /\ UNCHANGED systick

\* J_ASSERT and its variants: the first assertion that fails is the last
\* thing that happens.
J_ASSERT(k, expr, name) ==
    IF expr \/ k.fault # NoFault THEN k ELSE [k EXCEPT !.fault = name]

-----------------------------------------------------------------------------
(* The scheduler.                                                          *)

\* The index that CLZ gives; 0, the idle thread, for the empty set.
THREAD_WITH_HIGHEST_PRIORITY(S) ==
    IF S = {} THEN 0 ELSE CHOOSE p \in S : \A q \in S : q <= p

OS_is_blocked(k, p) == k.sema[p] # NULL \/ k.mutex[p] # NULL

\* The answer of OS_check_for_ready: J_sema_check_for_ready or, when no
\* semaphore blocks the thread, J_Mutex_check_for_ready.
CanUnblock(k, p) ==
    IF k.sema[p] # NULL THEN k.count[k.sema[p]] > 0
                        ELSE k.owner[k.mutex[p]] = NULL

\* (Faulty: does not take the count.)
Unblock_for_free(k, p) ==
    IF k.sema[p] # NULL
    THEN [k EXCEPT !.sema[p] = NULL]
    ELSE IF k.mutex[p] # NULL
         THEN [k EXCEPT !.owner[k.mutex[p]] = p, !.mutex[p] = NULL]
         ELSE k

\* The side effect of OS_check_for_ready when its answer is true: the thread
\* takes one count of the semaphore, or the mutex.
Unblock(k, p) ==
    IF k.sema[p] # NULL
    THEN [k EXCEPT !.count[k.sema[p]] = @ - 1, !.sema[p] = NULL]
    ELSE IF k.mutex[p] # NULL
         THEN [k EXCEPT !.owner[k.mutex[p]] = p, !.mutex[p] = NULL]
         ELSE k

Runnable(k, p) == ~OS_is_blocked(k, p) \/ CanUnblock(k, p)

\* Where the loop over the ready set ends: the threads it passes over leave
\* no trace.
Candidate(k) == THREAD_WITH_HIGHEST_PRIORITY({p \in k.ready : Runnable(k, p)})

\* The assertions the loop makes of the threads it looks at.
Scanned(k) == LET c == Candidate(k) IN {p \in k.ready : p >= c}
ScanAssertions(k) ==
    J_ASSERT(
      J_ASSERT(
        J_ASSERT(k, Scanned(k) \subseteq k.list /\ Candidate(k) \in k.list,
                 "thread does not exist"),
        \A p \in Scanned(k) : k.sema[p] = NULL \/ k.mutex[p] = NULL,
        "blocked twice"),
      \A p \in Scanned(k) : OS_is_blocked(k, p) => p \notin EQTs,
      "EQT blocked")

\* (Faulty: switches to a higher priority only.)
OS_schedule_upwards(k) ==
    [Unblock(ScanAssertions(k), Candidate(k)) EXCEPT
        !.next = Candidate(k),
        !.pendsv = @ \/ k.curr = NULL \/ Candidate(k) > k.curr]

OS_schedule(k) ==
    [Unblock(ScanAssertions(k), Candidate(k)) EXCEPT
        !.next = Candidate(k),
        !.pendsv = @ \/ Candidate(k) # k.curr]

-----------------------------------------------------------------------------
(* Delays.                                                                 *)

\* (Faulty: a thread whose delay ends is not made ready.)
OS_tick_forgets(k) ==
    LET due == {p \in k.delayed : k.timeout[p] = 1}
    IN  [J_ASSERT(k, \A p \in k.delayed : k.timeout[p] # 0, "timeout is 0")
         EXCEPT !.timeout = [p \in Threads |-> IF p \in k.delayed
                                               THEN k.timeout[p] - 1
                                               ELSE k.timeout[p]],
                !.delayed = @ \ due]

OS_tick(k) ==
    LET due == {p \in k.delayed : k.timeout[p] = 1}
    IN  [J_ASSERT(k, \A p \in k.delayed : k.timeout[p] # 0, "timeout is 0")
         EXCEPT !.timeout = [p \in Threads |-> IF p \in k.delayed
                                               THEN k.timeout[p] - 1
                                               ELSE k.timeout[p]],
                !.ready = @ \cup due,
                !.delayed = @ \ due]

\* (Faulty: the thread stays ready.)
OS_delay_stays_ready(k, p, ticks_delay) ==
    OS_schedule([J_ASSERT(k, ~OS_is_blocked(k, p), "TCB integrity") EXCEPT
                    !.timeout[p] = ticks_delay,
                    !.delayed = @ \cup {p}])

OS_delay(k, p, ticks_delay) ==
    OS_schedule([J_ASSERT(k, ~OS_is_blocked(k, p), "TCB integrity") EXCEPT
                    !.timeout[p] = ticks_delay,
                    !.ready = @ \ {p},
                    !.delayed = @ \cup {p}])

-----------------------------------------------------------------------------
(* Semaphores and mutexes.                                                 *)

\* (Faulty: no limit.)
J_sema_signal_unlimited(k, s) == OS_schedule([k EXCEPT !.count[s] = @ + 1])

\* (Faulty: the scheduler is not called.)
J_sema_signal_unscheduled(k, s) ==
    [J_ASSERT(k, k.count[s] # MaxCount, "sema at max_count")
     EXCEPT !.count[s] = @ + 1]

J_sema_signal(k, s) ==
    OS_schedule([J_ASSERT(k, k.count[s] # MaxCount, "sema at max_count")
                 EXCEPT !.count[s] = @ + 1])

OS_sema_block(k, p, s) ==
    OS_schedule([J_ASSERT(k, /\ k.timeout[p] = 0
                             /\ p \notin k.delayed
                             /\ p \in k.ready, "TCB integrity")
                 EXCEPT !.sema[p] = s])

J_sema_wait(k, p, s) ==
    IF k.count[s] > 0 THEN [k EXCEPT !.count[s] = @ - 1]
                      ELSE OS_sema_block(k, p, s)

\* (Faulty: the owner may acquire again.)
J_Mutex_acquire_again(k, p, m) ==
    IF k.owner[m] = NULL THEN [k EXCEPT !.owner[m] = p]
                         ELSE OS_schedule([k EXCEPT !.mutex[p] = m])

J_Mutex_acquire(k, p, m) ==
    LET a == J_ASSERT(k, k.owner[m] # p, "mutex acquired twice")
    IN  IF k.owner[m] = NULL THEN [a EXCEPT !.owner[m] = p]
                             ELSE OS_schedule([a EXCEPT !.mutex[p] = m])

\* (Faulty: anyone may release.)
J_Mutex_release_by_anyone(k, p, m) ==
    OS_schedule(OS_schedule([k EXCEPT !.owner[m] = NULL]))

\* The scheduler is called twice: by OS_mutex_release and by its caller.
J_Mutex_release(k, p, m) ==
    OS_schedule(OS_schedule(
        [J_ASSERT(k, k.owner[m] = p, "mutex released by another")
         EXCEPT !.owner[m] = NULL]))

-----------------------------------------------------------------------------
(* Event-queue threads.                                                    *)

J_EventQueue_put(k, q) ==
    [J_ASSERT(k, k.free[q] > 0, "event queue full") EXCEPT !.free[q] = @ - 1]

J_EventQueue_isEmpty(k, q) == k.free[q] = QueueSize

OS_set_EQT_to_ready(k, q) == [k EXCEPT !.ready = @ \cup {q}]

\* The thread is made ready after the scheduler was called.
OS_EQT_post(k, q) ==
    OS_set_EQT_to_ready(OS_schedule(J_EventQueue_put(k, q)), q)

\* Taking the event to handle, at the start of a round of the pump.
J_EventQueue_get(k, q) ==
    [J_ASSERT(J_ASSERT(k, k.timeout[q] = 0 /\ ~OS_is_blocked(k, q),
                       "TCB integrity"),
              ~J_EventQueue_isEmpty(k, q), "EQT has no event")
     EXCEPT !.free[q] = @ + 1]

\* What an event handler may have done: no kernel call, a signal or a post.
\* It may not block: that fails an assertion the handlers are written around.
HandlerOutcomes(k) ==
    {k} \cup {J_sema_signal(k, s) : s \in Semas}
        \cup {OS_EQT_post(k, q) : q \in EQTs}

\* (Faulty: the EQT stays ready.)
UnreadyNever(k, q) == OS_schedule(k)

\* (Faulty: the EQT is unreadied after every event.)
UnreadyAlways(k, q) == OS_schedule([k EXCEPT !.ready = @ \ {q}])

\* The end of a round: an EQT without events is no longer ready.
UnreadyIfEmpty(k, q) ==
    IF J_EventQueue_isEmpty(k, q)
    THEN OS_schedule([k EXCEPT !.ready = @ \ {q}])
    ELSE k

\* A switch or the knob in BSP_tick: it has an event to post, or not.
PostIf(k, happened) ==
    IF happened THEN OS_EQT_post(k, BSP_EQT_thread) ELSE k

-----------------------------------------------------------------------------
(* The steps of the system.                                                *)

\* The state that J_sema_init, J_Mutex_init, J_EventQueue_init and OS_init
\* set up, and zeroed memory for the rest.  OS_init starts the idle thread.
PowerOn ==
    [list |-> {0}, curr |-> NULL, next |-> NULL, ready |-> {}, delayed |-> {},
     timeout |-> [p \in Threads |-> 0],
     sema |-> [p \in Threads |-> NULL], mutex |-> [p \in Threads |-> NULL],
     count |-> [s \in Semas |-> InitCount],
     owner |-> [m \in Mutexes |-> NULL],
     free |-> [q \in EQTs |-> QueueSize],
     pendsv |-> FALSE, fault |-> NoFault]

Init ==
    /\ OS_thread_list = PowerOn.list    /\ OS_curr = PowerOn.curr
    /\ OS_next = PowerOn.next           /\ OS_ready_set = PowerOn.ready
    /\ OS_delayed_set = PowerOn.delayed /\ timeout = PowerOn.timeout
    /\ blocking_sema = PowerOn.sema     /\ blocking_mutex = PowerOn.mutex
    /\ count = PowerOn.count            /\ owned_by = PowerOn.owner
    /\ capacity = PowerOn.free          /\ pendsv = PowerOn.pendsv
    /\ systick = FALSE                  /\ fault = NoFault

\* main() is running and has not started the kernel yet.
Booting == OS_curr = NULL /\ ~pendsv /\ fault = NoFault

OS_Thread_start(p) ==
    /\ Booting /\ ~systick
    /\ p \notin OS_thread_list
    /\ Commit([Kernel EXCEPT !.list = @ \cup {p}, !.ready = @ \cup {p}])

\* An EQT starts with INIT_SIG in its queue.
OS_EventQueue_Thread_start(q) ==
    /\ Booting /\ ~systick
    /\ q \notin OS_thread_list
    /\ Commit(J_EventQueue_put(
                [Kernel EXCEPT !.list = @ \cup {q}, !.ready = @ \cup {q}], q))

\* OS_run starts the tick first: from here on main() can be interrupted.
OS_onStartup ==
    /\ Booting /\ ~systick
    /\ OS_thread_list = Threads
    /\ systick' = TRUE
    /\ UNCHANGED <<OS_thread_list, OS_curr, OS_next, OS_ready_set,
                   OS_delayed_set, timeout, blocking_sema, blocking_mutex,
                   count, owned_by, capacity, pendsv, fault>>

OS_run ==
    /\ Booting /\ systick
    /\ Commit(OS_schedule(Kernel))

\* SysTick and PendSV both have the lowest priority.  Either may come first
\* here, so nothing below rests on how the hardware breaks the tie.

\* (Faulty: leaves the scheduling to the posts.)
Tick_unscheduled(switch1, switch2, knob) ==
    /\ systick /\ fault = NoFault
    /\ \E ticked \in {OS_tick(Kernel)} :
       \E first  \in {PostIf(ticked, switch1)} :
       \E second \in {PostIf(first, switch2)} :
          Commit(PostIf(second, knob))

\* (Faulty: the delays are not counted down.)
Tick_without_OS_tick(switch1, switch2, knob) ==
    /\ systick /\ fault = NoFault
    /\ \E first  \in {PostIf(Kernel, switch1)} :
       \E second \in {PostIf(first, switch2)} :
          Commit(OS_schedule(PostIf(second, knob)))

\* A tick in which the named inputs have an event.  The bound variables name
\* the state after OS_tick and after each of the posts that BSP_switch_tick
\* and QEI_tick make.
Tick(switch1, switch2, knob) ==
    /\ systick /\ fault = NoFault
    /\ \E ticked \in {OS_tick(Kernel)} :
       \E first  \in {PostIf(ticked, switch1)} :
       \E second \in {PostIf(first, switch2)} :
       \E third  \in {PostIf(second, knob)} :
          Commit(OS_schedule(third))

SysTick_Handler ==
    \E switch1, switch2, knob \in BOOLEAN : Tick(switch1, switch2, knob)

PendSV_Handler ==
    /\ pendsv /\ fault = NoFault
    /\ Commit([Kernel EXCEPT !.curr = OS_next, !.pendsv = FALSE])

\* A thread runs until the switch that is pending takes place.
Running(p) == OS_curr = p /\ ~pendsv /\ fault = NoFault

Delay(p) ==
    Running(p) /\ \E d \in Delays : Commit(OS_delay(Kernel, p, d))
Wait(p, s)    == Running(p) /\ Commit(J_sema_wait(Kernel, p, s))
Signal(p, s)  == Running(p) /\ Commit(J_sema_signal(Kernel, s))
Acquire(p, m) == Running(p) /\ Commit(J_Mutex_acquire(Kernel, p, m))
Release(p, m) == Running(p) /\ Commit(J_Mutex_release(Kernel, p, m))
Post(p, q)    == Running(p) /\ Commit(OS_EQT_post(Kernel, q))

\* One round of the pump is one critical section: the handler runs to
\* completion.
OS_EventQueue_pump(q) ==
    /\ Running(q)
    /\ \E k \in HandlerOutcomes(J_EventQueue_get(Kernel, q)) :
          Commit(UnreadyIfEmpty(k, q))

\* J_on_assert_failed ends in NVIC_SystemReset.
J_on_assert_failed ==
    /\ fault # NoFault
    /\ Assign(PowerOn)
    /\ fault' = NoFault
    /\ systick' = FALSE

Boot ==
    \/ \E p \in Regular : OS_Thread_start(p)
    \/ \E q \in EQTs : OS_EventQueue_Thread_start(q)
    \/ OS_onStartup
    \/ OS_run

ThreadStep(p) ==
    \/ Delay(p)
    \/ \E s \in Semas : Wait(p, s) \/ Signal(p, s)
    \/ \E m \in Mutexes : Acquire(p, m) \/ Release(p, m)
    \/ \E q \in EQTs : Post(p, q)

Next ==
    \/ Boot
    \/ SysTick_Handler
    \/ PendSV_Handler
    \/ \E p \in Regular : ThreadStep(p)
    \/ \E q \in EQTs : OS_EventQueue_pump(q)
    \/ J_on_assert_failed

\* The timer keeps ticking, pending interrupts are taken and a failed
\* assertion reaches its reset.  Threads owe nothing: they may compute for as
\* long as they like.  Nobody owes the tick an input either, so a tick is due
\* only where one without input would change the state.
Fairness ==
    /\ \/ []<>~ENABLED <<Tick(FALSE, FALSE, FALSE)>>_vars
       \/ []<><<SysTick_Handler>>_vars
    /\ WF_vars(PendSV_Handler)
    /\ WF_vars(J_on_assert_failed)

Spec == Init /\ [][Next]_vars /\ Fairness

-----------------------------------------------------------------------------
(* Invariants.                                                             *)

\* Every variable stays in the set of values its C type stands for.
TypeOK ==
    /\ OS_thread_list \subseteq Threads /\ 0 \in OS_thread_list
    /\ OS_curr \in Threads \cup {NULL}
    /\ OS_next \in Threads \cup {NULL}
    /\ OS_ready_set \subseteq 1 .. NPrio
    /\ OS_delayed_set \subseteq 1 .. NPrio
    /\ timeout \in [Threads -> Nat]
    /\ blocking_sema \in [Threads -> Semas \cup {NULL}]
    /\ blocking_mutex \in [Threads -> Mutexes \cup {NULL}]
    /\ count \in [Semas -> 0 .. MaxCount]
    /\ owned_by \in [Mutexes -> Threads \cup {NULL}]
    /\ capacity \in [EQTs -> 0 .. QueueSize]
    /\ pendsv \in BOOLEAN
    /\ systick \in BOOLEAN
    /\ fault \in Faults

\* Only misuse by the application stops the system: no assertion that the
\* kernel makes about its own state (the loop of OS_schedule, OS_delay,
\* OS_sema_block, the TCB and queue checks of the pump) can fail.
NoKernelFault == fault \notin KernelFaults

\* A thread waits for one reason at a time: it is delayed, or blocked by one
\* semaphore, or blocked by one mutex; a blocked thread is still in the ready
\* set, so that OS_schedule looks at it; the down-counters of OS_tick agree
\* with the delayed set; and an EQT is never blocked or delayed.
OneReasonToWait ==
    \A p \in Threads :
        /\ blocking_sema[p] = NULL \/ blocking_mutex[p] = NULL
        /\ OS_is_blocked(Kernel, p) => p \in OS_ready_set \ EQTs
        /\ p \in OS_delayed_set => p \notin OS_ready_set \cup EQTs
        /\ timeout[p] # 0 => p \in OS_delayed_set
        /\ p \in OS_delayed_set /\ timeout[p] = 0 => 0 \in Delays

\* A regular thread that was started is delayed or ready: none is forgotten.
NoThreadForgotten ==
    \A p \in Regular \cap OS_thread_list : p \in OS_ready_set \cup OS_delayed_set

\* An EQT is ready exactly when its queue holds an event: no post is left
\* unseen by the scheduler, and the pump never finds its queue empty.
EQTReadyIffEvents ==
    \A q \in EQTs \cap OS_thread_list :
        q \in OS_ready_set <=> ~J_EventQueue_isEmpty(Kernel, q)

\* What OS_schedule chose stays the right choice until it is called again:
\* OS_next can run, and no regular thread above it can.  So a token or a free
\* mutex is never left lying while a thread above OS_next waits for it.  Only
\* an EQT may be above OS_next (see OS_EQT_post).
ScheduleIsCurrent ==
    OS_next # NULL =>
        /\ OS_next # 0 => /\ OS_next \in OS_ready_set
                          /\ ~OS_is_blocked(Kernel, OS_next)
        /\ \A p \in OS_ready_set \ EQTs : p > OS_next => ~Runnable(Kernel, p)

\* The thread that runs is the one the scheduler chose, as
\* J_ASSERT_TCB_INTEGRITY expects at the top of every thread's loop.
ChosenThreadRuns == OS_curr # NULL /\ ~pendsv => OS_curr = OS_next

\* The owner of a mutex is not waiting for that mutex.
OwnerIsNotWaiting ==
    \A m \in Mutexes : owned_by[m] # NULL => blocking_mutex[owned_by[m]] # m

-----------------------------------------------------------------------------
(* What a step may do.                                                     *)

\* A mutex is taken from its owner only while that owner runs; it goes to
\* nobody, or straight to the highest-priority waiter, which is then chosen
\* to run.  A thread gets a free mutex only by running or in that same way.
MutexHandover ==
    [][ fault = NoFault =>
        \A m \in Mutexes : owned_by'[m] # owned_by[m] =>
          /\ owned_by[m] # NULL => Running(owned_by[m])
          /\ owned_by'[m] # NULL =>
                \/ Running(owned_by'[m])
                \/ /\ blocking_mutex[owned_by'[m]] = m
                   /\ OS_next' = owned_by'[m]
                   /\ \A p \in Threads :
                        blocking_mutex[p] = m => p <= owned_by'[m] ]_vars

\* A tick that ends without an assertion has chosen the highest-priority
\* thread that can run, the EQTs included, although it posts events before it
\* schedules.
TickChoosesHighest ==
    [][ SysTick_Handler /\ fault' = NoFault =>
        /\ OS_next' \in OS_ready_set' \cup {0}
        /\ \A p \in OS_ready_set' : p > OS_next' => ~Runnable(Kernel, p)' ]_vars

\* A thread waits for the semaphore or mutex that blocks it.  EQTs and the idle
\* thread wait for none.
Waits == [p \in Regular |-> IF blocking_sema[p] # NULL THEN blocking_sema[p]
                                                     ELSE blocking_mutex[p]]

Services == INSTANCE Resources
            WITH Threads <- Regular,
                 tokens <- count, owner <- owned_by, waits <- Waits

\* The kernel implements what semaphores and mutexes promise: whatever the
\* scheduler, the tick and the event queues do, in one step at most one waiting
\* thread is granted what it waits for, tokens and owners change only by that
\* and by what a thread asks for or gives back.
ImplementsResources == Services!Spec

-----------------------------------------------------------------------------
(* What must happen.                                                       *)

\* A delay ends, whatever the other threads do (unless the system resets,
\* which empties the delayed set too).
DelaysEnd ==
    \A p \in Regular : p \in OS_delayed_set ~> p \notin OS_delayed_set

\* An event that a thread posts to an EQT is not noticed at once, but it is
\* at the next tick: the scheduler then chooses that EQT or a thread above it.
PostsAreNoticed ==
    \A q \in EQTs : q \in OS_ready_set /\ OS_curr # NULL
                    ~> (OS_curr = NULL \/ q \notin OS_ready_set \/ OS_next >= q)

-----------------------------------------------------------------------------
(* What the repository says of the kernel and the code does not do.        *)

\* "Priority based-scheduling. Highest priority runs first." (jorgOS.c:291)
HighestPriorityRuns ==
    OS_curr # NULL /\ ~pendsv =>
        \A p \in OS_ready_set : p > OS_curr => ~Runnable(Kernel, p)
=============================================================================
