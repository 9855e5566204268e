----------------------------- MODULE DemoProofs -----------------------------
(***************************************************************************)
(* Theorems about the program of module Demo, for any length of a second,  *)
(* any limit of the semaphore and any size of the queues from three on.    *)
(*                                                                         *)
(* Every step of the program is a step of the kernel, so the invariant     *)
(* IInv of the kernel holds.  What is added here is about two pairs of     *)
(* threads, those of the mutex and those of the semaphore, and about the   *)
(* events: no more of them wait than the ticks since a thread below        *)
(* bsp_eqt ran can have posted.                                            *)
(***************************************************************************)
EXTENDS Demo, JorgOSProofs

-----------------------------------------------------------------------------
(* The invariant, stated of a snapshot k of the kernel and of the next     *)
(* calls at.                                                               *)

\* Thread p's acquire has returned, and it has not released the mutex yet.
Holds(k, at, p) ==
    /\ p \in {mutex_one, mutex_two}
    /\ at[p] \in {2, 3} /\ k.mutex[p] = NULL

\* Who waits has made the call that it waits in, and the mutex is owned by
\* the thread that is in its section.
Orderly(k, at) ==
    /\ \A p \in Threads : k.sema[p] # NULL => p = sema_red /\ at[p] = 2
    /\ \A p \in Threads :
         k.mutex[p] # NULL => p \in {mutex_one, mutex_two} /\ at[p] = 2
    /\ \A p \in Threads : k.owner[mutex_test] = p <=> Holds(k, at, p)

\* sema_test_signal has given its signal, and is about to rest.
SignalWasGiven(k, at) ==
    sema_test_signal \in k.ready /\ at[sema_test_signal] = 2

\* sema_red is away only after a signal, which it took, and it is back before
\* the next one.
Punctual(k, at) ==
    /\ k.count[sema_test] = 0
    /\ sema_red \in k.delayed =>
         /\ at[sema_red] = 1
         /\ k.timeout[sema_red] <= 5 * SECOND
         /\ \/ SignalWasGiven(k, at)
            \/ /\ sema_test_signal \in k.delayed
               /\ k.timeout[sema_red] < k.timeout[sema_test_signal]
    /\ at[sema_red] = 2 /\ k.sema[sema_red] = NULL => SignalWasGiven(k, at)

\* No thread above the chosen one can run, not even an EQT: in this program
\* only the tick posts, and then it schedules.
Highest(k) ==
    k.next # NULL => \A p \in k.ready : p > k.next => ~Runnable(k, p)

\* Three events in each tick that bsp_eqt is behind, and INIT_SIG.
Posted(ticks) == 3 * ticks + 1

\* At most n events wait for bsp_eqt.
Queued(k, n) == QueueSize - k.free[bsp_eqt] <= n

\* A failure leaves the kernel as it was before the call, so that all but the
\* name of the failure stays in order.
DemoInv ==
    /\ IInv
    /\ fault # NoFault =>
         fault = "event queue full" /\ QueueSize < Posted(behind)
    /\ pc \in [Regular -> Nat]
    /\ \A p \in Regular : pc[p] \in 1 .. Len(Loop[p])
    /\ Orderly(Kernel, pc)
    /\ Punctual(Kernel, pc)
    /\ Highest(Kernel)
    /\ behind \in Nat /\ Queued(Kernel, Posted(behind))
    /\ \A q \in EQTs : q \notin OS_thread_list => capacity[q] = QueueSize

-----------------------------------------------------------------------------
(* The threads and their loops.                                            *)

\* Which threads there are, and how their priorities compare.
LEMMA ThreadFacts ==
    /\ Threads = 0 .. 9 /\ 0 \in Threads
    /\ Regular = {blinky_blue, sema_test_signal, sema_red, mutex_two,
                  mutex_one, encoder_monitor, one_second_print}
    /\ Regular \subseteq Threads
    /\ EQTs = {event_test, bsp_eqt} /\ EQTs \subseteq Threads
    /\ sema_red > sema_test_signal
    /\ sema_red \notin {mutex_one, mutex_two, sema_test_signal, 0}
    /\ sema_test_signal \notin {mutex_one, mutex_two, 0}
    /\ mutex_one # 0 /\ mutex_two # 0 /\ mutex_one # mutex_two
    /\ sema_test \in Semas /\ mutex_test \in Mutexes
    /\ NULL \notin Threads /\ sema_test # NULL /\ mutex_test # NULL
BY DemoAssumption, KernelAssumption
   DEF DemoAssumption, KernelAssumption, Threads, Regular, event_test,
       blinky_blue, sema_test_signal, sema_red, mutex_two, mutex_one, bsp_eqt,
       encoder_monitor, one_second_print

\* What the constants of the program are.
LEMMA Numbers ==
    /\ SECOND \in Nat /\ SECOND >= 2 /\ MaxCount > 0 /\ MaxCount \in Nat
    /\ QueueSize \in Nat /\ QueueSize \in Int /\ QueueSize >= 3
    /\ Semas = {sema_test} /\ Mutexes = {mutex_test} /\ InitCount = 0
    /\ BSP_EQT_thread = bsp_eqt /\ bsp_eqt \in EQTs
BY DemoAssumption, KernelAssumption DEF DemoAssumption, KernelAssumption

\* A thread of the program delays for some time, and for no more than what
\* the kernel was told of.
LEMMA DelaysOfDemo ==
    /\ \A n \in {1, 2, 3, 5, 10, 15} : n * SECOND \in Delays
    /\ SECOND \div 2 \in Delays
    /\ 0 \notin Delays
<1>1. Delays = {n * SECOND : n \in {1, 2, 3, 5, 10, 15}} \cup {SECOND \div 2}
  BY DemoAssumption DEF DemoAssumption
<1>2. SECOND \div 2 > 0
  BY Numbers
<1>3. \A n \in {1, 2, 3, 5, 10, 15} : n * SECOND > 0
  BY Numbers
<1> QED
  BY <1>1, <1>2, <1>3

-----------------------------------------------------------------------------
(* OS_schedule.                                                            *)

\* OS_schedule gives the mutex to a waiter only, when nobody is in its section.
LEMMA ScheduleIsOrderly ==
    ASSUME NEW k, NEW at, k \in KernelState, Consistent(k), Orderly(k, at)
    PROVE  Orderly(OS_schedule(k), at)
<1> DEFINE r == OS_schedule(k)
           n == Candidate(k)
<1>1. /\ r.sema = [k.sema EXCEPT ![n] = NULL]
      /\ r.mutex = [k.mutex EXCEPT ![n] = NULL]
      /\ r.owner = IF k.mutex[n] # NULL
                   THEN [k.owner EXCEPT ![k.mutex[n]] = n] ELSE k.owner
  BY ScheduleReleases
<1>2. n \in Threads /\ (n # 0 => Runnable(k, n))
  BY CandidateFacts
<1>3. /\ k.sema \in [Threads -> Semas \cup {NULL}]
      /\ k.mutex \in [Threads -> Mutexes \cup {NULL}]
      /\ k.owner \in [Mutexes -> Threads \cup {NULL}]
  BY DEF KernelState
<1>4. k.sema[n] = NULL \/ k.mutex[n] = NULL
  BY <1>2 DEF Consistent, WaitsWell
<1> HIDE DEF r, n
<1>5. /\ \A p \in Threads : r.sema[p] # NULL => p = sema_red /\ at[p] = 2
      /\ \A p \in Threads :
           r.mutex[p] # NULL => p \in {mutex_one, mutex_two} /\ at[p] = 2
  BY <1>1, <1>3 DEF Orderly
<1>6. CASE k.mutex[n] = NULL
  <2>1. r.owner = k.owner /\ \A p \in Threads : r.mutex[p] = k.mutex[p]
    BY <1>1, <1>2, <1>3, <1>6
  <2>2. \A p \in Threads : Holds(r, at, p) <=> Holds(k, at, p)
    BY <2>1 DEF Holds
  <2> QED
    BY <1>5, <2>1, <2>2 DEF Orderly, r
<1>7. CASE k.mutex[n] # NULL
  <2>1. /\ k.mutex[n] = mutex_test /\ n \in {mutex_one, mutex_two}
        /\ at[n] = 2 /\ n # 0
    BY <1>2, <1>3, <1>7, Numbers, ThreadFacts DEF Orderly
  <2>2. k.owner[mutex_test] = NULL
    BY <1>2, <1>4, <2>1, <1>7 DEF Runnable, CanUnblock, OS_is_blocked
  <2>3. r.owner[mutex_test] = n
    BY <1>1, <1>3, <1>7, <2>1, ThreadFacts
  <2>4. ASSUME NEW p \in Threads PROVE p = n <=> Holds(r, at, p)
    <3>1. ~Holds(k, at, p)
      BY <2>2, ThreadFacts DEF Orderly
    <3>2. p # n => r.mutex[p] = k.mutex[p]
      BY <1>1, <1>2, <1>3
    <3>3. r.mutex[n] = NULL
      BY <1>1, <1>2, <1>3
    <3> QED
      BY <2>1, <3>1, <3>2, <3>3 DEF Holds
  <2> QED
    BY <1>5, <2>3, <2>4 DEF Orderly, r
<1> QED
  BY <1>6, <1>7

\* With no token to give, OS_schedule leaves the two threads of the semaphore
\* as they are.
LEMMA ScheduleIsPunctual ==
    ASSUME NEW k, NEW at, k \in KernelState, Consistent(k), Orderly(k, at),
           Punctual(k, at)
    PROVE  Punctual(OS_schedule(k), at)
<1> DEFINE r == OS_schedule(k)
           n == Candidate(k)
<1>1. /\ r.sema = [k.sema EXCEPT ![n] = NULL]
      /\ r.count = IF k.sema[n] # NULL
                   THEN [k.count EXCEPT ![k.sema[n]] = @ - 1] ELSE k.count
  BY ScheduleReleases
<1>2. r.ready = k.ready /\ r.delayed = k.delayed /\ r.timeout = k.timeout
  BY ScheduleFields
<1>3. n \in Threads /\ (n # 0 => Runnable(k, n))
  BY CandidateFacts
<1>4. k.sema \in [Threads -> Semas \cup {NULL}]
  BY DEF KernelState
<1>5. k.sema[n] = NULL
  <2> SUFFICES ASSUME k.sema[n] # NULL PROVE FALSE
    OBVIOUS
  <2>1. n # 0 /\ k.sema[n] = sema_test
    BY <1>3, <1>4, Numbers, ThreadFacts DEF Orderly
  <2>2. k.count[sema_test] > 0
    BY <1>3, <2>1 DEF Runnable, CanUnblock, OS_is_blocked
  <2> QED
    BY <2>2 DEF Punctual
<1> HIDE DEF r, n
<1>6. r.count = k.count /\ r.sema[sema_red] = k.sema[sema_red]
  BY <1>1, <1>3, <1>4, <1>5, ThreadFacts
<1>7. Punctual(r, at)
  BY <1>2, <1>6 DEF Punctual, SignalWasGiven
<1> QED
  BY <1>7 DEF r

\* OS_schedule chooses the highest-priority thread that can run.
LEMMA ScheduleChoosesHighest ==
    ASSUME NEW k, Good(k, {}), k.fault = NoFault
    PROVE  Highest(OS_schedule(k))
<1>1. OS_schedule(k).fault = NoFault
  BY ScheduleCall
<1> QED
  BY <1>1, LastScheduleChoosesHighest DEF Highest

\* What a call may schedule in, and what it may end in.
Fine(k, at) ==
    /\ Good(k, {}) /\ k.fault = NoFault
    /\ Orderly(k, at) /\ Punctual(k, at)
Settled(k, at) == Fine(k, at) /\ Highest(k)

\* A call that ends in OS_schedule ends well.
LEMMA ScheduleSettles ==
    ASSUME NEW k, NEW at, Fine(k, at)
    PROVE  Settled(OS_schedule(k), at)
<1>1. k \in KernelState /\ Consistent(k)
  BY DEF Fine, Good
<1>2. Good(OS_schedule(k), {}) /\ OS_schedule(k).fault = NoFault
  BY ScheduleCall DEF Fine
<1>3. Orderly(OS_schedule(k), at)
  BY <1>1, ScheduleIsOrderly DEF Fine
<1>4. Punctual(OS_schedule(k), at)
  BY <1>1, ScheduleIsPunctual DEF Fine
<1>5. Highest(OS_schedule(k))
  BY ScheduleChoosesHighest DEF Fine
<1> QED
  BY <1>2, <1>3, <1>4, <1>5 DEF Fine, Settled

-----------------------------------------------------------------------------
(* The calls.                                                              *)

\* A thread runs in its loop, and the program is in order.
Working(k, at, p) ==
    /\ p \in Regular /\ at \in [Regular -> Nat]
    /\ Active(k, p) /\ Settled(k, at)

\* A thread that works is one of those that the loops are about.
LEMMA WorkingIsClean ==
    ASSUME NEW k, NEW at, NEW p, Working(k, at, p)
    PROVE  /\ k \in KernelState /\ p \in Threads /\ p \in Regular
           /\ k.next = p /\ p \in k.ready /\ p \notin k.delayed
           /\ k.sema[p] = NULL /\ k.mutex[p] = NULL
           /\ k.fault = NoFault /\ k.list = Threads
           /\ Consistent(k) /\ Orderly(k, at) /\ Punctual(k, at)
           /\ \A t \in k.ready : t > p => ~Runnable(k, t)
<1>1. /\ k \in KernelState /\ p \in Threads
      /\ k.next = p /\ p \in k.ready /\ p \notin k.delayed
      /\ k.sema[p] = NULL /\ k.mutex[p] = NULL
  BY ActiveIsClean DEF Working
<1>2. p # NULL
  BY <1>1, ThreadFacts
<1> QED
  BY <1>1, <1>2 DEF Working, Settled, Fine, Good, Highest

\* Whoever asks for the mutex does not own it.
LEMMA AcquireSettles ==
    ASSUME NEW k, NEW at, NEW p \in {mutex_one, mutex_two},
           Working(k, at, p), at[p] = 1
    PROVE  Settled(J_Mutex_acquire(k, p, mutex_test), [at EXCEPT ![p] = 2])
<1> DEFINE next == [at EXCEPT ![p] = 2]
<1>1. /\ k \in KernelState /\ p \in Threads /\ p \in Regular
      /\ k.next = p /\ p \in k.ready /\ p \notin k.delayed
      /\ k.sema[p] = NULL /\ k.mutex[p] = NULL
      /\ k.fault = NoFault
      /\ Orderly(k, at) /\ Punctual(k, at)
      /\ \A t \in k.ready : t > p => ~Runnable(k, t)
  BY WorkingIsClean
<1>2. /\ \A t \in Regular : next[t] = IF t = p THEN 2 ELSE at[t]
      /\ sema_red \in Regular /\ sema_test_signal \in Regular
      /\ p # sema_red /\ p # sema_test_signal
      /\ {mutex_one, mutex_two} \subseteq Regular
  BY ThreadFacts DEF Working
<1>3. k.owner[mutex_test] # p
  BY <1>1 DEF Orderly, Holds
<1> HIDE DEF next
<1>4. CASE k.owner[mutex_test] = NULL
  <2> DEFINE owners == [k.owner EXCEPT ![mutex_test] = p]
             x == [k EXCEPT !.owner = owners]
  <2>1. J_Mutex_acquire(k, p, mutex_test) = x
    BY <1>1, <1>3, <1>4 DEF J_Mutex_acquire, J_ASSERT, KernelState
  <2>2. /\ x.next = k.next /\ x.ready = k.ready /\ x.delayed = k.delayed
        /\ x.timeout = k.timeout /\ x.sema = k.sema /\ x.mutex = k.mutex
        /\ x.count = k.count /\ x.owner = owners /\ x.fault = NoFault
    <3> HIDE DEF owners
    <3> QED
      BY <1>1 DEF KernelState
  <2>3. Good(x, {})
    BY <2>1, AcquireGood, ThreadFacts DEF Working
  <2>4. owners[mutex_test] = p /\ \A m \in Mutexes : m = mutex_test
    BY <1>1, Numbers DEF KernelState
  <2> HIDE DEF x, owners
  <2>5. Orderly(x, next)
    <3>1. /\ \A t \in Threads : x.sema[t] # NULL => t = sema_red /\ next[t] = 2
          /\ \A t \in Threads :
               x.mutex[t] # NULL => t \in {mutex_one, mutex_two} /\ next[t] = 2
      BY <1>1, <1>2, <2>2 DEF Orderly
    <3>2. ASSUME NEW t \in Threads PROVE p = t <=> Holds(x, next, t)
      <4>1. ~Holds(k, at, t)
        BY <1>1, <1>4, ThreadFacts DEF Orderly
      <4> QED
        BY <1>1, <1>2, <2>2, <4>1 DEF Holds
    <3> QED
      BY <2>2, <2>4, <3>1, <3>2 DEF Orderly
  <2>6. Punctual(x, next)
    BY <1>1, <1>2, <2>2 DEF Punctual, SignalWasGiven
  <2>7. Highest(x)
    <3> SUFFICES ASSUME NEW t \in x.ready, t > x.next PROVE ~Runnable(x, t)
      BY DEF Highest
    <3>1. ~Runnable(k, t) /\ t \in Threads
      BY <1>1, <2>2 DEF KernelState, Threads
    <3>2. k.mutex[t] # NULL => k.mutex[t] = mutex_test
      BY <1>1, <2>4, <3>1 DEF KernelState
    <3>3. k.sema[t] # NULL \/ k.mutex[t] = NULL
      BY <1>4, <3>1, <3>2 DEF Runnable, CanUnblock
    <3> QED
      BY <2>2, <3>1, <3>3 DEF Runnable, CanUnblock, OS_is_blocked
  <2> QED
    BY <2>1, <2>2, <2>3, <2>5, <2>6, <2>7 DEF Settled, Fine, next
<1>5. CASE k.owner[mutex_test] # NULL
  <2>1. PICK x : /\ J_Mutex_acquire(k, p, mutex_test) = OS_schedule(x)
                 /\ Good(x, {}) /\ x.curr = p
                 /\ SameDelays(k, x) /\ MutexWaited(k, p, mutex_test, x)
    BY <1>1, <1>5, AcquireBlocks, ThreadFacts DEF Working
  <2>2. x.fault = NoFault
    BY <1>3, <2>1 DEF MutexWaited
  <2>3. /\ x.mutex = [k.mutex EXCEPT ![p] = mutex_test]
        /\ x.sema = k.sema /\ x.count = k.count /\ x.owner = k.owner
    BY <2>1 DEF MutexWaited
  <2>4. Orderly(x, next)
    <3>1. k.mutex \in [Threads -> Mutexes \cup {NULL}]
      BY <1>1 DEF KernelState
    <3>2. \A t \in Threads :
            x.mutex[t] = IF t = p THEN mutex_test ELSE k.mutex[t]
      BY <1>1, <2>3, <3>1
    <3>3. \A t \in Threads : Holds(x, next, t) <=> Holds(k, at, t)
      BY <1>1, <1>2, <3>2, ThreadFacts DEF Holds
    <3> QED
      BY <1>1, <1>2, <2>3, <3>2, <3>3 DEF Orderly
  <2>5. Punctual(x, next)
    BY <1>1, <1>2, <2>1, <2>3 DEF Punctual, SignalWasGiven, SameDelays
  <2>6. Fine(x, next)
    BY <2>1, <2>2, <2>4, <2>5 DEF Fine
  <2> QED
    BY <2>1, <2>6, ScheduleSettles DEF next
<1> QED
  BY <1>4, <1>5

\* Whoever releases the mutex owns it.
LEMMA ReleaseSettles ==
    ASSUME NEW k, NEW at, NEW p \in {mutex_one, mutex_two}, NEW j \in {1, 4},
           Working(k, at, p), at[p] = 3
    PROVE  Settled(J_Mutex_release(k, p, mutex_test), [at EXCEPT ![p] = j])
<1> DEFINE next == [at EXCEPT ![p] = j]
<1>1. /\ k \in KernelState /\ p \in Threads /\ p \in Regular
      /\ k.sema[p] = NULL /\ k.mutex[p] = NULL
      /\ k.fault = NoFault
      /\ Orderly(k, at) /\ Punctual(k, at)
  BY WorkingIsClean
<1>2. /\ \A t \in Regular : next[t] = IF t = p THEN j ELSE at[t]
      /\ sema_red \in Regular /\ sema_test_signal \in Regular
      /\ p # sema_red /\ p # sema_test_signal
      /\ {mutex_one, mutex_two} \subseteq Regular
  BY ThreadFacts DEF Working
<1>3. k.owner[mutex_test] = p
  BY <1>1 DEF Orderly, Holds
<1> HIDE DEF next
<1>4. PICK x : /\ J_Mutex_release(k, p, mutex_test)
                     = OS_schedule(OS_schedule(x))
               /\ Good(x, {}) /\ x.curr = p
               /\ SameDelays(k, x) /\ MutexFreed(k, p, mutex_test, x)
  BY <1>1, ReleaseBegins, ThreadFacts DEF Working
<1>5. x.fault = NoFault
  BY <1>3, <1>4 DEF MutexFreed
<1>6. /\ x.owner = [k.owner EXCEPT ![mutex_test] = NULL]
      /\ x.sema = k.sema /\ x.mutex = k.mutex /\ x.count = k.count
  BY <1>4 DEF MutexFreed
<1>7. Orderly(x, next)
  <2>1. x.owner[mutex_test] = NULL
    BY <1>1, <1>6, ThreadFacts DEF KernelState
  <2>2. ASSUME NEW t \in Threads PROVE ~Holds(x, next, t) /\ t # NULL
    <3>1. t # p => ~Holds(k, at, t)
      BY <1>1, <1>3 DEF Orderly
    <3> QED
      BY <1>2, <1>6, <3>1, ThreadFacts DEF Holds
  <2>3. \A t \in Threads : x.sema[t] # NULL => t = sema_red /\ next[t] = 2
    BY <1>1, <1>2, <1>6 DEF Orderly
  <2>4. \A t \in Threads :
          x.mutex[t] # NULL => t \in {mutex_one, mutex_two} /\ next[t] = 2
    BY <1>1, <1>2, <1>6 DEF Orderly
  <2> QED
    BY <2>1, <2>2, <2>3, <2>4 DEF Orderly
<1>8. Punctual(x, next)
  BY <1>1, <1>2, <1>4, <1>6 DEF Punctual, SignalWasGiven, SameDelays
<1>9. Fine(x, next)
  BY <1>4, <1>5, <1>7, <1>8 DEF Fine
<1>10. Fine(OS_schedule(x), next)
  BY <1>9, ScheduleSettles DEF Settled
<1> QED
  BY <1>4, <1>10, ScheduleSettles DEF next

\* sema_red always has to wait.
LEMMA WaitSettles ==
    ASSUME NEW k, NEW at, Working(k, at, sema_red), at[sema_red] = 1
    PROVE  Settled(J_sema_wait(k, sema_red, sema_test),
                   [at EXCEPT ![sema_red] = 2])
<1> DEFINE p == sema_red
           next == [at EXCEPT ![p] = 2]
<1>1. /\ k \in KernelState /\ p \in Threads /\ p \in Regular
      /\ p \notin k.delayed /\ k.fault = NoFault
      /\ Orderly(k, at) /\ Punctual(k, at)
  BY WorkingIsClean
<1>2. /\ \A t \in Regular : next[t] = IF t = p THEN 2 ELSE at[t]
      /\ p \notin {mutex_one, mutex_two}
      /\ {mutex_one, mutex_two} \subseteq Regular
  BY ThreadFacts DEF Working
<1> HIDE DEF next
<1>3. PICK x : /\ J_sema_wait(k, p, sema_test) = OS_schedule(x)
               /\ Good(x, {}) /\ x.curr = p /\ x.fault = NoFault
               /\ SameDelays(k, x) /\ SemaWaited(k, p, sema_test, x)
  BY <1>1, WaitBlocks, ThreadFacts DEF Working, Punctual
<1>4. /\ x.sema = [k.sema EXCEPT ![p] = sema_test]
      /\ x.mutex = k.mutex /\ x.count = k.count /\ x.owner = k.owner
  BY <1>3 DEF SemaWaited
<1>5. \A t \in Threads : x.sema[t] = IF t = p THEN sema_test ELSE k.sema[t]
  <2>1. k.sema \in [Threads -> Semas \cup {NULL}]
    BY <1>1 DEF KernelState
  <2> QED
    BY <1>1, <1>4, <2>1
<1>6. Orderly(x, next)
  <2>1. \A t \in Threads : Holds(x, next, t) <=> Holds(k, at, t)
    BY <1>2, <1>4 DEF Holds
  <2> QED
    BY <1>1, <1>2, <1>4, <1>5, <2>1 DEF Orderly
<1>7. Punctual(x, next)
  BY <1>1, <1>3, <1>4, <1>5, ThreadFacts DEF Punctual, SameDelays
<1>8. Fine(x, next)
  BY <1>3, <1>6, <1>7 DEF Fine
<1> QED
  BY <1>3, <1>8, ScheduleSettles DEF next

\* A signal finds sema_red waiting, which takes it.
LEMMA SignalSettles ==
    ASSUME NEW k, NEW at, Working(k, at, sema_test_signal),
           at[sema_test_signal] = 1
    PROVE  Settled(J_sema_signal(k, sema_test),
                   [at EXCEPT ![sema_test_signal] = 2])
<1> DEFINE p == sema_test_signal
           next == [at EXCEPT ![p] = 2]
<1>1. /\ k \in KernelState /\ p \in Threads /\ p \in Regular
      /\ k.next = p /\ p \in k.ready /\ p \notin k.delayed
      /\ k.sema[p] = NULL /\ k.mutex[p] = NULL
      /\ k.fault = NoFault /\ k.list = Threads
      /\ Consistent(k) /\ Orderly(k, at) /\ Punctual(k, at)
      /\ \A t \in k.ready : t > p => ~Runnable(k, t)
  BY WorkingIsClean
<1>2. /\ \A t \in Regular : next[t] = IF t = p THEN 2 ELSE at[t]
      /\ p \notin {mutex_one, mutex_two}
      /\ sema_red # p /\ sema_red > p
      /\ sema_red \notin {mutex_one, mutex_two, 0}
      /\ sema_red \in Regular /\ sema_red \in Threads
      /\ {mutex_one, mutex_two} \subseteq Regular
  BY ThreadFacts DEF Working
<1> HIDE DEF next
<1>3. at[p] = 1
  OBVIOUS
<1>4. sema_red \notin k.delayed /\ sema_red \in k.ready
  <2>1. sema_red \notin k.delayed
    BY <1>1, <1>3 DEF Punctual, SignalWasGiven
  <2> QED
    BY <1>1, <1>2, <2>1 DEF Consistent
<1>5. k.sema[sema_red] = sema_test /\ at[sema_red] = 2
  <2>1. k.mutex[sema_red] = NULL
    BY <1>1, <1>2 DEF Orderly
  <2>2. k.sema[sema_red] # NULL
    BY <1>1, <1>2, <1>4, <2>1 DEF Runnable, OS_is_blocked
  <2> QED
    BY <1>1, <1>2, <2>2, Numbers DEF Orderly, KernelState
<1>6. PICK x : /\ J_sema_signal(k, sema_test) = OS_schedule(x)
               /\ Good(x, {}) /\ x.ready = k.ready /\ x.curr = k.curr
               /\ SameDelays(k, x) /\ TokenGiven(k, sema_test, x)
  <2>1. Good(k, {})
    BY DEF Working, Active
  <2> QED
    BY <2>1, SignalBegins, ThreadFacts
<1>7. /\ x.count = [k.count EXCEPT ![sema_test] = @ + 1]
      /\ x.sema = k.sema /\ x.mutex = k.mutex /\ x.owner = k.owner
  BY <1>6 DEF TokenGiven
<1>8. x.fault = NoFault
  BY <1>1, <1>6, Numbers DEF TokenGiven, Punctual
<1>9. x \in KernelState /\ Consistent(x)
  BY <1>6, <1>8 DEF Good
<1>10. x.count[sema_test] = 1
  BY <1>1, <1>7, ThreadFacts DEF Punctual, KernelState
<1> DEFINE c == Candidate(x)
           r == OS_schedule(x)
<1>11. c = sema_red
  <2>1. /\ c \in Threads
        /\ c # 0 => c \in x.ready /\ Runnable(x, c)
        /\ \A t \in x.ready : t > c => ~Runnable(x, t)
    BY <1>9, CandidateFacts
  <2> HIDE DEF c
  <2>2. Runnable(x, sema_red)
    BY <1>5, <1>7, <1>10, ThreadFacts DEF Runnable, CanUnblock
  <2>3. ~(sema_red > c)
    BY <1>4, <1>6, <2>1, <2>2
  <2>4. ASSUME c > sema_red PROVE FALSE
    <3>1. c \in k.ready /\ Runnable(x, c) /\ c > p /\ c # sema_red
      BY <1>1, <1>2, <1>6, <2>1, <2>4, ThreadFacts
    <3>2. ~Runnable(k, c)
      BY <1>1, <3>1
    <3>3. k.sema[c] = NULL
      BY <1>1, <2>1, <3>1 DEF Orderly
    <3> QED
      BY <1>7, <3>1, <3>2, <3>3 DEF Runnable, CanUnblock, OS_is_blocked
  <2> QED
    BY <1>2, <2>1, <2>3, <2>4, ThreadFacts
<1>12. /\ r.sema = [x.sema EXCEPT ![c] = NULL]
       /\ r.count = IF x.sema[c] # NULL
                    THEN [x.count EXCEPT ![x.sema[c]] = @ - 1] ELSE x.count
  BY <1>9, ScheduleReleases
<1>13. /\ r.ready = x.ready /\ r.delayed = x.delayed
       /\ r.timeout = x.timeout /\ r.fault = NoFault
  BY <1>8, <1>9, ScheduleFields
<1>14. Orderly(x, next)
  <2>1. \A t \in Threads : Holds(x, next, t) <=> Holds(k, at, t)
    BY <1>2, <1>7 DEF Holds
  <2> QED
    BY <1>1, <1>2, <1>7, <2>1 DEF Orderly
<1>15. Orderly(r, next)
  BY <1>9, <1>14, ScheduleIsOrderly
<1>16. Good(r, {}) /\ Highest(r)
  BY <1>6, <1>8, ScheduleCall, ScheduleChoosesHighest
<1> HIDE DEF r, c
<1>17. Punctual(r, next)
  <2>1. r.count[sema_test] = 0
    <3>1. x.count \in [Semas -> Int] /\ x.sema[c] = sema_test
      BY <1>5, <1>7, <1>9, <1>11 DEF KernelState
    <3>2. r.count = [x.count EXCEPT ![sema_test] = @ - 1]
      BY <1>12, <3>1, ThreadFacts
    <3> QED
      BY <1>10, <3>1, <3>2, ThreadFacts
  <2>2. SignalWasGiven(r, next)
    BY <1>1, <1>2, <1>6, <1>13 DEF SignalWasGiven
  <2> QED
    BY <1>4, <1>6, <1>13, <2>1, <2>2 DEF Punctual, SameDelays
<1> QED
  BY <1>6, <1>13, <1>15, <1>16, <1>17 DEF Settled, Fine, r, next

\* What a delay of d ticks is for, when thread p then makes its call number j:
\* the threads of the mutex stay in their sections or out of them, and those
\* of the semaphore rest for as long as they do.
Rests(at, p, d, j) ==
    /\ d \in Delays /\ j \in Nat
    /\ p \in {mutex_one, mutex_two} => (at[p] \in {2, 3} <=> j \in {2, 3})
    /\ p \in {sema_red, sema_test_signal} => at[p] = 2 /\ j = 1
    /\ p = sema_red => d = 5 * SECOND
    /\ p = sema_test_signal => d = 15 * SECOND

\* sema_red's delay begins while sema_test_signal is about to rest, for longer.
LEMMA DelaySettles ==
    ASSUME NEW k, NEW at, NEW p, NEW d, NEW j,
           Working(k, at, p), Rests(at, p, d, j)
    PROVE  Settled(OS_delay(k, p, d), [at EXCEPT ![p] = j])
<1> DEFINE next == [at EXCEPT ![p] = j]
<1>1. /\ k \in KernelState /\ p \in Threads /\ p \in Regular
      /\ k.next = p /\ p \in k.ready /\ p \notin k.delayed
      /\ k.sema[p] = NULL /\ k.mutex[p] = NULL /\ k.list = Threads
      /\ Consistent(k) /\ Orderly(k, at) /\ Punctual(k, at)
      /\ \A t \in k.ready : t > p => ~Runnable(k, t)
  BY WorkingIsClean
<1>2. /\ \A t \in Regular : next[t] = IF t = p THEN j ELSE at[t]
      /\ {mutex_one, mutex_two, sema_red, sema_test_signal} \subseteq Regular
  BY ThreadFacts DEF Working
<1> HIDE DEF next
<1>3. PICK x : /\ OS_delay(k, p, d) = OS_schedule(x)
               /\ Good(x, {}) /\ x.curr = p /\ SameResources(k, x)
               /\ x.fault = NoFault /\ ThreadDelayed(k, p, d, x)
  BY <1>1, DelayBegins DEF Working, Rests
<1>4. /\ x.sema = k.sema /\ x.mutex = k.mutex
      /\ x.count = k.count /\ x.owner = k.owner
  BY <1>3 DEF SameResources
<1>5. /\ x.ready = k.ready \ {p} /\ x.delayed = k.delayed \cup {p}
      /\ \A t \in Threads : x.timeout[t] = IF t = p THEN d ELSE k.timeout[t]
  <2>1. k.timeout \in [Threads -> Int]
    BY <1>1 DEF KernelState
  <2> QED
    BY <1>1, <1>3, <2>1 DEF ThreadDelayed
<1>6. Orderly(x, next)
  <2>1. \A t \in Threads : Holds(x, next, t) <=> Holds(k, at, t)
    BY <1>1, <1>2, <1>4 DEF Holds, Rests
  <2> QED
    BY <1>1, <1>2, <1>4, <2>1, ThreadFacts DEF Orderly
<1>7. Punctual(x, next)
  <2>1. sema_red # sema_test_signal /\ sema_red > sema_test_signal
    BY ThreadFacts
  <2>2. CASE p = sema_red
    <3>1. SignalWasGiven(k, at)
      BY <1>1, <2>2 DEF Punctual, Rests
    <3>2. SignalWasGiven(x, next)
      BY <1>2, <1>5, <2>1, <2>2, <3>1 DEF SignalWasGiven
    <3> QED
      BY <1>1, <1>2, <1>4, <1>5, <2>2, <3>2, Numbers DEF Punctual, Rests
  <2>3. CASE p = sema_test_signal
    <3>1. ~(at[sema_red] = 2 /\ k.sema[sema_red] = NULL)
      <4> SUFFICES ASSUME at[sema_red] = 2, k.sema[sema_red] = NULL PROVE FALSE
        OBVIOUS
      <4>1. sema_red \in k.ready
        BY <1>1, <1>2, ThreadFacts DEF Punctual, Consistent
      <4>2. k.mutex[sema_red] = NULL
        BY <1>1, ThreadFacts DEF Orderly
      <4>3. Runnable(k, sema_red)
        BY <4>2 DEF Runnable, OS_is_blocked
      <4> QED
        BY <1>1, <2>1, <2>3, <4>1, <4>3
    <3>2. ASSUME sema_red \in k.delayed
          PROVE  /\ sema_test_signal \in x.delayed
                 /\ x.timeout[sema_red] < x.timeout[sema_test_signal]
      <4>1. k.timeout[sema_red] <= 5 * SECOND /\ k.timeout[sema_red] \in Int
        BY <1>1, <3>2, ThreadFacts DEF Punctual, KernelState
      <4>2. /\ x.timeout[sema_red] = k.timeout[sema_red]
            /\ x.timeout[sema_test_signal] = 15 * SECOND
        BY <1>1, <1>5, <2>1, <2>3, ThreadFacts DEF Rests
      <4> QED
        BY <1>5, <2>3, <4>1, <4>2, Numbers
    <3> QED
      BY <1>1, <1>2, <1>4, <1>5, <2>1, <2>3, <3>1, <3>2, ThreadFacts
         DEF Punctual
  <2>4. CASE p \notin {sema_red, sema_test_signal}
    <3>1. SignalWasGiven(x, next) <=> SignalWasGiven(k, at)
      BY <1>2, <1>5, <2>4 DEF SignalWasGiven
    <3> QED
      BY <1>1, <1>2, <1>4, <1>5, <2>4, <3>1, ThreadFacts DEF Punctual
  <2> QED
    BY <2>2, <2>3, <2>4
<1>8. Fine(x, next)
  BY <1>3, <1>6, <1>7 DEF Fine
<1> QED
  BY <1>3, <1>8, ScheduleSettles DEF next

-----------------------------------------------------------------------------
(* The loops.                                                              *)

\* The calls of each loop.
LEMMA Loops ==
    /\ Loop[mutex_one] = <<Acquire_call, Delay_call(10 * SECOND),
                           Release_call, Delay_call(SECOND \div 2)>>
    /\ Loop[mutex_two] = <<Acquire_call, Delay_call(3 * SECOND),
                           Release_call>>
    /\ Loop[sema_red] = <<Wait_call, Delay_call(5 * SECOND)>>
    /\ Loop[sema_test_signal] = <<Signal_call, Delay_call(15 * SECOND)>>
    /\ Loop[blinky_blue] = <<Delay_call(3 * SECOND), Delay_call(1 * SECOND)>>
    /\ Loop[encoder_monitor] = <<Delay_call(SECOND)>>
    /\ Loop[one_second_print] = <<Delay_call(2 * SECOND)>>
BY ThreadFacts
   DEF Loop, blinky_blue, sema_test_signal, sema_red, mutex_two, mutex_one,
       encoder_monitor, one_second_print

\* What each call does.
LEMMA CallsMade ==
    ASSUME NEW k, NEW p
    PROVE  /\ Called(k, p, Acquire_call) = J_Mutex_acquire(k, p, mutex_test)
           /\ Called(k, p, Release_call) = J_Mutex_release(k, p, mutex_test)
           /\ Called(k, p, Wait_call) = J_sema_wait(k, p, sema_test)
           /\ Called(k, p, Signal_call) = J_sema_signal(k, sema_test)
           /\ \A d : Called(k, p, Delay_call(d)) = OS_delay(k, p, d)
BY DEF Called, Acquire_call, Release_call, Wait_call, Signal_call, Delay_call

\* The call after the one numbered i in the loop of p.
Following(p, i) == IF i = Len(Loop[p]) THEN 1 ELSE i + 1

\* What a round of p's loop has to come to.
RoundEndsWell(k, at, p) ==
    /\ Following(p, at[p]) \in 1 .. Len(Loop[p])
    /\ Settled(Called(k, p, Loop[p][at[p]]),
               [at EXCEPT ![p] = Following(p, at[p])])

\* A delay for a time of the program, made by a thread that waits for nobody.
LEMMA PlainDelay ==
    ASSUME NEW k, NEW at, NEW p, NEW d \in Delays, NEW j \in Nat,
           Working(k, at, p),
           p \notin {sema_red, sema_test_signal},
           p \in {mutex_one, mutex_two} => (at[p] \in {2, 3} <=> j \in {2, 3})
    PROVE  Settled(OS_delay(k, p, d), [at EXCEPT ![p] = j])
BY DelaySettles DEF Rests

\* The two threads of the mutex.
LEMMA MutexRound ==
    ASSUME NEW k, NEW at, NEW p \in {mutex_one, mutex_two},
           Working(k, at, p), at[p] \in 1 .. Len(Loop[p])
    PROVE  RoundEndsWell(k, at, p)
<1>1. /\ \/ p = mutex_one /\ Len(Loop[p]) = 4
         \/ p = mutex_two /\ Len(Loop[p]) = 3
      /\ Loop[p][1] = Acquire_call /\ Loop[p][3] = Release_call
  <2>1. CASE p = mutex_one
    BY <2>1, Loops
  <2>2. CASE p = mutex_two
    BY <2>2, Loops
  <2> QED
    BY <2>1, <2>2
<1>2. /\ Loop[p][2] \in {Delay_call(10 * SECOND), Delay_call(3 * SECOND)}
      /\ p = mutex_one => Loop[p][4] = Delay_call(SECOND \div 2)
  BY Loops
<1>3. p \notin {sema_red, sema_test_signal} /\ mutex_one # mutex_two
  BY ThreadFacts
<1>4. CASE at[p] = 1
  <2>1. Following(p, at[p]) = 2 /\ 2 \in 1 .. Len(Loop[p])
    BY <1>1, <1>4 DEF Following
  <2>2. Called(k, p, Loop[p][at[p]]) = J_Mutex_acquire(k, p, mutex_test)
    BY <1>1, <1>4, CallsMade
  <2>3. Settled(J_Mutex_acquire(k, p, mutex_test), [at EXCEPT ![p] = 2])
    BY <1>4, AcquireSettles
  <2> QED
    BY <2>1, <2>2, <2>3 DEF RoundEndsWell
<1>5. CASE at[p] = 2
  <2>1. Following(p, at[p]) = 3 /\ 3 \in 1 .. Len(Loop[p])
    BY <1>1, <1>5 DEF Following
  <2>2. PICK d \in Delays : Loop[p][2] = Delay_call(d)
    BY <1>2, DelaysOfDemo
  <2>3. Called(k, p, Loop[p][at[p]]) = OS_delay(k, p, d)
    BY <1>5, <2>2, CallsMade
  <2>4. Settled(OS_delay(k, p, d), [at EXCEPT ![p] = 3])
    BY <1>3, <1>5, PlainDelay
  <2> QED
    BY <2>1, <2>3, <2>4 DEF RoundEndsWell
<1>6. CASE at[p] = 3
  <2>1. /\ Following(p, at[p]) \in {1, 4}
        /\ Following(p, at[p]) \in 1 .. Len(Loop[p])
    BY <1>1, <1>6 DEF Following
  <2>2. Called(k, p, Loop[p][at[p]]) = J_Mutex_release(k, p, mutex_test)
    BY <1>1, <1>6, CallsMade
  <2>3. \A j \in {1, 4} :
          Settled(J_Mutex_release(k, p, mutex_test), [at EXCEPT ![p] = j])
    BY <1>6, ReleaseSettles
  <2> QED
    BY <2>1, <2>2, <2>3 DEF RoundEndsWell
<1>7. CASE at[p] \notin {1, 2, 3}
  <2>1. p = mutex_one /\ at[p] = 4 /\ Len(Loop[p]) = 4
    <3> DEFINE i == at[p]  n == Len(Loop[p])
    <3>1. i \in 1 .. n /\ i \notin {1, 2, 3}
      BY <1>7
    <3>2. (p = mutex_one /\ n = 4) \/ n = 3
      BY <1>1
    <3> HIDE DEF i, n
    <3>3. p = mutex_one /\ n = 4 /\ i = 4
      BY <3>1, <3>2
    <3> QED
      BY <3>3 DEF i, n
  <2>2. Following(p, at[p]) = 1 /\ 1 \in 1 .. Len(Loop[p])
    BY <2>1 DEF Following
  <2>3. Called(k, p, Loop[p][at[p]]) = OS_delay(k, p, SECOND \div 2)
    BY <1>2, <2>1, CallsMade
  <2>4. Settled(OS_delay(k, p, SECOND \div 2), [at EXCEPT ![p] = 1])
    BY <1>3, <2>1, DelaysOfDemo, PlainDelay
  <2> QED
    BY <2>2, <2>3, <2>4 DEF RoundEndsWell
<1> QED
  BY <1>4, <1>5, <1>6, <1>7

\* The thread that waits for the signals.
LEMMA WaiterRound ==
    ASSUME NEW k, NEW at, Working(k, at, sema_red),
           at[sema_red] \in 1 .. Len(Loop[sema_red])
    PROVE  RoundEndsWell(k, at, sema_red)
<1>1. /\ Len(Loop[sema_red]) = 2 /\ Loop[sema_red][1] = Wait_call
      /\ Loop[sema_red][2] = Delay_call(5 * SECOND)
  BY Loops
<1>2. CASE at[sema_red] = 1
  <2>1. Following(sema_red, at[sema_red]) = 2 /\ 2 \in 1 .. Len(Loop[sema_red])
    BY <1>1, <1>2 DEF Following
  <2> QED
    BY <1>1, <1>2, <2>1, WaitSettles, CallsMade DEF RoundEndsWell
<1>3. CASE at[sema_red] = 2
  <2>1. Following(sema_red, at[sema_red]) = 1 /\ 1 \in 1 .. Len(Loop[sema_red])
    BY <1>1, <1>3 DEF Following
  <2>2. Rests(at, sema_red, 5 * SECOND, 1)
    BY <1>3, DelaysOfDemo, ThreadFacts DEF Rests
  <2>3. Called(k, sema_red, Loop[sema_red][at[sema_red]])
          = OS_delay(k, sema_red, 5 * SECOND)
    BY <1>1, <1>3, CallsMade
  <2>4. Settled(OS_delay(k, sema_red, 5 * SECOND), [at EXCEPT ![sema_red] = 1])
    BY <2>2, DelaySettles
  <2> QED
    BY <2>1, <2>3, <2>4 DEF RoundEndsWell
<1> QED
  BY <1>1, <1>2, <1>3

\* The thread that gives them.
LEMMA SignalerRound ==
    ASSUME NEW k, NEW at, Working(k, at, sema_test_signal),
           at[sema_test_signal] \in 1 .. Len(Loop[sema_test_signal])
    PROVE  RoundEndsWell(k, at, sema_test_signal)
<1> DEFINE p == sema_test_signal
<1>1. /\ Len(Loop[p]) = 2 /\ Loop[p][1] = Signal_call
      /\ Loop[p][2] = Delay_call(15 * SECOND)
  BY Loops
<1>2. CASE at[p] = 1
  <2>1. Following(p, at[p]) = 2 /\ 2 \in 1 .. Len(Loop[p])
    BY <1>1, <1>2 DEF Following
  <2> QED
    BY <1>1, <1>2, <2>1, SignalSettles, CallsMade DEF RoundEndsWell
<1>3. CASE at[p] = 2
  <2>1. Following(p, at[p]) = 1 /\ 1 \in 1 .. Len(Loop[p])
    BY <1>1, <1>3 DEF Following
  <2>2. Rests(at, p, 15 * SECOND, 1)
    BY <1>3, DelaysOfDemo, ThreadFacts DEF Rests
  <2>3. Called(k, p, Loop[p][at[p]]) = OS_delay(k, p, 15 * SECOND)
    BY <1>1, <1>3, CallsMade
  <2>4. Settled(OS_delay(k, p, 15 * SECOND), [at EXCEPT ![p] = 1])
    BY <2>2, DelaySettles
  <2> QED
    BY <2>1, <2>3, <2>4 DEF RoundEndsWell
<1> QED
  BY <1>1, <1>2, <1>3

\* The threads that only delay.
LEMMA DelayerRound ==
    ASSUME NEW k, NEW at,
           NEW p \in {blinky_blue, encoder_monitor, one_second_print},
           Working(k, at, p), at[p] \in 1 .. Len(Loop[p])
    PROVE  RoundEndsWell(k, at, p)
<1>1. p \notin {sema_red, sema_test_signal, mutex_one, mutex_two}
  BY DEF blinky_blue, encoder_monitor, one_second_print, sema_red,
         sema_test_signal, mutex_one, mutex_two
<1>2. \E d \in Delays : Loop[p][at[p]] = Delay_call(d)
  <2>1. 1 * SECOND = SECOND
    BY Numbers
  <2>2. CASE p = blinky_blue
    <3>1. at[p] = 1 \/ at[p] = 2
      BY <2>2, Loops
    <3> QED
      BY <2>2, <3>1, Loops, DelaysOfDemo
  <2>3. CASE p \in {encoder_monitor, one_second_print}
    <3>1. Len(Loop[p]) = 1
      <4>1. Len(Loop[encoder_monitor]) = 1 /\ Len(Loop[one_second_print]) = 1
        BY Loops
      <4> QED
        BY <2>3, <4>1
    <3>2. at[p] = 1
      BY <3>1
    <3> QED
      BY <2>1, <2>3, <3>2, Loops, DelaysOfDemo
  <2> QED
    BY <2>2, <2>3
<1>3. Following(p, at[p]) \in 1 .. Len(Loop[p]) /\ Following(p, at[p]) \in Nat
  <2>1. Len(Loop[p]) \in Nat
    BY Loops
  <2> QED
    BY <2>1 DEF Following
<1>4. PICK d \in Delays : Loop[p][at[p]] = Delay_call(d)
  BY <1>2
<1>5. Called(k, p, Loop[p][at[p]]) = OS_delay(k, p, d)
  BY <1>4, CallsMade
<1>6. Settled(OS_delay(k, p, d), [at EXCEPT ![p] = Following(p, at[p])])
  BY <1>1, <1>3, PlainDelay
<1> QED
  BY <1>3, <1>5, <1>6 DEF RoundEndsWell

\* Every thread's round ends well.
LEMMA EveryRound ==
    ASSUME NEW k, NEW at, NEW p, Working(k, at, p),
           at[p] \in 1 .. Len(Loop[p])
    PROVE  RoundEndsWell(k, at, p)
<1>1. \/ p \in {mutex_one, mutex_two}
      \/ p = sema_red \/ p = sema_test_signal
      \/ p \in {blinky_blue, encoder_monitor, one_second_print}
  BY ThreadFacts DEF Working
<1>2. CASE p \in {mutex_one, mutex_two}
  BY <1>2, MutexRound
<1>3. CASE p = sema_red
  BY <1>3, WaiterRound
<1>4. CASE p = sema_test_signal
  BY <1>4, SignalerRound
<1>5. CASE p \in {blinky_blue, encoder_monitor, one_second_print}
  BY <1>5, DelayerRound
<1> QED
  BY <1>1, <1>2, <1>3, <1>4, <1>5

-----------------------------------------------------------------------------
(* The tick and the events.                                                *)

\* The tick lets sema_red and sema_test_signal come closer to their ends
\* together, once both rest; before that only sema_red comes closer.
LEMMA TickIsFine ==
    ASSUME NEW k, NEW at, Fine(k, at)
    PROVE  Fine(OS_tick(k), at) /\ OS_tick(k).free = k.free
<1> DEFINE due == {p \in k.delayed : k.timeout[p] = 1}
           left == [p \in Threads |-> IF p \in k.delayed
                                      THEN k.timeout[p] - 1 ELSE k.timeout[p]]
           x == OS_tick(k)
<1>1. /\ k \in KernelState /\ Consistent(k) /\ k.fault = NoFault
      /\ Orderly(k, at) /\ Punctual(k, at)
  BY DEF Fine, Good
<1>2. \A p \in k.delayed : k.timeout[p] # 0 /\ p \in Threads
  BY <1>1, DelaysOfDemo DEF Consistent, WaitsWell, KernelState, Threads
<1>3. x = [k EXCEPT !.timeout = left, !.ready = k.ready \cup due,
                    !.delayed = k.delayed \ due]
  BY <1>1, <1>2 DEF OS_tick, J_ASSERT, KernelState
<1> HIDE DEF x
<1>4. /\ x.ready = k.ready \cup due /\ x.delayed = k.delayed \ due
      /\ x.timeout = left /\ x.sema = k.sema /\ x.mutex = k.mutex
      /\ x.count = k.count /\ x.owner = k.owner /\ x.free = k.free
      /\ x.fault = k.fault
  <2> HIDE DEF left, due
  <2> QED
    BY <1>1, <1>3 DEF KernelState
<1>5. Good(x, {})
  BY <1>1, TickGood DEF Fine, x
<1>6. Orderly(x, at)
  BY <1>1, <1>4 DEF Orderly, Holds
<1>7. Punctual(x, at)
  <2>1. SignalWasGiven(k, at) => SignalWasGiven(x, at)
    BY <1>4 DEF SignalWasGiven
  <2>2. ASSUME sema_red \in x.delayed
        PROVE  /\ at[sema_red] = 1
               /\ x.timeout[sema_red] <= 5 * SECOND
               /\ \/ SignalWasGiven(x, at)
                  \/ /\ sema_test_signal \in x.delayed
                     /\ x.timeout[sema_red] < x.timeout[sema_test_signal]
    <3>1. sema_red \in k.delayed
      BY <1>4, <2>2
    <3>2. /\ k.timeout[sema_red] <= 5 * SECOND /\ at[sema_red] = 1
          /\ \/ SignalWasGiven(k, at)
             \/ /\ sema_test_signal \in k.delayed
                /\ k.timeout[sema_red] < k.timeout[sema_test_signal]
      BY <1>1, <3>1 DEF Punctual
    <3>3. /\ k.timeout[sema_red] \in Int /\ k.timeout[sema_red] >= 0
          /\ k.timeout[sema_red] # 0 /\ k.timeout[sema_test_signal] \in Int
          /\ SECOND \in Nat
      BY <1>1, <1>2, <3>1, ThreadFacts, Numbers DEF KernelState, Consistent
    <3>4. x.timeout[sema_red] = k.timeout[sema_red] - 1
      BY <1>2, <1>4, <3>1
    <3>5. x.timeout[sema_red] <= 5 * SECOND
      <4> HIDE DEF due, left
      <4> QED
        BY <3>2, <3>3, <3>4
    <3>6. CASE SignalWasGiven(k, at)
      BY <2>1, <3>2, <3>5, <3>6
    <3>7. CASE /\ sema_test_signal \in k.delayed
               /\ k.timeout[sema_red] < k.timeout[sema_test_signal]
      <4>1. x.timeout[sema_test_signal] = k.timeout[sema_test_signal] - 1
        BY <1>2, <1>4, <3>7
      <4>2. sema_test_signal \notin due
        BY <3>3, <3>7
      <4> HIDE DEF due, left
      <4> QED
        BY <1>4, <3>2, <3>3, <3>4, <3>5, <3>7, <4>1, <4>2
    <3> QED
      BY <3>2, <3>6, <3>7
  <2> QED
    BY <1>1, <1>4, <2>1, <2>2 DEF Punctual
<1> QED
  BY <1>1, <1>4, <1>5, <1>6, <1>7 DEF Fine, x

\* A post needs a place in the queue, and takes it.
LEMMA PostIsFine ==
    ASSUME NEW k, NEW at, Fine(k, at), k.free[bsp_eqt] > 0
    PROVE  /\ Fine(OS_EQT_post(k, bsp_eqt), at)
           /\ OS_EQT_post(k, bsp_eqt).free[bsp_eqt] = k.free[bsp_eqt] - 1
<1> DEFINE q == bsp_eqt
           x == J_EventQueue_put(k, q)
           y == OS_schedule(x)
           r == OS_EQT_post(k, q)
<1>1. q \in EQTs /\ k.fault = NoFault /\ k \in KernelState
  BY Numbers DEF Fine, Good
<1>2. /\ Good(x, {q}) /\ SameResources(k, x) /\ SameDelays(k, x)
      /\ x.fault = NoFault
      /\ x.free = [k.free EXCEPT ![q] = @ - 1]
  BY <1>1, PutGood DEF Fine
<1>3. r = [y EXCEPT !.ready = @ \cup {q}]
  BY DEF OS_EQT_post, OS_set_EQT_to_ready
<1>4. Good(r, {})
  BY <1>1, PostGood DEF Fine
<1> HIDE DEF x, r
<1>5. x \in KernelState /\ Consistent(x)
  BY <1>2 DEF Good
<1>6. Orderly(x, at) /\ Punctual(x, at)
  BY <1>2 DEF Fine, Orderly, Holds, Punctual, SignalWasGiven, SameResources,
              SameDelays
<1>7. /\ y \in KernelState /\ Orderly(y, at) /\ Punctual(y, at)
      /\ y.free = x.free /\ y.fault = NoFault
  BY <1>2, <1>5, <1>6, ScheduleIsOrderly, ScheduleIsPunctual, ScheduleFields
<1> HIDE DEF y
<1>8. /\ r.ready = y.ready \cup {q} /\ r.delayed = y.delayed
      /\ r.timeout = y.timeout /\ r.sema = y.sema /\ r.mutex = y.mutex
      /\ r.count = y.count /\ r.owner = y.owner /\ r.free = y.free
      /\ r.fault = y.fault
  BY <1>3, <1>7 DEF KernelState
<1>9. Orderly(r, at) /\ Punctual(r, at)
  BY <1>7, <1>8 DEF Orderly, Holds, Punctual, SignalWasGiven
<1>10. x.free[q] = k.free[q] - 1
  BY <1>1, <1>2 DEF KernelState
<1> QED
  BY <1>4, <1>7, <1>8, <1>9, <1>10 DEF Fine, r

\* A put into a full queue fails, and after a failure nothing else does.
LEMMA FailedPut ==
    ASSUME NEW k \in KernelState, NEW q \in EQTs
    PROVE  LET x == J_EventQueue_put(k, q)
           IN  /\ x \in KernelState
               /\ x.fault = IF k.fault # NoFault \/ k.free[q] > 0
                            THEN k.fault ELSE "event queue full"
<1> DEFINE frees == [k.free EXCEPT ![q] = @ - 1]
           a == J_ASSERT(k, k.free[q] > 0, "event queue full")
           x == [a EXCEPT !.free = frees]
<1>1. frees \in [EQTs -> Int]
  BY DEF KernelState
<1>2. /\ a \in KernelState /\ a.free = k.free
      /\ a.fault = IF k.fault # NoFault \/ k.free[q] > 0
                   THEN k.fault ELSE "event queue full"
  BY DEF J_ASSERT, KernelState, Faults, ClientFaults
<1>3. J_EventQueue_put(k, q) = x
  BY <1>2 DEF J_EventQueue_put
<1> HIDE DEF a, frees
<1>4. x \in KernelState /\ x.fault = a.fault
  BY <1>1, <1>2 DEF KernelState
<1> QED
  BY <1>2, <1>3, <1>4

\* The rest of the post keeps the failure.
LEMMA FailedPost ==
    ASSUME NEW k,
           J_EventQueue_put(k, bsp_eqt) \in KernelState,
           J_EventQueue_put(k, bsp_eqt).fault # NoFault
    PROVE  /\ OS_EQT_post(k, BSP_EQT_thread) \in KernelState
           /\ OS_EQT_post(k, BSP_EQT_thread).fault
                = J_EventQueue_put(k, bsp_eqt).fault
<1> DEFINE x == J_EventQueue_put(k, bsp_eqt)
           y == OS_schedule(x)
           r == [y EXCEPT !.ready = @ \cup {bsp_eqt}]
<1>1. y \in KernelState /\ y.fault = x.fault
  BY ScheduleFields
<1>2. OS_EQT_post(k, BSP_EQT_thread) = r
  BY Numbers DEF OS_EQT_post, OS_set_EQT_to_ready
<1>3. bsp_eqt \in 1 .. NPrio
  BY DemoAssumption DEF DemoAssumption, bsp_eqt
<1> HIDE DEF x, y
<1>4. r \in KernelState /\ r.fault = y.fault
  BY <1>1, <1>3 DEF KernelState
<1> QED
  BY <1>1, <1>2, <1>4 DEF x

\* While a tick posts: all is fine and at most n events wait, or the queue was
\* too small for n.
Posting(k, at, n) ==
    /\ k \in KernelState
    /\ \/ Fine(k, at) /\ Queued(k, n)
       \/ k.fault = "event queue full" /\ QueueSize < n

\* A post that the tick may leave out.
LEMMA PostIfAddsOne ==
    ASSUME NEW k, NEW at, NEW n \in Int, Posting(k, at, n),
           NEW happened \in BOOLEAN
    PROVE  Posting(PostIf(k, happened), at, n + 1)
<1> DEFINE x == J_EventQueue_put(k, bsp_eqt)
           y == OS_schedule(x)
           r == OS_EQT_post(k, bsp_eqt)
<1>1. bsp_eqt \in EQTs /\ QueueSize \in Int /\ k \in KernelState
  BY Numbers DEF Posting
<1>2. k.free[bsp_eqt] \in Int
  BY <1>1 DEF KernelState
<1>3. CASE happened = FALSE
  <2>1. PostIf(k, happened) = k
    BY <1>3 DEF PostIf
  <2>2. (Queued(k, n) => Queued(k, n + 1))
        /\ (QueueSize < n => QueueSize < n + 1)
    BY <1>1, <1>2 DEF Queued
  <2> QED
    BY <2>1, <2>2 DEF Posting
<1>4. CASE happened = TRUE /\ Fine(k, at) /\ Queued(k, n) /\ k.free[bsp_eqt] > 0
  <2>1. Fine(r, at) /\ r.free[bsp_eqt] = k.free[bsp_eqt] - 1
    BY <1>4, PostIsFine
  <2>2. PostIf(k, happened) = r
    BY <1>4, Numbers DEF PostIf
  <2> HIDE DEF r
  <2>3. Queued(r, n + 1)
    BY <1>1, <1>2, <1>4, <2>1 DEF Queued
  <2> QED
    BY <2>1, <2>2, <2>3 DEF Posting, Fine, Good
<1>5. CASE happened = TRUE /\ k.fault # NoFault /\ k.fault = "event queue full"
           /\ QueueSize < n
  <2>1. x \in KernelState /\ x.fault = k.fault
    BY <1>1, <1>5, FailedPut
  <2>2. PostIf(k, happened) \in KernelState
        /\ PostIf(k, happened).fault = k.fault
    BY <1>5, <2>1, FailedPost DEF PostIf
  <2>3. QueueSize < n
    BY <1>5
  <2>4. QueueSize < n + 1
    BY <1>1, <2>3
  <2> QED
    BY <1>5, <2>2, <2>4 DEF Posting
<1>6. CASE happened = TRUE /\ Fine(k, at) /\ Queued(k, n)
           /\ ~(k.free[bsp_eqt] > 0)
  <2>1. x \in KernelState /\ x.fault = "event queue full"
    BY <1>1, <1>6, FailedPut DEF Fine
  <2>2. PostIf(k, happened) \in KernelState
        /\ PostIf(k, happened).fault = "event queue full"
    BY <1>6, <2>1, FailedPost DEF PostIf, NoFault
  <2>3. QueueSize < n + 1
    BY <1>1, <1>2, <1>6 DEF Queued
  <2> QED
    BY <2>2, <2>3 DEF Posting
<1> QED
  BY <1>3, <1>4, <1>5, <1>6 DEF Posting, NoFault

\* When a thread below bsp_eqt runs, every event was handled.
LEMMA LowerIsQuiet ==
    ASSUME NEW k, NEW at, Settled(k, at), k.next \in 0 .. bsp_eqt - 1
    PROVE  k.free[bsp_eqt] = QueueSize
<1>1. /\ k \in KernelState /\ Consistent(k) /\ EQTsReadyBut(k, {})
      /\ k.list = Threads
  BY DEF Settled, Fine, Good
<1>2. /\ bsp_eqt \in EQTs /\ bsp_eqt \in Threads /\ bsp_eqt > k.next
      /\ k.next # NULL
  BY Numbers, ThreadFacts DEF bsp_eqt
<1>3. bsp_eqt \notin k.ready
  <2>1. bsp_eqt \in k.ready => ~Runnable(k, bsp_eqt)
    BY <1>2, Zenon DEF Settled, Highest
  <2> QED
    BY <1>1, <1>2, <2>1 DEF Consistent, WaitsWell, Runnable
<1> QED
  BY <1>1, <1>2, <1>3 DEF EQTsReadyBut

-----------------------------------------------------------------------------
(* The program uses the kernel as the kernel's specification allows.       *)

\* Each entry of a loop is one of the calls, and a delay is one that the
\* kernel was told of.
LEMMA CallOfRound ==
    ASSUME NEW p \in Regular, NEW i \in 1 .. Len(Loop[p])
    PROVE  LET call == Loop[p][i]
           IN  \/ call \in {Acquire_call, Release_call, Wait_call, Signal_call}
               \/ \E d \in Delays : call = Delay_call(d)
<1>1. 1 * SECOND = SECOND
  BY Numbers
<1>2. CASE p = mutex_one
  <2>1. i = 1 \/ i = 2 \/ i = 3 \/ i = 4
    BY <1>2, Loops
  <2> QED
    BY <1>2, <2>1, Loops, DelaysOfDemo
<1>3. CASE p = mutex_two
  <2>1. i = 1 \/ i = 2 \/ i = 3
    BY <1>3, Loops
  <2> QED
    BY <1>3, <2>1, Loops, DelaysOfDemo
<1>4. CASE p \in {sema_red, sema_test_signal, blinky_blue}
  <2>1. /\ Len(Loop[sema_red]) = 2 /\ Len(Loop[sema_test_signal]) = 2
        /\ Len(Loop[blinky_blue]) = 2
    BY Loops
  <2>2. Len(Loop[p]) = 2
    BY <1>4, <2>1
  <2>3. i = 1 \/ i = 2
    BY <2>2
  <2> QED
    BY <1>1, <1>4, <2>3, Loops, DelaysOfDemo
<1>5. CASE p \in {encoder_monitor, one_second_print}
  <2>1. Len(Loop[encoder_monitor]) = 1 /\ Len(Loop[one_second_print]) = 1
    BY Loops
  <2>2. Len(Loop[p]) = 1
    BY <1>5, <2>1
  <2>3. i = 1
    BY <2>2
  <2> QED
    BY <1>1, <1>5, <2>3, Loops, DelaysOfDemo
<1> QED
  BY <1>2, <1>3, <1>4, <1>5, ThreadFacts

\* No call of a thread posts an event or takes one.
LEMMA CallsKeepQueues ==
    ASSUME NEW k, NEW p \in Regular, Active(k, p), NEW call,
           \/ call \in {Acquire_call, Release_call, Wait_call, Signal_call}
           \/ \E d \in Delays : call = Delay_call(d)
    PROVE  Called(k, p, call).free = k.free
<1>1. /\ sema_test \in Semas /\ mutex_test \in Mutexes
      /\ k \in KernelState /\ Good(k, {})
  BY ThreadFacts DEF Active, Good
<1>2. CASE call = Acquire_call
  <2>1. CASE k.owner[mutex_test] = NULL
    <3> DEFINE owners == [k.owner EXCEPT ![mutex_test] = p]
               a == J_ASSERT(k, k.owner[mutex_test] # p, "mutex acquired twice")
    <3>1. a \in KernelState /\ a.free = k.free
      BY <1>1 DEF J_ASSERT, KernelState, Faults, ClientFaults
    <3>2. Called(k, p, call) = [a EXCEPT !.owner = owners]
      <4>1. a.owner = k.owner
        BY <1>1 DEF J_ASSERT, KernelState
      <4> QED
        BY <1>2, <2>1, <4>1, CallsMade DEF J_Mutex_acquire
    <3> HIDE DEF a, owners
    <3> QED
      BY <3>1, <3>2 DEF KernelState
  <2>2. CASE k.owner[mutex_test] # NULL
    <3>1. PICK x : /\ J_Mutex_acquire(k, p, mutex_test) = OS_schedule(x)
                   /\ Good(x, {}) /\ x.free = k.free
      BY <1>1, <2>2, AcquireBlocks
    <3> QED
      BY <1>2, <3>1, CallsMade, ScheduleCall
  <2> QED
    BY <2>1, <2>2
<1>3. CASE call = Release_call
  <2>1. PICK x : /\ J_Mutex_release(k, p, mutex_test)
                       = OS_schedule(OS_schedule(x))
                 /\ Good(x, {}) /\ x.free = k.free
    BY <1>1, ReleaseBegins
  <2>2. Good(OS_schedule(x), {}) /\ OS_schedule(x).free = k.free
    BY <2>1, ScheduleCall
  <2>3. OS_schedule(OS_schedule(x)).free = k.free
    BY <2>2, ScheduleCall
  <2> QED
    BY <1>3, <2>1, <2>3, CallsMade
<1>4. CASE call = Wait_call
  <2>1. CASE k.count[sema_test] > 0
    <3> DEFINE counts == [k.count EXCEPT ![sema_test] = @ - 1]
    <3>1. Called(k, p, call) = [k EXCEPT !.count = counts]
      BY <1>4, <2>1, CallsMade DEF J_sema_wait
    <3> HIDE DEF counts
    <3> QED
      BY <1>1, <3>1 DEF KernelState
  <2>2. CASE ~(k.count[sema_test] > 0)
    <3>1. PICK x : /\ J_sema_wait(k, p, sema_test) = OS_schedule(x)
                   /\ Good(x, {}) /\ x.free = k.free
      BY <1>1, <2>2, WaitBlocks
    <3> QED
      BY <1>4, <3>1, CallsMade, ScheduleCall
  <2> QED
    BY <2>1, <2>2
<1>5. CASE call = Signal_call
  <2>1. PICK x : /\ J_sema_signal(k, sema_test) = OS_schedule(x)
                 /\ Good(x, {}) /\ x.free = k.free
    BY <1>1, SignalBegins
  <2> QED
    BY <1>5, <2>1, CallsMade, ScheduleCall
<1>6. CASE \E d \in Delays : call = Delay_call(d)
  <2>1. PICK d \in Delays : call = Delay_call(d)
    BY <1>6
  <2>2. PICK x : /\ OS_delay(k, p, d) = OS_schedule(x)
                 /\ Good(x, {}) /\ x.free = k.free
    BY DelayBegins
  <2>3. Called(k, p, call) = OS_schedule(x)
    BY <2>1, <2>2, CallsMade
  <2> QED
    BY <2>2, <2>3, ScheduleCall
<1>7. \/ call = Acquire_call \/ call = Release_call
      \/ call = Wait_call \/ call = Signal_call
      \/ \E d \in Delays : call = Delay_call(d)
  OBVIOUS
<1> QED
  BY <1>2, <1>3, <1>4, <1>5, <1>6, <1>7, Zenon

\* The round of a thread is a call of the kernel.
LEMMA RoundIsACall ==
    ASSUME NEW p \in Regular, Round(p), pc[p] \in 1 .. Len(Loop[p])
    PROVE  ThreadStep(p)
<1> DEFINE call == Loop[p][pc[p]]
<1>1. Running(p) /\ Commit(Called(Kernel, p, call))
  BY DEF Round
<1>2. \/ call \in {Acquire_call, Release_call, Wait_call, Signal_call}
      \/ \E d \in Delays : call = Delay_call(d)
  BY CallOfRound
<1>3. sema_test \in Semas /\ mutex_test \in Mutexes
  BY ThreadFacts
<1> HIDE DEF call
<1>4. CASE call = Acquire_call
  BY <1>1, <1>3, <1>4, CallsMade DEF ThreadStep, Acquire
<1>5. CASE call = Release_call
  BY <1>1, <1>3, <1>5, CallsMade DEF ThreadStep, Release
<1>6. CASE call = Wait_call
  BY <1>1, <1>3, <1>6, CallsMade DEF ThreadStep, Wait
<1>7. CASE call = Signal_call
  BY <1>1, <1>3, <1>7, CallsMade DEF ThreadStep, Signal
<1>8. CASE \E d \in Delays : call = Delay_call(d)
  <2>1. PICK d \in Delays : call = Delay_call(d)
    BY <1>8
  <2> QED
    BY <1>1, <2>1, CallsMade DEF ThreadStep, Delay
<1> QED
  BY <1>2, <1>4, <1>5, <1>6, <1>7, <1>8

\* Each step of the program is one of the kernel, or none.
LEMMA StepIsAKernelStep ==
    ASSUME \A p \in Regular : pc[p] \in 1 .. Len(Loop[p]), [DemoNext]_demo_vars
    PROVE  [Next]_vars
<1>1. CASE Boot \/ Switch \/ IdleTick \/ BusyTick \/ Reset
  BY <1>1 DEF Next, Switch, IdleTick, BusyTick, Reset
<1>2. ASSUME NEW p \in Regular, Round(p) PROVE Next
  BY <1>2, RoundIsACall DEF Next
<1>3. ASSUME NEW q \in EQTs, HandleEvent(q) PROVE Next
  <2>1. OS_EventQueue_pump(q)
    BY <1>3 DEF HandleEvent, OS_EventQueue_pump, HandlerOutcomes
  <2> QED
    BY <2>1 DEF Next
<1>4. CASE UNCHANGED demo_vars
  BY <1>4 DEF demo_vars
<1> QED
  BY <1>1, <1>2, <1>3, <1>4 DEF DemoNext

-----------------------------------------------------------------------------
(* The steps of the program.                                               *)

\* The next calls stay in the loops.
PlacesAreGood(at) ==
    /\ at \in [Regular -> Nat]
    /\ \A p \in Regular : at[p] \in 1 .. Len(Loop[p])

\* A step that commits a state in which all is settled keeps the invariant.
LEMMA CommitSettled ==
    ASSUME DemoInv, IInv', NEW r, Settled(r, pc'), Commit(r),
           PlacesAreGood(pc'), behind' \in Nat, Queued(r, Posted(behind'))
    PROVE  DemoInv'
<1>1. r \in KernelState /\ r.fault = NoFault /\ r.list = Threads
  BY DEF Settled, Fine, Good
<1>2. Kernel' = r /\ fault' = NoFault
  BY <1>1, CommitFacts DEF DemoInv, IInv
<1>3. OS_thread_list' = Threads
  BY <1>1, <1>2 DEF Kernel
<1>4. /\ Orderly(Kernel', pc') /\ Punctual(Kernel', pc') /\ Highest(Kernel')
      /\ Queued(Kernel', Posted(behind'))
  BY <1>2 DEF Settled, Fine
<1>5. \A q \in EQTs : q \notin OS_thread_list' => capacity'[q] = QueueSize
  BY <1>3, ThreadFacts
<1> QED
  BY <1>2, <1>4, <1>5 DEF DemoInv, PlacesAreGood

\* Fields that two snapshots share make them equally orderly.
LEMMA SameOrder ==
    ASSUME NEW k, NEW x, NEW at,
           x.next = k.next, x.ready = k.ready, x.delayed = k.delayed,
           x.timeout = k.timeout, SameResources(k, x),
           Orderly(k, at), Punctual(k, at), Highest(k)
    PROVE  Orderly(x, at) /\ Punctual(x, at) /\ Highest(x)
BY DEF Orderly, Holds, Punctual, SignalWasGiven, Highest, Runnable,
       CanUnblock, OS_is_blocked, SameResources

\* A step that overflows the queue changes nothing in the kernel.
LEMMA CommitFailed ==
    ASSUME DemoInv, IInv', NEW r, Commit(r), r.fault = "event queue full",
           UNCHANGED pc, behind' \in Nat, QueueSize < Posted(behind'),
           Queued(Kernel, Posted(behind'))
    PROVE  DemoInv'
<1>1. /\ OS_thread_list' = OS_thread_list /\ OS_next' = OS_next
      /\ OS_ready_set' = OS_ready_set /\ OS_delayed_set' = OS_delayed_set
      /\ timeout' = timeout /\ blocking_sema' = blocking_sema
      /\ blocking_mutex' = blocking_mutex /\ count' = count
      /\ owned_by' = owned_by /\ capacity' = capacity
      /\ fault' = "event queue full"
  BY DEF Commit, Assign, Kernel, NoFault
<1> DEFINE k == Kernel
           x == Kernel'
<1>2. /\ x.next = k.next /\ x.ready = k.ready /\ x.delayed = k.delayed
      /\ x.timeout = k.timeout /\ SameResources(k, x) /\ x.free = k.free
  BY <1>1 DEF Kernel, SameResources
<1>3. Orderly(k, pc) /\ Punctual(k, pc) /\ Highest(k)
  BY DEF DemoInv
<1> HIDE DEF k, x
<1>4. Orderly(x, pc) /\ Punctual(x, pc) /\ Highest(x)
  BY <1>2, <1>3, SameOrder
<1>5. Queued(x, Posted(behind'))
  BY <1>2 DEF Queued, k
<1> QED
  BY <1>1, <1>4, <1>5 DEF DemoInv, x

\* Once the tick is enabled, all is settled between any two steps.
LEMMA InvIsSettled ==
    ASSUME DemoInv, systick, fault = NoFault
    PROVE  Settled(Kernel, pc)
BY KernelIsGood DEF DemoInv, Settled, Fine

\* A round of a thread.
LEMMA RoundKeepsInv ==
    ASSUME DemoInv, IInv', NEW p \in Regular, Round(p)
    PROVE  DemoInv'
<1> DEFINE r == Called(Kernel, p, Loop[p][pc[p]])
           i == Following(p, pc[p])
<1>1. /\ Running(p) /\ Commit(r) /\ pc' = [pc EXCEPT ![p] = i]
      /\ behind' = behind /\ fault = NoFault
  <2>1. pc' = [pc EXCEPT ![p] = IF pc[p] = Len(Loop[p]) THEN 1 ELSE pc[p] + 1]
    BY DEF Round
  <2> QED
    BY <2>1 DEF Round, Following, Running
<1>2. p \in 1 .. NPrio
  BY DEF Regular
<1>3. Active(Kernel, p) /\ systick
  BY <1>1, <1>2, RunningIsActive DEF DemoInv
<1>4. Working(Kernel, pc, p)
  BY <1>1, <1>3, InvIsSettled DEF Working, DemoInv
<1>5. i \in 1 .. Len(Loop[p]) /\ Settled(r, pc')
  BY <1>1, <1>4, EveryRound DEF DemoInv, RoundEndsWell
<1>6. r.free = Kernel.free
  BY <1>3, CallOfRound, CallsKeepQueues DEF DemoInv
<1> HIDE DEF r, i
<1>7. behind' \in Nat /\ Queued(r, Posted(behind'))
  BY <1>1, <1>6 DEF DemoInv, Queued
<1>8. PlacesAreGood(pc')
  <2>1. Len(Loop[p]) \in Nat
    BY <1>4, Loops, ThreadFacts
  <2>2. i \in Nat
    BY <1>5, <2>1
  <2> QED
    BY <1>1, <1>5, <2>2 DEF DemoInv, PlacesAreGood
<1> QED
  BY <1>1, <1>5, <1>7, <1>8, CommitSettled

\* What the queue holds before a tick, so that three more are still no more
\* than the ticks account for: none when a thread below bsp_eqt runs.
LEMMA TickIsCounted ==
    ASSUME DemoInv, IdleTick \/ BusyTick
    PROVE  /\ behind' \in Nat
           /\ Queued(Kernel, Posted(behind'))
           /\ \E n \in Int : Queued(Kernel, n) /\ n + 3 <= Posted(behind')
<1>1. systick /\ fault = NoFault
  BY DEF IdleTick, BusyTick, SysTick_Handler, Tick
<1>2. Settled(Kernel, pc)
  BY <1>1, InvIsSettled
<1>3. behind \in Nat /\ Queued(Kernel, Posted(behind)) /\ QueueSize \in Nat
  BY Numbers DEF DemoInv
<1>4. Running(0) => LowerRuns
  BY DEF LowerRuns, bsp_eqt
<1>5. CASE LowerRuns
  <2>1. behind' = 1
    BY <1>5 DEF IdleTick, BusyTick
  <2>2. PICK p \in 0 .. bsp_eqt - 1 : Running(p)
    BY <1>5 DEF LowerRuns
  <2>3. p # NULL
    BY ThreadFacts, <2>2 DEF bsp_eqt
  <2>4. Kernel.next = p
    BY <2>2, <2>3 DEF Running, DemoInv, IInv, Scheduled, Kernel
  <2>5. Kernel.free[bsp_eqt] = QueueSize
    BY <1>2, <2>4, LowerIsQuiet
  <2>6. Queued(Kernel, 0) /\ Queued(Kernel, Posted(1)) /\ 0 + 3 <= Posted(1)
    <3>1. QueueSize - QueueSize = 0
      BY <1>3
    <3> QED
      BY <2>5, <3>1 DEF Queued, Posted
  <2> QED
    BY <2>1, <2>6
<1>6. CASE ~LowerRuns
  <2>1. behind' = behind + 1
    BY <1>4, <1>6 DEF IdleTick, BusyTick
  <2>2. /\ behind' \in Nat /\ Posted(behind) \in Int
        /\ Posted(behind) + 3 <= Posted(behind')
    BY <1>3, <2>1 DEF Posted
  <2>3. Queued(Kernel, Posted(behind'))
    <3>1. Kernel.free[bsp_eqt] \in Int
      BY Numbers DEF DemoInv, IInv, KernelState
    <3> QED
      BY <1>3, <2>1, <3>1 DEF Queued, Posted
  <2> QED
    BY <1>3, <2>2, <2>3
<1> QED
  BY <1>5, <1>6

\* A tick: it posts at most three events, and overflows the queue only when
\* bsp_eqt is far enough behind.
LEMMA TickKeepsInv ==
    ASSUME DemoInv, IInv', IdleTick \/ BusyTick
    PROVE  DemoInv'
<1>1. SysTick_Handler /\ pc' = pc
  BY DEF IdleTick, BusyTick
<1>2. systick /\ fault = NoFault
  BY <1>1 DEF SysTick_Handler, Tick
<1>3. Settled(Kernel, pc) /\ Fine(Kernel, pc)
  BY <1>2, InvIsSettled DEF Settled
<1>4. behind' \in Nat /\ Queued(Kernel, Posted(behind'))
  BY TickIsCounted
<1>5. PICK n \in Int : Queued(Kernel, n) /\ n + 3 <= Posted(behind')
  BY TickIsCounted
<1>6. PICK switch1, switch2, knob \in BOOLEAN :
        Commit(OS_schedule(PostIf(PostIf(PostIf(OS_tick(Kernel), switch1),
                                         switch2), knob)))
  BY <1>1 DEF SysTick_Handler, Tick
<1> DEFINE ticked == OS_tick(Kernel)
           first  == PostIf(ticked, switch1)
           second == PostIf(first, switch2)
           third  == PostIf(second, knob)
           r      == OS_schedule(third)
           m      == Posted(behind')
<1>7. Posting(ticked, pc, n)
  BY <1>3, <1>5, TickIsFine DEF Posting, Fine, Good, Queued
<1>8. Commit(r)
  BY <1>6
<1>9. m \in Int /\ n + 3 <= m /\ QueueSize \in Int
  <2>1. behind' \in Nat => Posted(behind') \in Int
    BY DEF Posted
  <2> QED
    BY <1>4, <1>5, <2>1, Numbers
<1>10. /\ n + 1 \in Int /\ n + 2 \in Int
      /\ (n + 1) + 1 = n + 2 /\ (n + 2) + 1 = n + 3
  BY <1>5
<1> HIDE DEF ticked, m
<1>11. Posting(first, pc, n + 1)
  BY <1>7, PostIfAddsOne
<1> HIDE DEF first
<1>12. Posting(second, pc, n + 2)
  <2>1. Posting(second, pc, (n + 1) + 1)
    BY <1>10, <1>11, PostIfAddsOne
  <2> QED
    BY <1>10, <2>1
<1> HIDE DEF second
<1>13. Posting(third, pc, n + 3)
  <2>1. Posting(third, pc, (n + 2) + 1)
    BY <1>10, <1>12, PostIfAddsOne
  <2> QED
    BY <1>10, <2>1
<1> HIDE DEF third
<1>14. PlacesAreGood(pc')
  BY <1>1 DEF DemoInv, PlacesAreGood
<1>15. r.fault = third.fault \/ third.fault = NoFault
  BY <1>13, ScheduleFields DEF Posting
<1>16. third \in KernelState /\ r.free = third.free
  BY <1>13, ScheduleFields DEF Posting
<1>17. CASE Fine(third, pc) /\ Queued(third, n + 3)
  <2>1. Settled(r, pc)
    BY <1>17, ScheduleSettles
  <2>2. Queued(r, m)
    <3>1. third.free[bsp_eqt] \in Int
      BY <1>16, Numbers DEF KernelState
    <3> HIDE DEF r
    <3> QED
      BY <1>9, <1>16, <1>17, <3>1 DEF Queued
  <2> HIDE DEF r
  <2> QED
    BY <1>1, <1>4, <1>8, <1>14, <2>1, <2>2, CommitSettled DEF m
<1>18. CASE third.fault = "event queue full" /\ QueueSize < n + 3
  <2>1. r.fault = "event queue full"
    BY <1>15, <1>18 DEF NoFault
  <2>2. QueueSize < m
    <3>1. QueueSize < n + 3
      BY <1>18
    <3> QED
      BY <1>9, <3>1
  <2> HIDE DEF r
  <2> QED
    BY <1>1, <1>4, <1>8, <2>1, <2>2, CommitFailed DEF m
<1> QED
  BY <1>13, <1>17, <1>18 DEF Posting

\* A round of an EQT.  Its handler makes no call, so what was settled stays so.
LEMMA PumpKeepsInv ==
    ASSUME DemoInv, IInv', NEW q \in EQTs, HandleEvent(q)
    PROVE  DemoInv'
<1> DEFINE k == Kernel
           g == J_EventQueue_get(k, q)
           r == UnreadyIfEmpty(g, q)
<1>1. /\ Running(q) /\ Commit(r) /\ pc' = pc /\ behind' = behind
      /\ fault = NoFault
  BY DEF HandleEvent, Running
<1>2. q \in 1 .. NPrio
  BY KernelAssumption DEF KernelAssumption
<1>3. Active(k, q) /\ systick
  BY <1>1, <1>2, RunningIsActive DEF DemoInv
<1>4. Settled(k, pc) /\ k.next = q
  BY <1>1, <1>3, InvIsSettled, ActiveIsClean
<1>5. /\ Good(g, {q}) /\ g.fault = NoFault /\ g.next = q
      /\ SameResources(k, g) /\ SameDelays(k, g)
      /\ g.free = [k.free EXCEPT ![q] = @ + 1] /\ k \in KernelState
  BY <1>3, GetGood DEF Active, Good
<1>6. Good(r, {})
  <2>1. g \in HandlerOutcomes(g)
    BY DEF HandlerOutcomes
  <2> QED
    BY <1>3, <2>1, PumpGood
<1> HIDE DEF k, g
<1>7. Orderly(g, pc) /\ Punctual(g, pc)
  BY <1>4, <1>5 DEF Settled, Fine, Orderly, Holds, Punctual, SignalWasGiven,
                    SameResources, SameDelays
<1>8. Settled(r, pc) /\ r.free = g.free
  <2>1. CASE g.free[q] = QueueSize
    <3>1. PICK x : /\ r = OS_schedule(x)
                   /\ Good(x, {}) /\ x.ready = g.ready \ {q}
                   /\ SameResources(g, x) /\ x.fault = g.fault
                   /\ x.delayed = g.delayed /\ x.timeout = g.timeout
                   /\ x.free = g.free
      BY <1>5, <2>1, UnreadyBegins
    <3>2. q # sema_test_signal
      BY ThreadFacts DEF Regular
    <3>3. Orderly(x, pc) /\ Punctual(x, pc)
      BY <1>7, <3>1, <3>2 DEF Orderly, Holds, Punctual, SignalWasGiven,
                              SameResources
    <3>4. Fine(x, pc)
      BY <1>5, <3>1, <3>3 DEF Fine
    <3> QED
      BY <3>1, <3>4, ScheduleSettles, ScheduleCall
  <2>2. CASE g.free[q] # QueueSize
    <3>1. r = g
      BY <2>2 DEF UnreadyIfEmpty, J_EventQueue_isEmpty
    <3>2. Highest(g)
      BY <1>4, <1>5 DEF Settled, Highest, Runnable, CanUnblock, OS_is_blocked,
                        SameResources, SameDelays
    <3> QED
      BY <1>5, <1>6, <1>7, <3>1, <3>2 DEF Settled, Fine
  <2> QED
    BY <2>1, <2>2
<1>9. behind' \in Nat /\ Queued(r, Posted(behind'))
  <2>1. /\ k.free[bsp_eqt] \in Int /\ bsp_eqt \in EQTs
        /\ Queued(k, Posted(behind)) /\ behind \in Nat /\ QueueSize \in Int
    BY <1>5, Numbers DEF KernelState, DemoInv, k
  <2>2. \/ r.free[bsp_eqt] = k.free[bsp_eqt]
        \/ r.free[bsp_eqt] = k.free[bsp_eqt] + 1
    BY <1>5, <1>8, <2>1 DEF KernelState
  <2> HIDE DEF r
  <2> QED
    BY <1>1, <2>1, <2>2 DEF Queued, Posted
<1> HIDE DEF r
<1>10. PlacesAreGood(pc')
  BY <1>1 DEF DemoInv, PlacesAreGood
<1> QED
  BY <1>1, <1>8, <1>9, <1>10, CommitSettled

\* A step of main(): the queue of an EQT is empty until it is started.
LEMMA BootKeepsInv ==
    ASSUME DemoInv, IInv', Boot, UNCHANGED <<pc, behind>>
    PROVE  DemoInv'
<1> DEFINE k == Kernel
           Started(p) ==
             [Kernel EXCEPT !.list = @ \cup {p}, !.ready = @ \cup {p}]
<1>1. /\ k \in KernelState /\ k.fault = NoFault /\ fault = NoFault
      /\ Orderly(k, pc) /\ Punctual(k, pc) /\ Highest(k)
      /\ ~systick => k.next = NULL
      /\ k.list = OS_thread_list /\ k.free = capacity
  BY DEF DemoInv, IInv, BootInv, Kernel, Boot, OS_Thread_start,
         OS_EventQueue_Thread_start, OS_onStartup, OS_run, Booting
<1>2. ASSUME NEW x \in KernelState, Commit(x), x.fault = NoFault, ~systick,
             k.list \subseteq x.list, k.ready \subseteq x.ready,
             x.next = k.next, x.delayed = k.delayed, x.timeout = k.timeout,
             SameResources(k, x),
             \A q \in EQTs : q \notin x.list => x.free[q] = k.free[q],
             Queued(x, Posted(behind))
      PROVE  DemoInv'
  <2>1. Kernel' = x /\ fault' = NoFault
    BY <1>1, <1>2, CommitFacts
  <2>2. OS_thread_list' = x.list /\ capacity' = x.free
    BY <2>1 DEF Kernel
  <2> HIDE DEF k
  <2>3. Orderly(x, pc) /\ Punctual(x, pc) /\ Highest(x)
    BY <1>1, <1>2 DEF Orderly, Holds, Punctual, SignalWasGiven, Highest,
                      SameResources
  <2>4. \A q \in EQTs : q \notin OS_thread_list' => capacity'[q] = QueueSize
    BY <1>1, <1>2, <2>2 DEF DemoInv
  <2> QED
    BY <1>2, <2>1, <2>3, <2>4 DEF DemoInv
<1>3. ASSUME NEW p \in 1 .. NPrio
      PROVE  LET x == Started(p)
             IN  /\ x \in KernelState /\ x.list = k.list \cup {p}
                 /\ x.ready = k.ready \cup {p} /\ x.next = k.next
                 /\ x.delayed = k.delayed /\ x.timeout = k.timeout
                 /\ SameResources(k, x) /\ x.free = k.free
                 /\ x.fault = NoFault
  <2>1. p \in Threads
    BY DEF Threads
  <2> QED
    BY <1>1, <2>1 DEF KernelState, SameResources
<1>4. ASSUME NEW p \in Regular, OS_Thread_start(p) PROVE DemoInv'
  <2>1. p \in 1 .. NPrio
    BY DEF Regular
  <2>2. Commit(Started(p)) /\ ~systick
    BY <1>4 DEF OS_Thread_start
  <2> DEFINE x == Started(p)
  <2>3. /\ x \in KernelState /\ x.list = k.list \cup {p}
        /\ x.ready = k.ready \cup {p} /\ x.next = k.next
        /\ x.delayed = k.delayed /\ x.timeout = k.timeout
        /\ SameResources(k, x) /\ x.free = k.free /\ x.fault = NoFault
        /\ Commit(x) /\ Queued(x, Posted(behind))
    BY <1>3, <2>1, <2>2 DEF DemoInv, Queued
  <2> HIDE DEF x, k
  <2> QED
    BY <1>2, <2>2, <2>3
<1>5. ASSUME NEW q \in EQTs, OS_EventQueue_Thread_start(q) PROVE DemoInv'
  <2>1. q \in 1 .. NPrio
    BY KernelAssumption DEF KernelAssumption
  <2> DEFINE x == Started(q)
             frees == [x.free EXCEPT ![q] = @ - 1]
             y == [x EXCEPT !.free = frees]
  <2>2. Commit(J_EventQueue_put(x, q)) /\ ~systick /\ q \notin OS_thread_list
    BY <1>5 DEF OS_EventQueue_Thread_start
  <2>3. /\ x \in KernelState /\ x.list = k.list \cup {q}
        /\ x.ready = k.ready \cup {q} /\ x.next = k.next
        /\ x.delayed = k.delayed /\ x.timeout = k.timeout
        /\ SameResources(k, x) /\ x.free = k.free /\ x.fault = NoFault
    BY <1>3, <2>1
  <2> HIDE DEF x, k
  <2>4. x.free[q] > 0
    BY <1>1, <2>2, <2>3, Numbers DEF DemoInv
  <2>5. J_EventQueue_put(x, q) = y
    BY <2>3, <2>4 DEF J_EventQueue_put, J_ASSERT, KernelState
  <2>6. /\ frees \in [EQTs -> Int]
        /\ \A e \in EQTs : e # q => frees[e] = x.free[e]
    BY <2>3 DEF KernelState
  <2>7. /\ y \in KernelState /\ y.list = x.list /\ y.ready = x.ready
        /\ y.next = x.next /\ y.delayed = x.delayed /\ y.timeout = x.timeout
        /\ SameResources(x, y) /\ y.free = frees /\ y.fault = NoFault
    <3> HIDE DEF frees
    <3> QED
      BY <2>3, <2>6 DEF KernelState, SameResources
  <2> HIDE DEF y, frees
  <2>8. /\ SameResources(k, y) /\ Commit(y)
        /\ \A e \in EQTs : e \notin y.list => y.free[e] = k.free[e]
    BY <2>2, <2>3, <2>5, <2>6, <2>7 DEF SameResources
  <2>9. Queued(y, Posted(behind))
    <3>1. /\ k.free[q] = QueueSize /\ QueueSize \in Int /\ bsp_eqt \in EQTs
          /\ behind \in Nat /\ Queued(k, Posted(behind))
      BY <1>1, <2>2, Numbers DEF DemoInv, k
    <3>2. IF q = bsp_eqt THEN frees[bsp_eqt] = QueueSize - 1
                         ELSE frees[bsp_eqt] = k.free[bsp_eqt]
      BY <2>3, <3>1 DEF frees, KernelState
    <3> QED
      BY <2>7, <3>1, <3>2 DEF Queued, Posted
  <2> QED
    BY <1>2, <2>2, <2>3, <2>7, <2>8, <2>9
<1>6. CASE OS_onStartup
  <2>1. Kernel' = Kernel /\ OS_thread_list' = OS_thread_list
    BY <1>6 DEF OS_onStartup, Kernel
  <2>2. fault' = NoFault /\ capacity' = capacity
    BY <1>1, <1>6 DEF OS_onStartup
  <2> QED
    BY <2>1, <2>2 DEF DemoInv
<1>7. CASE OS_run
  <2>1. systick /\ Commit(OS_schedule(k))
    BY <1>7 DEF OS_run
  <2>2. /\ Settled(OS_schedule(k), pc)
        /\ Queued(OS_schedule(k), Posted(behind))
    BY <1>1, <2>1, InvIsSettled, ScheduleSettles, ScheduleFields
       DEF Settled, Queued, DemoInv
  <2>3. PlacesAreGood(pc') /\ behind' \in Nat
    BY DEF DemoInv, PlacesAreGood
  <2> HIDE DEF k
  <2> QED
    BY <2>1, <2>2, <2>3, CommitSettled
<1> QED
  BY <1>4, <1>5, <1>6, <1>7 DEF Boot

\* The switch to another thread.  One below bsp_eqt was chosen only because
\* bsp_eqt has no events.
LEMMA SwitchKeepsInv ==
    ASSUME DemoInv, IInv', Switch
    PROVE  DemoInv'
<1>1. /\ OS_thread_list' = OS_thread_list /\ OS_next' = OS_next
      /\ OS_ready_set' = OS_ready_set /\ OS_delayed_set' = OS_delayed_set
      /\ timeout' = timeout /\ blocking_sema' = blocking_sema
      /\ blocking_mutex' = blocking_mutex /\ count' = count
      /\ owned_by' = owned_by /\ capacity' = capacity /\ fault' = NoFault
      /\ pc' = pc /\ pendsv /\ fault = NoFault
  BY DEF Switch, PendSV_Handler, Commit, Assign, Kernel
<1> DEFINE k == Kernel
           x == Kernel'
<1>2. /\ x.list = k.list /\ x.next = k.next /\ x.ready = k.ready
      /\ x.delayed = k.delayed /\ x.timeout = k.timeout
      /\ SameResources(k, x) /\ x.free = k.free
  BY <1>1 DEF Kernel, SameResources
<1>3. Orderly(k, pc) /\ Punctual(k, pc) /\ Highest(k)
  BY DEF DemoInv
<1>4. behind' \in Nat /\ Queued(k, Posted(behind'))
  <2>1. CASE OS_next < bsp_eqt
    <3>1. OS_next \in 0 .. bsp_eqt - 1
      <4>1. OS_next \in Threads
        BY <1>1 DEF DemoInv, IInv, Scheduled, KernelState, Kernel
      <4> QED
        BY <2>1, <4>1, ThreadFacts DEF bsp_eqt
    <3>2. systick
      BY <1>1 DEF DemoInv, IInv, BootInv
    <3>3. Settled(k, pc) /\ k.next \in 0 .. bsp_eqt - 1
      BY <1>1, <3>1, <3>2, InvIsSettled DEF Kernel
    <3>4. k.free[bsp_eqt] = QueueSize
      BY <3>3, LowerIsQuiet
    <3>5. behind' = 0
      BY <2>1 DEF Switch
    <3>6. QueueSize - QueueSize <= Posted(0)
      BY Numbers DEF Posted
    <3> QED
      BY <3>4, <3>5, <3>6 DEF Queued
  <2>2. CASE ~(OS_next < bsp_eqt)
    BY <2>2 DEF Switch, DemoInv
  <2> QED
    BY <2>1, <2>2
<1> HIDE DEF k, x
<1>5. Orderly(x, pc) /\ Punctual(x, pc) /\ Highest(x)
  BY <1>2, <1>3, SameOrder
<1>6. Queued(x, Posted(behind'))
  BY <1>2, <1>4 DEF Queued
<1> QED
  BY <1>1, <1>4, <1>5, <1>6 DEF DemoInv, x

\* The invariant holds at power-on.
LEMMA DemoInitInv == DemoInit => DemoInv
<1> SUFFICES ASSUME DemoInit PROVE DemoInv
  OBVIOUS
<1>1. /\ IInv /\ fault = NoFault /\ pc = [p \in Regular |-> 1]
      /\ behind = 0
  BY InitInv DEF DemoInit, Init
<1>2. PlacesAreGood(pc)
  <2> DEFINE Size(p) == Len(Loop[p])
  <2>1. /\ Size(mutex_one) = 4 /\ Size(mutex_two) = 3 /\ Size(sema_red) = 2
        /\ Size(sema_test_signal) = 2 /\ Size(blinky_blue) = 2
        /\ Size(encoder_monitor) = 1 /\ Size(one_second_print) = 1
    BY Loops
  <2> HIDE DEF Size
  <2>2. \A p \in Regular : 1 \in 1 .. Size(p)
    BY <2>1, ThreadFacts
  <2> QED
    BY <1>1, <2>2 DEF PlacesAreGood, Size
<1>3. /\ OS_next = NULL /\ OS_delayed_set = {}
      /\ blocking_sema = [p \in Threads |-> NULL]
      /\ blocking_mutex = [p \in Threads |-> NULL]
      /\ count = [s \in Semas |-> InitCount]
      /\ owned_by = [m \in Mutexes |-> NULL]
      /\ capacity = [q \in EQTs |-> QueueSize]
  BY DEF DemoInit, Init, PowerOn
<1>4. Orderly(Kernel, pc)
  BY <1>1, <1>3, ThreadFacts DEF Orderly, Holds, Kernel
<1>5. Punctual(Kernel, pc)
  BY <1>1, <1>3, Numbers, ThreadFacts DEF Punctual, Kernel
<1>6. Highest(Kernel)
  BY <1>3 DEF Highest, Kernel
<1>7. Queued(Kernel, Posted(behind))
  <2>1. Kernel.free[bsp_eqt] = QueueSize
    BY <1>3, Numbers DEF Kernel
  <2> QED
    BY <1>1, <2>1, Numbers DEF Queued, Posted
<1> QED
  BY <1>1, <1>2, <1>3, <1>4, <1>5, <1>6, <1>7 DEF DemoInv, PlacesAreGood

\* After the reset everything is as it was at power-on.
LEMMA ResetKeepsInv == Reset => DemoInv'
<1>1. Reset => DemoInit'
  BY DEF Reset, J_on_assert_failed, Assign, PowerOn, DemoInit, Init
<1> QED
  BY <1>1, DemoInitInv, PTL

\* Every step of the program keeps it.
LEMMA DemoNextInv == DemoInv /\ [DemoNext]_demo_vars => DemoInv'
<1> SUFFICES ASSUME DemoInv, [DemoNext]_demo_vars PROVE DemoInv'
  OBVIOUS
<1>1. IInv'
  BY StepIsAKernelStep, NextInv DEF DemoInv
<1>2. CASE Boot /\ UNCHANGED <<pc, behind, late>>
  BY <1>1, <1>2, BootKeepsInv
<1>3. CASE Switch
  BY <1>1, <1>3, SwitchKeepsInv
<1>4. CASE IdleTick \/ BusyTick
  BY <1>1, <1>4, TickKeepsInv
<1>5. ASSUME NEW p \in Regular, Round(p) PROVE DemoInv'
  BY <1>1, <1>5, RoundKeepsInv
<1>6. ASSUME NEW q \in EQTs, HandleEvent(q) PROVE DemoInv'
  BY <1>1, <1>6, PumpKeepsInv
<1>7. CASE Reset
  BY <1>7, ResetKeepsInv
<1>8. CASE UNCHANGED demo_vars
  <2>1. /\ Kernel' = Kernel /\ fault' = fault /\ pc' = pc
        /\ behind' = behind
    BY <1>8 DEF demo_vars, vars, Kernel
  <2>2. OS_thread_list' = OS_thread_list /\ capacity' = capacity
    BY <1>8 DEF demo_vars, vars
  <2> QED
    BY <1>1, <2>1, <2>2 DEF DemoInv
<1> QED
  BY <1>2, <1>3, <1>4, <1>5, <1>6, <1>7, <1>8 DEF DemoNext

\* DemoInv is an inductive invariant of the program.
THEOREM DemoInvariance == DemoSpec => []DemoInv
BY DemoInitInv, DemoNextInv, PTL DEF DemoSpec

\* The program is one of those that the kernel was specified for: what is
\* proved of the kernel by its steps holds while it runs.
THEOREM DemoRunsOnKernel == DemoSpec => Init /\ [][Next]_vars
<1>1. DemoInit => Init
  BY DEF DemoInit
<1>2. DemoInv /\ [DemoNext]_demo_vars => [Next]_vars
  BY StepIsAKernelStep DEF DemoInv
<1> QED
  BY <1>1, <1>2, DemoInvariance, PTL DEF DemoSpec

\* One assertion alone can fail in the program of main.c, that of a full queue,
\* and only after so many ticks without time for a thread below bsp_eqt that
\* three events in each fill it.  The program signals within the limit of the
\* semaphore, releases the mutex only as its owner and never takes it twice.
THEOREM ProgramFailsInBurstsOnly == DemoSpec => []OnlyBurstsFail
<1>1. DemoInv => OnlyBurstsFail
  <2> SUFFICES ASSUME DemoInv, fault # NoFault
               PROVE  fault = "event queue full" /\ 3 * behind >= QueueSize
    BY DEF OnlyBurstsFail
  <2>1. behind \in Nat /\ QueueSize \in Int /\ QueueSize < Posted(behind)
    BY Numbers DEF DemoInv
  <2>2. 3 * behind >= QueueSize
    BY <2>1 DEF Posted
  <2> QED
    BY <2>2 DEF DemoInv
<1> QED
  BY <1>1, DemoInvariance, PTL

\* The two threads of the mutex are never in its section together, although
\* mutex_two, of the lower priority, may sleep there when mutex_one comes.
THEOREM SectionsExclude ==
    DemoSpec => []~(InSection(mutex_one) /\ InSection(mutex_two))
<1>1. DemoInv => ~(InSection(mutex_one) /\ InSection(mutex_two))
  <2> SUFFICES ASSUME DemoInv, InSection(mutex_one), InSection(mutex_two)
               PROVE  FALSE
    OBVIOUS
  <2>1. /\ Holds(Kernel, pc, mutex_one) /\ Holds(Kernel, pc, mutex_two)
        /\ Orderly(Kernel, pc)
    BY DEF InSection, Holds, Kernel, DemoInv
  <2>2. /\ mutex_one \in Threads /\ mutex_two \in Threads
        /\ mutex_one # mutex_two
    BY ThreadFacts
  <2>3. /\ Kernel.owner[mutex_test] = mutex_one
        /\ Kernel.owner[mutex_test] = mutex_two
    BY <2>1, <2>2 DEF Orderly
  <2> QED
    BY <2>2, <2>3
<1> QED
  BY <1>1, DemoInvariance, PTL

\* The delays of the two threads of the semaphore keep the promise of their
\* comment, whatever the other threads do: no signal is left lying.
THEOREM SignalsNeverPileUp == DemoSpec => []SignalsDoNotPileUp
<1>1. DemoInv => SignalsDoNotPileUp
  <2>1. DemoInv => count[sema_test] = 0
    BY DEF DemoInv, Punctual, Kernel
  <2> QED
    BY <2>1 DEF SignalsDoNotPileUp
<1> QED
  BY <1>1, DemoInvariance, PTL

\* "Highest priority runs first" (jorgOS.c:291) is true of this program,
\* although the kernel does not promise it: its events are posted by the tick,
\* which chooses the next thread right after.
THEOREM HighestRunsInDemo == DemoSpec => []HighestPriorityRuns
<1>1. DemoInv => HighestPriorityRuns
  <2> SUFFICES ASSUME DemoInv, OS_curr # NULL, ~pendsv,
                      NEW p \in OS_ready_set, p > OS_curr
               PROVE  ~Runnable(Kernel, p)
    BY DEF HighestPriorityRuns
  <2>1. Kernel.curr = Kernel.next /\ Kernel.next # NULL
    BY DEF DemoInv, IInv, Scheduled, Kernel
  <2>2. Highest(Kernel) /\ p \in Kernel.ready /\ p > Kernel.next
    BY <2>1 DEF DemoInv, Kernel
  <2> QED
    BY <2>1, <2>2, Zenon DEF Highest
<1> QED
  BY <1>1, DemoInvariance, PTL

=============================================================================
