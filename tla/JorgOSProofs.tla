---------------------------- MODULE JorgOSProofs ----------------------------
(***************************************************************************)
(* Theorems about the kernel of module JorgOS, and that it implements      *)
(* module Resources.                                                       *)
(***************************************************************************)
EXTENDS JorgOS, TLAPS, WellFoundedInduction

-----------------------------------------------------------------------------
(* THREAD_WITH_HIGHEST_PRIORITY.                                           *)

\* A set of priorities that is not empty has a highest one.
LEMMA HighestExists ==
    ASSUME NEW S \in SUBSET (1 .. NPrio), S # {}
    PROVE  \E p \in S : \A q \in S : q <= p
<1> DEFINE T == {NPrio - p : p \in S}
<1>1. \A p \in S : NPrio - p \in Nat
  BY KernelAssumption DEF KernelAssumption
<1>2. T \subseteq Nat /\ T # {}
  BY <1>1
<1>3. PICK n \in T : \A m \in T : <<m, n>> \notin OpToRel(<, Nat)
  <2> HIDE DEF T
  <2> QED BY <1>2, NatLessThanWellFounded, WFMin
<1>4. ASSUME NEW m \in T PROVE n <= m
  <2>1. m \in Nat /\ n \in Nat
    BY <1>2
  <2>2. ~(m < n)
    BY <1>3, <2>1 DEF OpToRel
  <2> HIDE DEF T
  <2> QED
    BY <2>1, <2>2
<1>5. PICK p \in S : n = NPrio - p
  OBVIOUS
<1>6. ASSUME NEW q \in S PROVE q <= p
  <2>1. NPrio - p <= NPrio - q
    BY <1>4, <1>5
  <2> QED
    BY <2>1, KernelAssumption DEF KernelAssumption
<1> QED
  BY <1>6

\* THREAD_WITH_HIGHEST_PRIORITY returns a member that no member exceeds, or 0.
LEMMA HighestPriority ==
    ASSUME NEW S \in SUBSET (1 .. NPrio)
    PROVE  /\ THREAD_WITH_HIGHEST_PRIORITY(S) \in S \cup {0}
           /\ \A q \in S : q <= THREAD_WITH_HIGHEST_PRIORITY(S)
<1>1. CASE S = {}
  BY <1>1 DEF THREAD_WITH_HIGHEST_PRIORITY
<1>2. CASE S # {}
  <2>1. \E p \in S : \A q \in S : q <= p
    BY <1>2, HighestExists
  <2> QED
    BY <1>2, <2>1, Zenon DEF THREAD_WITH_HIGHEST_PRIORITY
<1> QED
  BY <1>1, <1>2

-----------------------------------------------------------------------------
(* The inductive invariant, stated of a snapshot k of the kernel.          *)

\* The shape of a snapshot.  Counters are integers here: a call whose
\* assertion fails computes a value that is out of range and then dropped.
KernelState ==
    [list: SUBSET Threads, curr: Threads \cup {NULL},
     next: Threads \cup {NULL}, ready: SUBSET (1 .. NPrio),
     delayed: SUBSET (1 .. NPrio), timeout: [Threads -> Int],
     sema: [Threads -> Semas \cup {NULL}],
     mutex: [Threads -> Mutexes \cup {NULL}], count: [Semas -> Int],
     owner: [Mutexes -> Threads \cup {NULL}], free: [EQTs -> Int],
     pendsv: BOOLEAN, fault: Faults]

\* What a thread waits for (compare OneReasonToWait).
WaitsWell(k, p) ==
    /\ k.sema[p] = NULL \/ k.mutex[p] = NULL
    /\ OS_is_blocked(k, p) => p \in k.ready /\ p \notin EQTs
    /\ p \in k.delayed => p \notin k.ready /\ p \notin EQTs
    /\ k.timeout[p] # 0 => p \in k.delayed
    /\ p \in k.delayed /\ k.timeout[p] = 0 => 0 \in Delays

\* What every call preserves, also between its inner calls: this is all that
\* OS_schedule needs of the state it is called in.
Consistent(k) ==
    /\ 0 \in k.list /\ k.ready \subseteq k.list /\ k.delayed \subseteq k.list
    /\ \A p \in Threads : k.timeout[p] >= 0
    /\ \A s \in Semas : k.count[s] >= 0 /\ k.count[s] <= MaxCount
    /\ \A q \in EQTs : k.free[q] >= 0 /\ k.free[q] <= QueueSize
    /\ \A p \in Threads : WaitsWell(k, p)
    /\ \A p \in Regular : p \in k.list => p \in k.ready \/ p \in k.delayed
    /\ \A m \in Mutexes : k.owner[m] # NULL => k.mutex[k.owner[m]] # m

\* What OS_schedule establishes.
Scheduled(k) ==
    /\ k.next # NULL /\ k.next # 0 =>
          k.next \in k.ready /\ ~OS_is_blocked(k, k.next)
    /\ k.next # NULL =>
          \A p \in k.ready : p \notin EQTs /\ p > k.next => ~Runnable(k, p)
    /\ k.curr # NULL /\ ~k.pendsv => k.curr = k.next
    /\ k.curr # NULL \/ k.pendsv => k.next # NULL

\* An EQT is ready exactly when it has events, except those in X.
EQTsReadyBut(k, X) ==
    \A q \in EQTs : q \in k.list /\ q \notin X =>
        (q \in k.ready <=> k.free[q] # QueueSize)

-----------------------------------------------------------------------------
(* OS_schedule.                                                            *)

\* The loop stops at a thread that can run, or at the idle thread, having
\* passed over no thread that can run.
LEMMA CandidateFacts ==
    ASSUME NEW k \in KernelState
    PROVE  /\ Candidate(k) \in Threads
           /\ Candidate(k) # NULL
           /\ Candidate(k) # 0 => Candidate(k) \in k.ready /\ Runnable(k, Candidate(k))
           /\ \A p \in k.ready : p > Candidate(k) => ~Runnable(k, p)
<1> DEFINE S == {p \in k.ready : Runnable(k, p)}
<1>1. S \in SUBSET (1 .. NPrio)
  BY DEF KernelState
<1>2. /\ Candidate(k) \in S \cup {0}
      /\ \A q \in S : q <= Candidate(k)
  <2> HIDE DEF S
  <2>1. Candidate(k) = THREAD_WITH_HIGHEST_PRIORITY(S)
    BY DEF Candidate, S
  <2> QED
    BY <1>1, <2>1, HighestPriority
<1>3. Candidate(k) \in Threads
  BY <1>1, <1>2, KernelAssumption DEF KernelAssumption, Threads
<1>4. Candidate(k) # NULL
  BY <1>3, KernelAssumption DEF KernelAssumption
<1>5. ASSUME NEW p \in k.ready, p > Candidate(k) PROVE ~Runnable(k, p)
  BY <1>2, <1>3, <1>5 DEF KernelState, Threads
<1> QED
  BY <1>2, <1>3, <1>4, <1>5

\* The assertions of the loop change nothing but the fault, and keep the
\* first one.
LEMMA ScanFacts ==
    ASSUME NEW k \in KernelState
    PROVE  /\ ScanAssertions(k) \in KernelState
           /\ ScanAssertions(k) = [k EXCEPT !.fault = ScanAssertions(k).fault]
           /\ k.fault # NoFault => ScanAssertions(k) = k
           /\ Consistent(k) => ScanAssertions(k) = k
<1>1. k.fault # NoFault => ScanAssertions(k) = k
  BY DEF ScanAssertions, J_ASSERT
<1>2. Consistent(k) => ScanAssertions(k) = k
  <2> SUFFICES ASSUME Consistent(k) PROVE ScanAssertions(k) = k
    OBVIOUS
  <2>1. Candidate(k) \in k.list /\ Scanned(k) \subseteq k.list
    BY CandidateFacts DEF Consistent, Scanned
  <2>2. \A p \in Scanned(k) : k.sema[p] = NULL \/ k.mutex[p] = NULL
    BY DEF Consistent, WaitsWell, Scanned, KernelState, Threads
  <2>3. \A p \in Scanned(k) : OS_is_blocked(k, p) => p \notin EQTs
    BY DEF Consistent, WaitsWell, Scanned, KernelState, Threads
  <2> QED
    BY <2>1, <2>2, <2>3 DEF ScanAssertions, J_ASSERT
<1>3. /\ ScanAssertions(k) \in KernelState
      /\ ScanAssertions(k) = [k EXCEPT !.fault = ScanAssertions(k).fault]
  BY DEF ScanAssertions, J_ASSERT, KernelState, Faults, KernelFaults
<1> QED
  BY <1>1, <1>2, <1>3

\* What Unblock does to each field.
LEMMA UnblockFacts ==
    ASSUME NEW k \in KernelState, NEW n \in Threads
    PROVE  LET u == Unblock(k, n)
               s == k.sema[n]
               m == k.mutex[n]
           IN  /\ u \in KernelState
               /\ u.list = k.list /\ u.curr = k.curr /\ u.next = k.next
               /\ u.ready = k.ready /\ u.delayed = k.delayed
               /\ u.timeout = k.timeout /\ u.free = k.free
               /\ u.pendsv = k.pendsv /\ u.fault = k.fault
               /\ u.sema = [k.sema EXCEPT ![n] = NULL]
               /\ s = NULL => /\ u.mutex = [k.mutex EXCEPT ![n] = NULL]
                              /\ u.count = k.count
               /\ s = NULL /\ m # NULL => u.owner = [k.owner EXCEPT ![m] = n]
               /\ s = NULL /\ m = NULL => u.owner = k.owner
               /\ s # NULL => /\ u.mutex = k.mutex
                              /\ u.owner = k.owner
                              /\ u.count = [k.count EXCEPT ![s] = @ - 1]
<1> DEFINE u == Unblock(k, n)
           s == k.sema[n]
           m == k.mutex[n]
           noSema == [k.sema EXCEPT ![n] = NULL]
           noMutex == [k.mutex EXCEPT ![n] = NULL]
<1>1. noSema \in [Threads -> Semas \cup {NULL}]
  BY DEF KernelState
<1>2. noMutex \in [Threads -> Mutexes \cup {NULL}]
  BY DEF KernelState
<1>3. CASE s # NULL
  <2> DEFINE taken == [k.count EXCEPT ![s] = @ - 1]
  <2>1. taken \in [Semas -> Int]
    BY <1>3 DEF KernelState
  <2>2. u = [k EXCEPT !.count = taken, !.sema = noSema]
    BY <1>3 DEF Unblock
  <2> HIDE DEF u, noSema, taken
  <2>3. /\ u \in KernelState
        /\ u.list = k.list /\ u.curr = k.curr /\ u.next = k.next
        /\ u.ready = k.ready /\ u.delayed = k.delayed
        /\ u.timeout = k.timeout /\ u.free = k.free
        /\ u.pendsv = k.pendsv /\ u.fault = k.fault
        /\ u.sema = noSema /\ u.mutex = k.mutex
        /\ u.count = taken /\ u.owner = k.owner
    BY <1>1, <2>1, <2>2 DEF KernelState
  <2> QED
    BY <1>3, <2>3 DEF u, noSema, taken
<1>4. CASE s = NULL /\ m # NULL
  <2> DEFINE owned == [k.owner EXCEPT ![m] = n]
  <2>1. owned \in [Mutexes -> Threads \cup {NULL}] /\ noSema = k.sema
    BY <1>4 DEF KernelState
  <2>2. u = [k EXCEPT !.owner = owned, !.mutex = noMutex]
    BY <1>4 DEF Unblock
  <2> HIDE DEF u, noMutex, owned
  <2>3. /\ u \in KernelState
        /\ u.list = k.list /\ u.curr = k.curr /\ u.next = k.next
        /\ u.ready = k.ready /\ u.delayed = k.delayed
        /\ u.timeout = k.timeout /\ u.free = k.free
        /\ u.pendsv = k.pendsv /\ u.fault = k.fault
        /\ u.sema = k.sema /\ u.mutex = noMutex
        /\ u.count = k.count /\ u.owner = owned
    BY <1>2, <2>1, <2>2 DEF KernelState
  <2> QED
    BY <1>4, <2>1, <2>3 DEF u, noMutex, owned
<1>5. CASE s = NULL /\ m = NULL
  BY <1>5 DEF Unblock, KernelState
<1> QED
  BY <1>3, <1>4, <1>5

\* What OS_schedule leaves alone, what it sets, and that it keeps a fault.
LEMMA ScheduleFields ==
    ASSUME NEW k \in KernelState
    PROVE  LET r == OS_schedule(k)
           IN  /\ r \in KernelState
               /\ r.list = k.list /\ r.curr = k.curr /\ r.ready = k.ready
               /\ r.delayed = k.delayed /\ r.timeout = k.timeout
               /\ r.free = k.free
               /\ r.next = Candidate(k)
               /\ r.pendsv = (k.pendsv \/ Candidate(k) # k.curr)
               /\ k.fault # NoFault => r.fault = k.fault
               /\ Consistent(k) => r.fault = k.fault
<1> DEFINE n == Candidate(k)
           a == ScanAssertions(k)
           u == Unblock(a, n)
<1>1. n \in Threads
  BY CandidateFacts
<1>2. /\ a \in KernelState
      /\ a.list = k.list /\ a.curr = k.curr /\ a.ready = k.ready
      /\ a.delayed = k.delayed /\ a.timeout = k.timeout
      /\ a.free = k.free /\ a.pendsv = k.pendsv
      /\ k.fault # NoFault => a.fault = k.fault
      /\ Consistent(k) => a.fault = k.fault
  BY ScanFacts DEF KernelState
<1> HIDE DEF n, a
<1>3. /\ u \in KernelState
      /\ u.list = a.list /\ u.curr = a.curr /\ u.ready = a.ready
      /\ u.delayed = a.delayed /\ u.timeout = a.timeout
      /\ u.free = a.free /\ u.pendsv = a.pendsv /\ u.fault = a.fault
  BY <1>1, <1>2, UnblockFacts
<1> HIDE DEF u
<1>4. OS_schedule(k) = [u EXCEPT !.next = n, !.pendsv = @ \/ n # k.curr]
  BY DEF OS_schedule, u, a, n
<1>5. /\ OS_schedule(k) \in KernelState
      /\ OS_schedule(k).list = u.list /\ OS_schedule(k).curr = u.curr
      /\ OS_schedule(k).ready = u.ready /\ OS_schedule(k).delayed = u.delayed
      /\ OS_schedule(k).timeout = u.timeout /\ OS_schedule(k).free = u.free
      /\ OS_schedule(k).next = n /\ OS_schedule(k).fault = u.fault
      /\ OS_schedule(k).pendsv = (u.pendsv \/ n # k.curr)
  BY <1>1, <1>3, <1>4 DEF KernelState
<1> QED
  BY <1>2, <1>3, <1>5 DEF n

\* In a consistent state, OS_schedule releases at most the thread it chooses:
\* from its semaphore, taking one token, or from its mutex, taking it.
LEMMA ScheduleReleases ==
    ASSUME NEW k \in KernelState, Consistent(k)
    PROVE  LET r == OS_schedule(k)
               n == Candidate(k)
           IN  /\ r.sema = [k.sema EXCEPT ![n] = NULL]
               /\ r.mutex = [k.mutex EXCEPT ![n] = NULL]
               /\ r.count = IF k.sema[n] # NULL
                            THEN [k.count EXCEPT ![k.sema[n]] = @ - 1]
                            ELSE k.count
               /\ r.owner = IF k.mutex[n] # NULL
                            THEN [k.owner EXCEPT ![k.mutex[n]] = n]
                            ELSE k.owner
<1> DEFINE n == Candidate(k)
           u == Unblock(k, n)
<1>1. n \in Threads /\ (k.sema[n] = NULL \/ k.mutex[n] = NULL)
  BY CandidateFacts DEF Consistent, WaitsWell
<1>2. OS_schedule(k) = [u EXCEPT !.next = n, !.pendsv = @ \/ n # k.curr]
  BY ScanFacts DEF OS_schedule
<1> HIDE DEF n
<1>3. /\ u \in KernelState
      /\ u.sema = [k.sema EXCEPT ![n] = NULL]
      /\ u.mutex = [k.mutex EXCEPT ![n] = NULL]
      /\ u.count = IF k.sema[n] # NULL
                   THEN [k.count EXCEPT ![k.sema[n]] = @ - 1] ELSE k.count
      /\ u.owner = IF k.mutex[n] # NULL
                   THEN [k.owner EXCEPT ![k.mutex[n]] = n] ELSE k.owner
  <2>1. k.sema[n] # NULL => k.mutex = [k.mutex EXCEPT ![n] = NULL]
    BY <1>1 DEF KernelState
  <2> HIDE DEF u
  <2> QED
    BY <1>1, <2>1, UnblockFacts DEF u
<1> HIDE DEF u
<1> QED
  BY <1>2, <1>3 DEF KernelState, n

\* OS_schedule keeps a consistent state consistent, fails no assertion in it,
\* and establishes the choice that Scheduled describes.
LEMMA ScheduleGood ==
    ASSUME NEW k \in KernelState, Consistent(k)
    PROVE  Consistent(OS_schedule(k)) /\ Scheduled(OS_schedule(k))
<1> DEFINE r == OS_schedule(k)
           n == Candidate(k)
<1>1. /\ r \in KernelState
      /\ r.list = k.list /\ r.curr = k.curr /\ r.ready = k.ready
      /\ r.delayed = k.delayed /\ r.timeout = k.timeout
      /\ r.free = k.free /\ r.next = n
      /\ r.pendsv = (k.pendsv \/ n # k.curr)
  BY ScheduleFields
<1>2. /\ r.sema = [k.sema EXCEPT ![n] = NULL]
      /\ r.mutex = [k.mutex EXCEPT ![n] = NULL]
      /\ r.count = IF k.sema[n] # NULL
                   THEN [k.count EXCEPT ![k.sema[n]] = @ - 1] ELSE k.count
      /\ r.owner = IF k.mutex[n] # NULL
                   THEN [k.owner EXCEPT ![k.mutex[n]] = n] ELSE k.owner
  BY ScheduleReleases
<1>3. /\ n \in Threads /\ n # NULL
      /\ n # 0 => n \in k.ready /\ Runnable(k, n)
      /\ \A p \in k.ready : p > n => ~Runnable(k, p)
  BY CandidateFacts
<1>4. k.sema[n] # NULL => k.count[k.sema[n]] > 0
  <2>1. k.sema[n] # NULL => n # 0
    BY <1>3 DEF Consistent, WaitsWell, OS_is_blocked, KernelState
  <2> QED
    BY <1>3, <2>1 DEF Runnable, CanUnblock, OS_is_blocked
<1>5. k.mutex[n] # NULL => k.owner[k.mutex[n]] = NULL
  <2>1. k.mutex[n] # NULL => n # 0 /\ k.sema[n] = NULL
    BY <1>3 DEF Consistent, WaitsWell, OS_is_blocked, KernelState
  <2> QED
    BY <1>3, <2>1 DEF Runnable, CanUnblock, OS_is_blocked
<1> HIDE DEF r, n
<1>6. Consistent(r)
  <2>1. /\ 0 \in r.list /\ r.ready \subseteq r.list /\ r.delayed \subseteq r.list
        /\ \A p \in Threads : r.timeout[p] >= 0
        /\ \A q \in EQTs : r.free[q] >= 0 /\ r.free[q] <= QueueSize
        /\ \A p \in Regular : p \in r.list => p \in r.ready \/ p \in r.delayed
    BY <1>1 DEF Consistent
  <2>2. ASSUME NEW s \in Semas PROVE r.count[s] >= 0 /\ r.count[s] <= MaxCount
    BY <1>2, <1>3, <1>4, KernelAssumption
       DEF Consistent, KernelState, KernelAssumption
  <2>3. ASSUME NEW p \in Threads PROVE WaitsWell(r, p)
    BY <1>1, <1>2, <1>3 DEF Consistent, WaitsWell, OS_is_blocked, KernelState
  <2>4. ASSUME NEW m \in Mutexes, r.owner[m] # NULL
        PROVE  r.mutex[r.owner[m]] # m
    BY <1>2, <1>3, <2>4, KernelAssumption
       DEF Consistent, KernelState, KernelAssumption
  <2> QED
    BY <2>1, <2>2, <2>3, <2>4 DEF Consistent
<1>7. Scheduled(r)
  <2>1. r.next # 0 => r.next \in r.ready /\ ~OS_is_blocked(r, r.next)
    BY <1>1, <1>2, <1>3 DEF OS_is_blocked, KernelState
  <2>2. ASSUME NEW p \in r.ready, p > r.next
        PROVE  ~Runnable(r, p)
    <3>1. p \in Threads /\ p # n /\ ~Runnable(k, p)
      BY <1>1, <1>3, <2>2 DEF KernelState, Threads
    <3>2. r.sema[p] = k.sema[p] /\ r.mutex[p] = k.mutex[p]
      BY <1>2, <3>1 DEF KernelState
    <3>3. \A s \in Semas : r.count[s] > 0 => k.count[s] > 0
      BY <1>2, <1>3 DEF KernelState
    <3>4. \A m \in Mutexes : r.owner[m] = NULL => k.owner[m] = NULL
      BY <1>2, <1>3 DEF KernelState
    <3> QED
      BY <3>1, <3>2, <3>3, <3>4
         DEF Runnable, CanUnblock, OS_is_blocked, KernelState
  <2>3. r.curr # NULL /\ ~r.pendsv => r.curr = r.next
    BY <1>1
  <2> QED
    BY <1>1, <1>3, <2>1, <2>2, <2>3 DEF Scheduled
<1> QED
  BY <1>6, <1>7 DEF r

-----------------------------------------------------------------------------
(* The calls.                                                              *)

\* The outcome of a call made after boot: it failed an assertion that checks
\* the application, or it left the kernel consistent, with every EQT ready
\* exactly when it has events, except those in X.
Good(k, X) ==
    /\ k \in KernelState
    /\ k.fault \in ClientFaults \cup {NoFault}
    /\ k.fault = NoFault => /\ Consistent(k)
                            /\ EQTsReadyBut(k, X)
                            /\ k.list = Threads

\* The state in which thread p makes its calls.
Active(k, p) ==
    /\ Good(k, {}) /\ Scheduled(k)
    /\ k.fault = NoFault
    /\ p \in 1 .. NPrio /\ k.curr = p /\ ~k.pendsv

\* A running regular thread is neither blocked nor delayed, so it may ask to be.
LEMMA ActiveIsClean ==
    ASSUME NEW k, NEW p, Active(k, p)
    PROVE  /\ k \in KernelState /\ p \in Threads
           /\ k.next = p /\ p \in k.ready /\ p \notin k.delayed
           /\ k.sema[p] = NULL /\ k.mutex[p] = NULL /\ k.timeout[p] = 0
<1>1. p \in Threads /\ p # NULL /\ p # 0
  BY KernelAssumption DEF Active, KernelAssumption, Threads
<1>2. k.next = p
  BY <1>1 DEF Active, Scheduled
<1> QED
  BY <1>1, <1>2
     DEF Active, Good, Scheduled, Consistent, WaitsWell, OS_is_blocked,
         KernelState

\* A call that ends in OS_schedule is good when it called it in a good state.
LEMMA ScheduleCall ==
    ASSUME NEW k, NEW X, Good(k, X)
    PROVE  /\ Good(OS_schedule(k), X)
           /\ OS_schedule(k).fault = NoFault => Scheduled(OS_schedule(k))
           /\ OS_schedule(k).ready = k.ready
           /\ OS_schedule(k).free = k.free
           /\ OS_schedule(k).fault = k.fault
           /\ OS_schedule(k).curr = k.curr
<1> DEFINE r == OS_schedule(k)
<1>1. /\ r \in KernelState /\ r.list = k.list /\ r.ready = k.ready
      /\ r.free = k.free /\ r.fault = k.fault /\ r.curr = k.curr
  BY ScheduleFields DEF Good
<1>2. k.fault = NoFault => Consistent(r) /\ Scheduled(r)
  BY ScheduleGood DEF Good
<1> HIDE DEF r
<1>3. Good(r, X)
  BY <1>1, <1>2 DEF Good, EQTsReadyBut
<1> QED
  BY <1>1, <1>2, <1>3 DEF r

\* The fields that say who waits for what, and what there is to take.
SameResources(k, x) ==
    /\ x.sema = k.sema   /\ x.mutex = k.mutex
    /\ x.count = k.count /\ x.owner = k.owner

\* The fields that say who waits for time to pass, and who does not.
SameDelays(k, x) ==
    x.ready = k.ready /\ x.delayed = k.delayed /\ x.timeout = k.timeout

\* Thread p was delayed by d ticks.
ThreadDelayed(k, p, d, x) ==
    /\ x.ready = k.ready \ {p} /\ x.delayed = k.delayed \cup {p}
    /\ x.timeout = [k.timeout EXCEPT ![p] = d]

\* OS_delay takes the caller out of the ready set, then schedules.
LEMMA DelayBegins ==
    ASSUME NEW k, NEW p \in Regular, Active(k, p), NEW d \in Delays
    PROVE  \E x : /\ OS_delay(k, p, d) = OS_schedule(x)
                  /\ Good(x, {}) /\ x.curr = p /\ SameResources(k, x)
                  /\ x.fault = NoFault /\ ThreadDelayed(k, p, d, x)
                  /\ x.free = k.free
<1> DEFINE timeouts == [k.timeout EXCEPT ![p] = d]
           x == [k EXCEPT !.timeout = timeouts, !.ready = @ \ {p},
                          !.delayed = @ \cup {p}]
<1>1. /\ k \in KernelState /\ p \in Threads
      /\ k.next = p /\ p \in k.ready /\ p \notin k.delayed
      /\ k.sema[p] = NULL /\ k.mutex[p] = NULL /\ k.timeout[p] = 0
  BY ActiveIsClean
<1>2. d >= 0 /\ timeouts \in [Threads -> Int]
  BY <1>1, KernelAssumption DEF KernelState, KernelAssumption
<1>3. OS_delay(k, p, d) = OS_schedule(x)
  BY <1>1 DEF OS_delay, J_ASSERT, OS_is_blocked
<1>4. /\ x \in KernelState /\ x.list = k.list /\ x.curr = k.curr
      /\ x.ready = k.ready \ {p} /\ x.delayed = k.delayed \cup {p}
      /\ x.timeout = timeouts /\ x.sema = k.sema /\ x.mutex = k.mutex
      /\ x.count = k.count /\ x.owner = k.owner /\ x.free = k.free
      /\ x.fault = k.fault
  <2> HIDE DEF timeouts
  <2> QED BY <1>1, <1>2 DEF KernelState, Regular
<1> HIDE DEF x
<1>5. Consistent(x)
  <2>1. /\ 0 \in x.list /\ x.ready \subseteq x.list /\ x.delayed \subseteq x.list
        /\ \A t \in Threads : x.timeout[t] >= 0
    BY <1>1, <1>2, <1>4 DEF Active, Good, Consistent, KernelState
  <2>2. ASSUME NEW t \in Threads PROVE WaitsWell(x, t)
    BY <1>1, <1>2, <1>4
       DEF Active, Good, Consistent, WaitsWell, OS_is_blocked, KernelState, Regular
  <2> QED
    BY <1>4, <2>1, <2>2 DEF Active, Good, Consistent
<1>6. Good(x, {})
  BY <1>4, <1>5 DEF Active, Good, EQTsReadyBut, Regular
<1> QED
  BY <1>3, <1>4, <1>6 DEF Active, SameResources, ThreadDelayed

\* A delay keeps the kernel good and ends with the right choice.
LEMMA DelayGood ==
    ASSUME NEW k, NEW p \in Regular, Active(k, p), NEW d \in Delays
    PROVE  LET r == OS_delay(k, p, d)
           IN  Good(r, {}) /\ (r.fault = NoFault => Scheduled(r)) /\ r.curr = p
BY DelayBegins, ScheduleCall

\* A token of semaphore s was added, below the limit.
TokenGiven(k, s, x) ==
    /\ x.count = [k.count EXCEPT ![s] = @ + 1]
    /\ x.sema = k.sema /\ x.mutex = k.mutex /\ x.owner = k.owner
    /\ x.fault = NoFault <=> k.fault = NoFault /\ k.count[s] # MaxCount

\* J_sema_signal gives a token, up to the limit, then schedules.
LEMMA SignalBegins ==
    ASSUME NEW k, NEW X, Good(k, X), NEW s \in Semas
    PROVE  \E x : /\ J_sema_signal(k, s) = OS_schedule(x)
                  /\ Good(x, X) /\ x.ready = k.ready /\ x.curr = k.curr
                  /\ SameDelays(k, x) /\ TokenGiven(k, s, x)
                  /\ x.free = k.free
<1> DEFINE counts == [k.count EXCEPT ![s] = @ + 1]
           a == J_ASSERT(k, k.count[s] # MaxCount, "sema at max_count")
           x == [a EXCEPT !.count = counts]
<1>1. /\ a \in KernelState /\ a = [k EXCEPT !.fault = a.fault]
      /\ a.fault \in ClientFaults \cup {NoFault}
      /\ a.fault = NoFault <=> k.fault = NoFault /\ k.count[s] # MaxCount
  BY DEF J_ASSERT, Good, KernelState, Faults, ClientFaults, NoFault
<1>2. counts \in [Semas -> Int]
  BY DEF Good, KernelState
<1>3. J_sema_signal(k, s) = OS_schedule(x)
  BY <1>1 DEF J_sema_signal, KernelState
<1> HIDE DEF a
<1>4. /\ x \in KernelState /\ x.list = k.list /\ x.curr = k.curr
      /\ x.ready = k.ready /\ x.delayed = k.delayed
      /\ x.timeout = k.timeout /\ x.sema = k.sema /\ x.mutex = k.mutex
      /\ x.count = counts /\ x.owner = k.owner /\ x.free = k.free
      /\ x.fault = a.fault
  <2> HIDE DEF counts
  <2> QED BY <1>1, <1>2 DEF KernelState
<1> HIDE DEF x
<1>5. x.fault = NoFault => Consistent(x)
  BY <1>1, <1>4, KernelAssumption
     DEF Good, Consistent, WaitsWell, OS_is_blocked, KernelState, KernelAssumption
<1>6. Good(x, X)
  BY <1>1, <1>4, <1>5 DEF Good, EQTsReadyBut
<1> QED
  BY <1>1, <1>3, <1>4, <1>6 DEF SameDelays, TokenGiven

\* A signal is good from any good state.
LEMMA SignalGood ==
    ASSUME NEW k, NEW X, Good(k, X), NEW s \in Semas
    PROVE  LET r == J_sema_signal(k, s)
           IN  /\ Good(r, X) /\ (r.fault = NoFault => Scheduled(r))
               /\ r.ready = k.ready /\ r.curr = k.curr
<1>1. PICK x : /\ J_sema_signal(k, s) = OS_schedule(x)
               /\ Good(x, X) /\ x.ready = k.ready /\ x.curr = k.curr
  BY SignalBegins
<1> QED
  BY <1>1, ScheduleCall

\* Thread p was blocked by semaphore s, or by mutex m.
SemaWaited(k, p, s, x) ==
    /\ x.sema = [k.sema EXCEPT ![p] = s]
    /\ x.mutex = k.mutex /\ x.count = k.count /\ x.owner = k.owner
MutexWaited(k, p, m, x) ==
    /\ x.mutex = [k.mutex EXCEPT ![p] = m]
    /\ x.sema = k.sema /\ x.count = k.count /\ x.owner = k.owner
    /\ x.fault = NoFault <=> k.owner[m] # p

\* Mutex m was freed by its owner p.
MutexFreed(k, p, m, x) ==
    /\ x.owner = [k.owner EXCEPT ![m] = NULL]
    /\ x.sema = k.sema /\ x.mutex = k.mutex /\ x.count = k.count
    /\ x.fault = NoFault <=> k.owner[m] = p

\* J_sema_wait blocks the caller when there is no token, then schedules.
LEMMA WaitBlocks ==
    ASSUME NEW k, NEW p \in Regular, Active(k, p), NEW s \in Semas,
           ~(k.count[s] > 0)
    PROVE  \E x : /\ J_sema_wait(k, p, s) = OS_schedule(x)
                  /\ Good(x, {}) /\ x.curr = p /\ x.fault = NoFault
                  /\ SameDelays(k, x) /\ SemaWaited(k, p, s, x)
                  /\ x.free = k.free
<1>1. /\ k \in KernelState /\ p \in Threads
      /\ k.next = p /\ p \in k.ready /\ p \notin k.delayed
      /\ k.sema[p] = NULL /\ k.mutex[p] = NULL /\ k.timeout[p] = 0
  BY ActiveIsClean
<1> DEFINE semas == [k.sema EXCEPT ![p] = s]
           x == [k EXCEPT !.sema = semas]
<1>2. semas \in [Threads -> Semas \cup {NULL}]
  BY <1>1 DEF KernelState
<1>3. J_sema_wait(k, p, s) = OS_schedule(x)
  BY <1>1 DEF J_sema_wait, OS_sema_block, J_ASSERT, KernelState
<1>4. /\ x \in KernelState /\ x.list = k.list /\ x.curr = k.curr
      /\ x.ready = k.ready /\ x.delayed = k.delayed
      /\ x.timeout = k.timeout /\ x.sema = semas /\ x.mutex = k.mutex
      /\ x.count = k.count /\ x.owner = k.owner /\ x.free = k.free
      /\ x.fault = k.fault
  <2> HIDE DEF semas
  <2> QED BY <1>1, <1>2 DEF KernelState
<1> HIDE DEF x
<1>5. ASSUME NEW t \in Threads PROVE WaitsWell(x, t)
  BY <1>1, <1>4
     DEF Active, Good, Consistent, WaitsWell, OS_is_blocked, KernelState, Regular
<1>6. Consistent(x)
  BY <1>4, <1>5 DEF Active, Good, Consistent
<1>7. Good(x, {})
  BY <1>4, <1>6 DEF Active, Good, EQTsReadyBut
<1> QED
  BY <1>3, <1>4, <1>7 DEF Active, SameDelays, SemaWaited

\* J_sema_wait takes a token, or blocks the caller on the semaphore.
LEMMA WaitGood ==
    ASSUME NEW k, NEW p \in Regular, Active(k, p), NEW s \in Semas
    PROVE  LET r == J_sema_wait(k, p, s)
           IN  Good(r, {}) /\ (r.fault = NoFault => Scheduled(r)) /\ r.curr = p
<1>1. /\ k \in KernelState /\ p \in Threads
      /\ k.next = p /\ p \in k.ready /\ p \notin k.delayed
      /\ k.sema[p] = NULL /\ k.mutex[p] = NULL /\ k.timeout[p] = 0
  BY ActiveIsClean
<1>2. CASE k.count[s] > 0
  <2> DEFINE counts == [k.count EXCEPT ![s] = @ - 1]
             x == [k EXCEPT !.count = counts]
  <2>1. counts \in [Semas -> Int]
    BY <1>1 DEF KernelState
  <2>2. J_sema_wait(k, p, s) = x
    BY <1>1, <1>2 DEF J_sema_wait, KernelState
  <2>3. /\ x \in KernelState /\ x.list = k.list /\ x.curr = k.curr
        /\ x.next = k.next /\ x.pendsv = k.pendsv
        /\ x.ready = k.ready /\ x.delayed = k.delayed
        /\ x.timeout = k.timeout /\ x.sema = k.sema /\ x.mutex = k.mutex
        /\ x.count = counts /\ x.owner = k.owner /\ x.free = k.free
        /\ x.fault = k.fault
    <3> HIDE DEF counts
    <3> QED BY <1>1, <2>1 DEF KernelState
  <2> HIDE DEF x
  <2>4. Consistent(x)
    <3>1. \A t \in Semas : x.count[t] >= 0 /\ x.count[t] <= MaxCount
      BY <1>1, <1>2, <2>3, KernelAssumption
         DEF Active, Good, Consistent, KernelState, KernelAssumption
    <3> QED
      BY <2>3, <3>1 DEF Active, Good, Consistent, WaitsWell, OS_is_blocked
  <2>5. Scheduled(x)
    BY <1>1, <1>2, <2>3
       DEF Active, Scheduled, Runnable, CanUnblock, OS_is_blocked, KernelState
  <2> QED
    BY <2>2, <2>3, <2>4, <2>5 DEF Active, Good, EQTsReadyBut
<1>3. CASE ~(k.count[s] > 0)
  <2>1. PICK x : /\ J_sema_wait(k, p, s) = OS_schedule(x)
                 /\ Good(x, {}) /\ x.curr = p
    BY <1>3, WaitBlocks
  <2> QED
    BY <2>1, ScheduleCall
<1> QED
  BY <1>2, <1>3

\* J_Mutex_acquire blocks the caller when the mutex has an owner, then
\* schedules.
LEMMA AcquireBlocks ==
    ASSUME NEW k, NEW p \in Regular, Active(k, p), NEW m \in Mutexes,
           k.owner[m] # NULL
    PROVE  \E x : /\ J_Mutex_acquire(k, p, m) = OS_schedule(x)
                  /\ Good(x, {}) /\ x.curr = p
                  /\ SameDelays(k, x) /\ MutexWaited(k, p, m, x)
                  /\ x.free = k.free
<1>1. /\ k \in KernelState /\ p \in Threads
      /\ k.next = p /\ p \in k.ready /\ p \notin k.delayed
      /\ k.sema[p] = NULL /\ k.mutex[p] = NULL /\ k.timeout[p] = 0
  BY ActiveIsClean
<1> DEFINE a == J_ASSERT(k, k.owner[m] # p, "mutex acquired twice")
           mutexes == [k.mutex EXCEPT ![p] = m]
           x == [a EXCEPT !.mutex = mutexes]
<1>2. mutexes \in [Threads -> Mutexes \cup {NULL}]
  BY <1>1 DEF KernelState
<1>3. /\ a \in KernelState /\ a = [k EXCEPT !.fault = a.fault]
      /\ a.fault \in ClientFaults \cup {NoFault}
      /\ a.fault = NoFault <=> k.owner[m] # p
  BY <1>1 DEF J_ASSERT, Active, Good, KernelState, Faults, ClientFaults, NoFault
<1>4. J_Mutex_acquire(k, p, m) = OS_schedule(x)
  BY <1>1, <1>3 DEF J_Mutex_acquire, KernelState
<1> HIDE DEF a
<1>5. /\ x \in KernelState /\ x.list = k.list /\ x.curr = k.curr
      /\ x.ready = k.ready /\ x.delayed = k.delayed
      /\ x.timeout = k.timeout /\ x.sema = k.sema /\ x.mutex = mutexes
      /\ x.count = k.count /\ x.owner = k.owner /\ x.free = k.free
      /\ x.fault = a.fault
  <2> HIDE DEF mutexes
  <2> QED BY <1>1, <1>2, <1>3 DEF KernelState
<1> HIDE DEF x
<1>6. ASSUME NEW t \in Threads PROVE WaitsWell(x, t)
  BY <1>1, <1>5
     DEF Active, Good, Consistent, WaitsWell, OS_is_blocked, KernelState, Regular
<1>7. ASSUME x.fault = NoFault, NEW n \in Mutexes, x.owner[n] # NULL
      PROVE  x.mutex[x.owner[n]] # n
  BY <1>1, <1>3, <1>5, <1>7 DEF Active, Good, Consistent, KernelState
<1>8. x.fault = NoFault => Consistent(x)
  BY <1>5, <1>6, <1>7 DEF Active, Good, Consistent
<1>9. Good(x, {})
  BY <1>3, <1>5, <1>8 DEF Active, Good, EQTsReadyBut
<1> QED
  BY <1>3, <1>4, <1>5, <1>9 DEF Active, SameDelays, MutexWaited

\* J_Mutex_acquire takes a free mutex, or blocks the caller on it.
LEMMA AcquireGood ==
    ASSUME NEW k, NEW p \in Regular, Active(k, p), NEW m \in Mutexes
    PROVE  LET r == J_Mutex_acquire(k, p, m)
           IN  Good(r, {}) /\ (r.fault = NoFault => Scheduled(r)) /\ r.curr = p
<1>1. /\ k \in KernelState /\ p \in Threads
      /\ k.next = p /\ p \in k.ready /\ p \notin k.delayed
      /\ k.sema[p] = NULL /\ k.mutex[p] = NULL /\ k.timeout[p] = 0
  BY ActiveIsClean
<1>2. p # NULL /\ m # NULL
  BY <1>1, KernelAssumption DEF KernelAssumption
<1>3. CASE k.owner[m] = NULL
  <2> DEFINE owners == [k.owner EXCEPT ![m] = p]
             x == [k EXCEPT !.owner = owners]
  <2>1. owners \in [Mutexes -> Threads \cup {NULL}]
    BY <1>1 DEF KernelState
  <2>2. J_Mutex_acquire(k, p, m) = x
    BY <1>1, <1>2, <1>3 DEF J_Mutex_acquire, J_ASSERT, KernelState
  <2>3. /\ x \in KernelState /\ x.list = k.list /\ x.curr = k.curr
        /\ x.next = k.next /\ x.pendsv = k.pendsv
        /\ x.ready = k.ready /\ x.delayed = k.delayed
        /\ x.timeout = k.timeout /\ x.sema = k.sema /\ x.mutex = k.mutex
        /\ x.count = k.count /\ x.owner = owners /\ x.free = k.free
        /\ x.fault = k.fault
    <3> HIDE DEF owners
    <3> QED BY <1>1, <2>1 DEF KernelState
  <2> HIDE DEF x
  <2>4. Consistent(x)
    BY <1>1, <1>2, <2>3
       DEF Active, Good, Consistent, WaitsWell, OS_is_blocked, KernelState
  <2>5. Scheduled(x)
    BY <1>1, <1>2, <2>3
       DEF Active, Scheduled, Runnable, CanUnblock, OS_is_blocked, KernelState
  <2> QED
    BY <2>2, <2>3, <2>4, <2>5 DEF Active, Good, EQTsReadyBut
<1>4. CASE k.owner[m] # NULL
  <2>1. PICK x : /\ J_Mutex_acquire(k, p, m) = OS_schedule(x)
                 /\ Good(x, {}) /\ x.curr = p
    BY <1>4, AcquireBlocks
  <2> QED
    BY <2>1, ScheduleCall
<1> QED
  BY <1>3, <1>4

\* J_Mutex_release frees the mutex, then schedules twice.
LEMMA ReleaseBegins ==
    ASSUME NEW k, NEW p \in Regular, Active(k, p), NEW m \in Mutexes
    PROVE  \E x : /\ J_Mutex_release(k, p, m) = OS_schedule(OS_schedule(x))
                  /\ Good(x, {}) /\ x.curr = p
                  /\ SameDelays(k, x) /\ MutexFreed(k, p, m, x)
                  /\ x.free = k.free
<1> DEFINE a == J_ASSERT(k, k.owner[m] = p, "mutex released by another")
           owners == [k.owner EXCEPT ![m] = NULL]
           x == [a EXCEPT !.owner = owners]
<1>1. owners \in [Mutexes -> Threads \cup {NULL}]
  BY DEF Active, Good, KernelState
<1>2. /\ a \in KernelState /\ a = [k EXCEPT !.fault = a.fault]
      /\ a.fault \in ClientFaults \cup {NoFault}
      /\ a.fault = NoFault <=> k.owner[m] = p
  BY DEF J_ASSERT, Active, Good, KernelState, Faults, ClientFaults, NoFault
<1>3. J_Mutex_release(k, p, m) = OS_schedule(OS_schedule(x))
  BY <1>2 DEF J_Mutex_release, KernelState
<1> HIDE DEF a
<1>4. /\ x \in KernelState /\ x.list = k.list /\ x.curr = k.curr
      /\ x.ready = k.ready /\ x.delayed = k.delayed
      /\ x.timeout = k.timeout /\ x.sema = k.sema /\ x.mutex = k.mutex
      /\ x.count = k.count /\ x.owner = owners /\ x.free = k.free
      /\ x.fault = a.fault
  <2> HIDE DEF owners
  <2> QED BY <1>1, <1>2 DEF Active, Good, KernelState
<1> HIDE DEF x
<1>5. Consistent(x)
  BY <1>4 DEF Active, Good, Consistent, WaitsWell, OS_is_blocked, KernelState
<1>6. Good(x, {})
  BY <1>2, <1>4, <1>5 DEF Active, Good, EQTsReadyBut
<1> QED
  BY <1>2, <1>3, <1>4, <1>6 DEF Active, SameDelays, MutexFreed

\* A release keeps the kernel good and ends with the right choice.
LEMMA ReleaseGood ==
    ASSUME NEW k, NEW p \in Regular, Active(k, p), NEW m \in Mutexes
    PROVE  LET r == J_Mutex_release(k, p, m)
           IN  Good(r, {}) /\ (r.fault = NoFault => Scheduled(r)) /\ r.curr = p
<1>1. PICK x : /\ J_Mutex_release(k, p, m) = OS_schedule(OS_schedule(x))
               /\ Good(x, {}) /\ x.curr = p
  BY ReleaseBegins
<1>2. Good(OS_schedule(x), {}) /\ OS_schedule(x).curr = p
  BY <1>1, ScheduleCall
<1> QED
  BY <1>1, <1>2, ScheduleCall

\* An event goes into a queue that has room; its EQT may not be ready yet.
LEMMA PutGood ==
    ASSUME NEW k, NEW X, Good(k, X), NEW q \in EQTs
    PROVE  LET x == J_EventQueue_put(k, q)
           IN  /\ Good(x, X \cup {q}) /\ SameResources(k, x)
               /\ x.ready = k.ready /\ x.curr = k.curr /\ SameDelays(k, x)
               /\ x.fault = NoFault => k.fault = NoFault /\ x.free[q] < QueueSize
               /\ k.fault = NoFault /\ k.free[q] > 0 => x.fault = NoFault
               /\ x.free = [k.free EXCEPT ![q] = @ - 1]
<1> DEFINE frees == [k.free EXCEPT ![q] = @ - 1]
           a == J_ASSERT(k, k.free[q] > 0, "event queue full")
           x == [a EXCEPT !.free = frees]
<1>1. frees \in [EQTs -> Int]
  BY DEF Good, KernelState
<1>2. /\ a \in KernelState /\ a = [k EXCEPT !.fault = a.fault]
      /\ a.fault \in ClientFaults \cup {NoFault}
      /\ a.fault = NoFault <=> k.fault = NoFault /\ k.free[q] > 0
  BY DEF J_ASSERT, Good, KernelState, Faults, ClientFaults, NoFault
<1>3. J_EventQueue_put(k, q) = x
  BY <1>2 DEF J_EventQueue_put, KernelState
<1> HIDE DEF a
<1>4. /\ x \in KernelState /\ x.list = k.list /\ x.curr = k.curr
      /\ x.ready = k.ready /\ x.delayed = k.delayed
      /\ x.timeout = k.timeout /\ x.sema = k.sema /\ x.mutex = k.mutex
      /\ x.count = k.count /\ x.owner = k.owner /\ x.free = frees
      /\ x.fault = a.fault
  <2> HIDE DEF frees
  <2> QED BY <1>1, <1>2 DEF Good, KernelState
<1> HIDE DEF x
<1>5. ASSUME x.fault = NoFault PROVE Consistent(x) /\ x.free[q] < QueueSize
  <2>1. \A e \in EQTs : x.free[e] >= 0 /\ x.free[e] <= QueueSize
    BY <1>2, <1>4, <1>5, KernelAssumption
       DEF Good, Consistent, KernelState, KernelAssumption
  <2>2. x.free[q] < QueueSize
    BY <1>2, <1>4, <1>5, KernelAssumption
       DEF Good, Consistent, KernelState, KernelAssumption
  <2> QED
    BY <1>2, <1>4, <1>5, <2>1, <2>2
       DEF Good, Consistent, WaitsWell, OS_is_blocked
<1>6. Good(x, X \cup {q})
  BY <1>2, <1>4, <1>5 DEF Good, EQTsReadyBut, KernelState
<1> QED
  BY <1>2, <1>3, <1>4, <1>5, <1>6 DEF SameResources, SameDelays

\* Posting may happen in any good state, also after the tick has made threads
\* ready that the scheduler has not looked at yet.
LEMMA PostGood ==
    ASSUME NEW k, NEW X, Good(k, X), NEW q \in EQTs
    PROVE  LET r == OS_EQT_post(k, q)
           IN  /\ Good(r, X) /\ (r.fault = NoFault => Scheduled(r))
               /\ r.ready = k.ready \cup {q} /\ r.curr = k.curr
<1> DEFINE x == J_EventQueue_put(k, q)
           y == OS_schedule(x)
           r == OS_EQT_post(k, q)
<1>1. q \in 1 .. NPrio
  BY KernelAssumption DEF KernelAssumption
<1>2. /\ Good(x, X \cup {q}) /\ x.ready = k.ready /\ x.curr = k.curr
      /\ x.fault = NoFault => x.free[q] < QueueSize
  BY PutGood
<1>3. r = [y EXCEPT !.ready = @ \cup {q}]
  BY DEF OS_EQT_post, OS_set_EQT_to_ready
<1> HIDE DEF x
<1>4. /\ Good(y, X \cup {q}) /\ (y.fault = NoFault => Scheduled(y))
      /\ y.ready = k.ready /\ y.free = x.free /\ y.fault = x.fault
      /\ y.curr = k.curr
  BY <1>2, ScheduleCall
<1> HIDE DEF y
<1>5. /\ r \in KernelState /\ r.list = y.list /\ r.curr = y.curr
      /\ r.next = y.next /\ r.pendsv = y.pendsv
      /\ r.ready = k.ready \cup {q} /\ r.delayed = y.delayed
      /\ r.timeout = y.timeout /\ r.sema = y.sema /\ r.mutex = y.mutex
      /\ r.count = y.count /\ r.owner = y.owner /\ r.free = y.free
      /\ r.fault = y.fault
  BY <1>1, <1>3, <1>4 DEF Good, KernelState
<1> HIDE DEF r
<1>6. ASSUME r.fault = NoFault PROVE Consistent(r)
  <2>1. Consistent(y) /\ y.list = Threads /\ q \in Threads
    BY <1>1, <1>4, <1>5, <1>6 DEF Good, Threads
  <2>2. ASSUME NEW t \in Threads PROVE WaitsWell(r, t)
    BY <1>4, <1>5, <2>1 DEF Consistent, WaitsWell, OS_is_blocked
  <2> QED
    BY <1>4, <1>5, <2>1, <2>2 DEF Consistent
<1>7. r.fault = NoFault => EQTsReadyBut(r, X)
  <2>1. r.fault = NoFault => r.free[q] # QueueSize
    BY <1>2, <1>4, <1>5, KernelAssumption DEF Good, KernelState, KernelAssumption
  <2> QED
    BY <1>4, <1>5, <2>1 DEF Good, EQTsReadyBut
<1>8. r.fault = NoFault => Scheduled(r)
  BY <1>4, <1>5 DEF Scheduled, Runnable, CanUnblock, OS_is_blocked
<1> QED
  BY <1>4, <1>5, <1>6, <1>7, <1>8 DEF Good, r

\* The timeouts that run out move threads from the delayed to the ready set.
LEMMA TickGood ==
    ASSUME NEW k, Good(k, {}), k.fault = NoFault
    PROVE  Good(OS_tick(k), {}) /\ OS_tick(k).curr = k.curr
<1> DEFINE due == {p \in k.delayed : k.timeout[p] = 1}
           left == [p \in Threads |-> IF p \in k.delayed
                                      THEN k.timeout[p] - 1 ELSE k.timeout[p]]
           a == J_ASSERT(k, \A p \in k.delayed : k.timeout[p] # 0, "timeout is 0")
           x == OS_tick(k)
<1>1. left \in [Threads -> Int] /\ due \subseteq k.delayed
  BY DEF Good, KernelState
<1>2. /\ a \in KernelState /\ a = [k EXCEPT !.fault = a.fault]
      /\ a.fault \in ClientFaults \cup {NoFault}
      /\ a.fault = NoFault => \A p \in k.delayed : k.timeout[p] # 0
  BY DEF J_ASSERT, Good, KernelState, Faults, ClientFaults, NoFault
<1>3. x = [a EXCEPT !.timeout = left, !.ready = k.ready \cup due,
                    !.delayed = k.delayed \ due]
  BY <1>2 DEF OS_tick, KernelState
<1> HIDE DEF a, x
<1>4. /\ x \in KernelState /\ x.list = k.list /\ x.curr = k.curr
      /\ x.ready = k.ready \cup due /\ x.delayed = k.delayed \ due
      /\ x.timeout = left /\ x.sema = k.sema /\ x.mutex = k.mutex
      /\ x.count = k.count /\ x.owner = k.owner /\ x.free = k.free
      /\ x.fault = a.fault
  <2> HIDE DEF left
  <2>1. k.ready \cup due \in SUBSET (1 .. NPrio) /\ k.delayed \ due \in SUBSET (1 .. NPrio)
    BY <1>1 DEF Good, KernelState
  <2> HIDE DEF due
  <2> QED BY <1>1, <1>2, <1>3, <2>1 DEF Good, KernelState
<1>5. ASSUME x.fault = NoFault PROVE Consistent(x)
  <2>1. Consistent(k) /\ k \in KernelState
    BY DEF Good
  <2>2. ASSUME NEW p \in Threads PROVE WaitsWell(x, p) /\ x.timeout[p] >= 0
    BY <1>2, <1>4, <1>5, <2>1, <2>2
       DEF Consistent, WaitsWell, OS_is_blocked, KernelState
  <2>3. \A p \in Regular : p \in x.list => p \in x.ready \/ p \in x.delayed
    BY <1>4, <2>1 DEF Consistent
  <2> QED
    BY <1>1, <1>4, <2>1, <2>2, <2>3 DEF Consistent
<1>6. x.fault = NoFault => EQTsReadyBut(x, {})
  <2>1. \A q \in EQTs : q \notin due
    BY KernelAssumption DEF Good, Consistent, WaitsWell, Threads, KernelAssumption
  <2> QED
    BY <1>4, <2>1 DEF Good, EQTsReadyBut
<1> QED
  BY <1>2, <1>4, <1>5, <1>6 DEF Good, x

\* A post that the handler may leave out.
LEMMA PostIfGood ==
    ASSUME NEW k, Good(k, {}), NEW happened \in BOOLEAN
    PROVE  Good(PostIf(k, happened), {}) /\ PostIf(k, happened).curr = k.curr
BY PostGood, KernelAssumption DEF PostIf, KernelAssumption

\* A ready EQT has an event to take; taking it leaves the kernel as it was,
\* but for the queue, which may now be empty while the EQT is still ready.
LEMMA GetGood ==
    ASSUME NEW k, NEW q \in EQTs, Active(k, q)
    PROVE  LET r == J_EventQueue_get(k, q)
           IN  /\ Good(r, {q}) /\ (r.fault = NoFault => Scheduled(r))
               /\ q \in r.ready /\ r.curr = q
               /\ SameResources(k, r) /\ r.ready = k.ready
               /\ SameDelays(k, r) /\ r.fault = NoFault /\ r.next = q
               /\ r.free = [k.free EXCEPT ![q] = @ + 1]
<1> DEFINE frees == [k.free EXCEPT ![q] = @ + 1]
           r == J_EventQueue_get(k, q)
<1>1. /\ k \in KernelState /\ q \in Threads
      /\ k.next = q /\ q \in k.ready /\ q \notin k.delayed
      /\ k.sema[q] = NULL /\ k.mutex[q] = NULL /\ k.timeout[q] = 0
  BY ActiveIsClean
<1>2. k.free[q] < QueueSize /\ k.free[q] # QueueSize
  BY <1>1, KernelAssumption
     DEF Active, Good, Consistent, EQTsReadyBut, KernelState, KernelAssumption
<1>3. frees \in [EQTs -> Int]
  BY <1>1 DEF KernelState
<1>4. r = [k EXCEPT !.free = frees]
  BY <1>1, <1>2 DEF J_EventQueue_get, J_EventQueue_isEmpty, J_ASSERT, OS_is_blocked, KernelState
<1> HIDE DEF r
<1>5. /\ r \in KernelState /\ r.list = k.list /\ r.curr = k.curr
      /\ r.next = k.next /\ r.pendsv = k.pendsv
      /\ r.ready = k.ready /\ r.delayed = k.delayed
      /\ r.timeout = k.timeout /\ r.sema = k.sema /\ r.mutex = k.mutex
      /\ r.count = k.count /\ r.owner = k.owner /\ r.free = frees
      /\ r.fault = k.fault
  <2> HIDE DEF frees
  <2> QED BY <1>1, <1>3, <1>4 DEF KernelState
<1>6. Consistent(r)
  <2>1. \A e \in EQTs : r.free[e] >= 0 /\ r.free[e] <= QueueSize
    BY <1>1, <1>2, <1>5, KernelAssumption
       DEF Active, Good, Consistent, KernelState, KernelAssumption
  <2> QED
    BY <1>5, <2>1 DEF Active, Good, Consistent, WaitsWell, OS_is_blocked
<1>7. Scheduled(r)
  BY <1>5 DEF Active, Scheduled, Runnable, CanUnblock, OS_is_blocked
<1>8. EQTsReadyBut(r, {q})
  BY <1>1, <1>5 DEF Active, Good, EQTsReadyBut, KernelState
<1> QED
  BY <1>1, <1>5, <1>6, <1>7, <1>8
     DEF Active, Good, SameResources, SameDelays, r

\* Whatever the handler called, the EQT it ran in is still ready.
LEMMA HandlerGood ==
    ASSUME NEW k, NEW q \in EQTs, Active(k, q),
           NEW h \in HandlerOutcomes(J_EventQueue_get(k, q))
    PROVE  /\ Good(h, {q}) /\ (h.fault = NoFault => Scheduled(h))
           /\ q \in h.ready /\ h.curr = q
<1> DEFINE g == J_EventQueue_get(k, q)
<1>1. /\ Good(g, {q}) /\ (g.fault = NoFault => Scheduled(g))
      /\ q \in g.ready /\ g.curr = q
  BY GetGood
<1> HIDE DEF g
<1>2. \/ h = g
      \/ \E s \in Semas : h = J_sema_signal(g, s)
      \/ \E e \in EQTs : h = OS_EQT_post(g, e)
  BY DEF HandlerOutcomes, g
<1> QED
  BY <1>1, <1>2, SignalGood, PostGood

\* An EQT whose queue is empty leaves the ready set.
LEMMA UnreadyBegins ==
    ASSUME NEW h, NEW q \in EQTs, Good(h, {q}), h.free[q] = QueueSize
    PROVE  \E x : /\ UnreadyIfEmpty(h, q) = OS_schedule(x)
                  /\ Good(x, {}) /\ x.curr = h.curr /\ x.ready = h.ready \ {q}
                  /\ SameResources(h, x) /\ x.fault = h.fault
                  /\ x.delayed = h.delayed /\ x.timeout = h.timeout
                  /\ x.free = h.free
<1> DEFINE x == [h EXCEPT !.ready = @ \ {q}]
<1>1. UnreadyIfEmpty(h, q) = OS_schedule(x)
  BY DEF UnreadyIfEmpty, J_EventQueue_isEmpty
<1>2. /\ x \in KernelState /\ x.list = h.list /\ x.curr = h.curr
      /\ x.ready = h.ready \ {q} /\ x.delayed = h.delayed
      /\ x.timeout = h.timeout /\ x.sema = h.sema /\ x.mutex = h.mutex
      /\ x.count = h.count /\ x.owner = h.owner /\ x.free = h.free
      /\ x.fault = h.fault
  BY DEF Good, KernelState
<1> HIDE DEF x
<1>3. ASSUME x.fault = NoFault PROVE Consistent(x)
  <2>1. Consistent(h)
    BY <1>2, <1>3 DEF Good
  <2>2. ASSUME NEW t \in Threads PROVE WaitsWell(x, t)
    BY <1>2, <2>1 DEF Consistent, WaitsWell, OS_is_blocked
  <2>3. \A t \in Regular : t \in x.list => t \in x.ready \/ t \in x.delayed
    BY <1>2, <2>1 DEF Consistent, Regular
  <2> QED
    BY <1>2, <2>1, <2>2, <2>3 DEF Consistent
<1>4. x.fault = NoFault => EQTsReadyBut(x, {})
  BY <1>2 DEF Good, EQTsReadyBut
<1>5. Good(x, {})
  BY <1>2, <1>3, <1>4 DEF Good
<1> QED
  BY <1>1, <1>2, <1>5 DEF SameResources

\* The round of the pump ends with the EQT ready exactly when events are left.
LEMMA PumpGood ==
    ASSUME NEW k, NEW q \in EQTs, Active(k, q),
           NEW h \in HandlerOutcomes(J_EventQueue_get(k, q))
    PROVE  LET r == UnreadyIfEmpty(h, q)
           IN  Good(r, {}) /\ (r.fault = NoFault => Scheduled(r)) /\ r.curr = q
<1>1. /\ Good(h, {q}) /\ (h.fault = NoFault => Scheduled(h))
      /\ q \in h.ready /\ h.curr = q
  BY HandlerGood
<1>2. CASE h.free[q] = QueueSize
  BY <1>1, <1>2, UnreadyBegins, ScheduleCall
<1>3. CASE h.free[q] # QueueSize
  <2>1. UnreadyIfEmpty(h, q) = h
    BY <1>3 DEF UnreadyIfEmpty, J_EventQueue_isEmpty
  <2>2. h.fault = NoFault => EQTsReadyBut(h, {})
    BY <1>1, <1>3 DEF Good, EQTsReadyBut
  <2> QED
    BY <1>1, <2>1, <2>2 DEF Good
<1> QED
  BY <1>2, <1>3

-----------------------------------------------------------------------------
(* The invariant of the specification.                                     *)

\* Before the tick is enabled nothing is scheduled; once it is, every thread
\* has been started.
BootInv ==
    /\ systick \in BOOLEAN
    /\ systick => OS_thread_list = Threads
    /\ ~systick => OS_curr = NULL /\ OS_next = NULL /\ ~pendsv

IInv ==
    /\ Kernel \in KernelState
    /\ Consistent(Kernel)
    /\ Scheduled(Kernel)
    /\ EQTsReadyBut(Kernel, {})
    /\ fault \in ClientFaults \cup {NoFault}
    /\ BootInv

\* What a step that commits k does to the snapshot.
LEMMA CommitFacts ==
    ASSUME NEW k \in KernelState, Commit(k), Kernel \in KernelState
    PROVE  /\ k.fault = NoFault => Kernel' = k
           /\ k.fault # NoFault => Kernel' = [Kernel EXCEPT !.fault = k.fault]
           /\ fault' = k.fault /\ systick' = systick
<1>1. CASE k.fault = NoFault
  BY <1>1 DEF Commit, Assign, Kernel, KernelState
<1>2. CASE k.fault # NoFault
  BY <1>2 DEF Commit, Assign, Kernel, KernelState
<1> QED
  BY <1>1, <1>2 DEF Commit

\* A step that commits an outcome that meets the invariant preserves it: the
\* outcome replaces the kernel, or its fault is recorded and nothing changes.
LEMMA CommitInv ==
    ASSUME IInv, NEW k \in KernelState, Commit(k),
           k.fault \in ClientFaults \cup {NoFault},
           k.fault = NoFault =>
             /\ Consistent(k) /\ Scheduled(k) /\ EQTsReadyBut(k, {})
             /\ systick => k.list = Threads
             /\ ~systick => k.curr = NULL /\ k.next = NULL /\ ~k.pendsv
    PROVE  IInv'
<1>1. /\ k.fault = NoFault => Kernel' = k
      /\ k.fault # NoFault => Kernel' = [Kernel EXCEPT !.fault = k.fault]
      /\ fault' = k.fault /\ systick' = systick
  BY CommitFacts DEF IInv
<1>2. CASE k.fault = NoFault
  <2>1. /\ OS_thread_list' = Kernel'.list /\ OS_curr' = Kernel'.curr
        /\ OS_next' = Kernel'.next /\ pendsv' = Kernel'.pendsv
    BY DEF Kernel
  <2>2. BootInv'
    BY <1>1, <1>2, <2>1 DEF BootInv, IInv
  <2> QED
    BY <1>1, <1>2, <2>2 DEF IInv
<1>3. CASE k.fault # NoFault
  <2> DEFINE x == Kernel'
  <2>1. /\ x \in KernelState /\ x.list = Kernel.list /\ x.curr = Kernel.curr
        /\ x.next = Kernel.next /\ x.pendsv = Kernel.pendsv
        /\ x.ready = Kernel.ready /\ x.delayed = Kernel.delayed
        /\ x.timeout = Kernel.timeout /\ x.sema = Kernel.sema
        /\ x.mutex = Kernel.mutex /\ x.count = Kernel.count
        /\ x.owner = Kernel.owner /\ x.free = Kernel.free
    BY <1>1, <1>3 DEF IInv, KernelState
  <2>2. /\ OS_thread_list' = OS_thread_list /\ OS_curr' = OS_curr
        /\ OS_next' = OS_next /\ pendsv' = pendsv
    BY <2>1 DEF Kernel
  <2> HIDE DEF x
  <2>3. Consistent(x)
    BY <2>1 DEF IInv, Consistent, WaitsWell, OS_is_blocked
  <2>4. Scheduled(x)
    BY <2>1 DEF IInv, Scheduled, Runnable, CanUnblock, OS_is_blocked
  <2>5. EQTsReadyBut(x, {})
    BY <2>1 DEF IInv, EQTsReadyBut
  <2>6. BootInv'
    BY <1>1, <2>2 DEF BootInv, IInv
  <2> QED
    BY <1>1, <2>1, <2>3, <2>4, <2>5, <2>6 DEF IInv, x
<1> QED
  BY <1>2, <1>3

\* A call by a good kernel ends in a state that meets the invariant.
LEMMA CommitGood ==
    ASSUME IInv, systick, NEW k, Good(k, {}),
           k.fault = NoFault => Scheduled(k),
           Commit(k)
    PROVE  IInv'
BY CommitInv DEF Good

\* The state after a power-on or a reset meets the invariant.
LEMMA PowerOnGood ==
    /\ PowerOn \in KernelState /\ Consistent(PowerOn) /\ Scheduled(PowerOn)
    /\ EQTsReadyBut(PowerOn, {})
    /\ PowerOn.curr = NULL /\ PowerOn.next = NULL /\ ~PowerOn.pendsv
    /\ PowerOn.fault = NoFault
<1>1. 0 \in Threads /\ 0 \notin Regular
  BY KernelAssumption DEF KernelAssumption, Threads, Regular
<1>2. InitCount \in Int /\ InitCount >= 0 /\ InitCount <= MaxCount
  BY KernelAssumption DEF KernelAssumption
<1>3. QueueSize \in Nat
  BY KernelAssumption DEF KernelAssumption
<1> DEFINE k == PowerOn
<1>4. /\ k \in KernelState
      /\ k.list = {0} /\ k.curr = NULL /\ k.next = NULL
      /\ k.ready = {} /\ k.delayed = {} /\ ~k.pendsv
      /\ k.timeout = [p \in Threads |-> 0]
      /\ k.sema = [p \in Threads |-> NULL]
      /\ k.mutex = [p \in Threads |-> NULL]
      /\ k.count = [s \in Semas |-> InitCount]
      /\ k.owner = [m \in Mutexes |-> NULL]
      /\ k.free = [q \in EQTs |-> QueueSize] /\ k.fault = NoFault
  BY <1>1, <1>2, <1>3 DEF PowerOn, KernelState, Faults
<1> HIDE DEF k
<1>6. ASSUME NEW p \in Threads PROVE WaitsWell(k, p)
  BY <1>4 DEF WaitsWell, OS_is_blocked
<1>7. /\ \A p \in Threads : k.timeout[p] >= 0
      /\ \A s \in Semas : k.count[s] >= 0 /\ k.count[s] <= MaxCount
      /\ \A q \in EQTs : k.free[q] >= 0 /\ k.free[q] <= QueueSize
      /\ \A m \in Mutexes : k.owner[m] = NULL
  BY <1>2, <1>3, <1>4
<1>8. \A p \in Regular : p \notin k.list
  BY <1>1, <1>4
<1>9. Consistent(k)
  BY <1>4, <1>6, <1>7, <1>8 DEF Consistent
<1>10. Scheduled(k)
  BY <1>4 DEF Scheduled
<1>11. EQTsReadyBut(k, {})
  BY <1>4, KernelAssumption DEF EQTsReadyBut, KernelAssumption
<1> QED
  BY <1>4, <1>9, <1>10, <1>11 DEF k

\* The first power-on meets it.
LEMMA InitInv == Init => IInv
<1> SUFFICES ASSUME Init PROVE IInv
  OBVIOUS
<1>1. Kernel = PowerOn /\ fault = NoFault /\ systick = FALSE
  BY DEF Init, Kernel, PowerOn
<1>2. BootInv
  BY <1>1, PowerOnGood DEF BootInv, Kernel
<1> QED
  BY <1>1, <1>2, PowerOnGood DEF IInv

\* A thread that runs is in the state its calls need.
LEMMA RunningIsActive ==
    ASSUME IInv, NEW p \in 1 .. NPrio, Running(p)
    PROVE  Active(Kernel, p) /\ systick
<1>1. p # NULL
  BY KernelAssumption DEF KernelAssumption, Threads
<1> QED
  BY <1>1 DEF IInv, BootInv, Running, Active, Good, Kernel

\* main() starts threads one by one, before the tick is enabled.
LEMMA BootStepInv == IInv /\ Boot => IInv'
<1> SUFFICES ASSUME IInv, Boot PROVE IInv'
  OBVIOUS
<1> DEFINE Started(p) == [Kernel EXCEPT !.list = @ \cup {p}, !.ready = @ \cup {p}]
<1>1. ASSUME NEW p \in 1 .. NPrio, Booting, ~systick, p \notin OS_thread_list
      PROVE  LET x == Started(p)
             IN  /\ x \in KernelState /\ Consistent(x)
                 /\ x.ready = Kernel.ready \cup {p}
                 /\ x.list = Kernel.list \cup {p}
                 /\ x.curr = NULL /\ x.next = NULL /\ ~x.pendsv
                 /\ x.free = Kernel.free /\ x.fault = NoFault
  <2> DEFINE x == Started(p)
             k == Kernel
  <2>1. /\ k \in KernelState /\ Consistent(k)
        /\ k.curr = NULL /\ k.next = NULL /\ ~k.pendsv /\ k.fault = NoFault
        /\ p \notin k.list
    BY <1>1 DEF IInv, BootInv, Booting, Kernel
  <2>2. p \in Threads
    BY DEF Threads
  <2> HIDE DEF k
  <2>3. /\ x \in KernelState /\ x.list = k.list \cup {p} /\ x.curr = k.curr
        /\ x.next = k.next /\ x.pendsv = k.pendsv
        /\ x.ready = k.ready \cup {p} /\ x.delayed = k.delayed
        /\ x.timeout = k.timeout /\ x.sema = k.sema /\ x.mutex = k.mutex
        /\ x.count = k.count /\ x.owner = k.owner /\ x.free = k.free
        /\ x.fault = k.fault
    BY <2>1, <2>2 DEF KernelState, k
  <2> HIDE DEF x
  <2>4. ASSUME NEW t \in Threads PROVE WaitsWell(x, t)
    BY <2>1, <2>3 DEF Consistent, WaitsWell, OS_is_blocked
  <2>5. Consistent(x)
    BY <2>1, <2>3, <2>4 DEF Consistent
  <2> QED
    BY <2>1, <2>3, <2>5 DEF x, k
<1>2. ASSUME NEW p \in Regular, OS_Thread_start(p) PROVE IInv'
  <2>1. p \in 1 .. NPrio /\ p \notin EQTs
    BY DEF Regular
  <2> DEFINE x == Started(p)
  <2>2. /\ x \in KernelState /\ Consistent(x)
        /\ x.ready = Kernel.ready \cup {p} /\ x.list = Kernel.list \cup {p}
        /\ x.curr = NULL /\ x.next = NULL /\ ~x.pendsv
        /\ x.free = Kernel.free /\ x.fault = NoFault
    BY <1>1, <1>2, <2>1 DEF OS_Thread_start
  <2>3. Commit(x) /\ ~systick
    BY <1>2 DEF OS_Thread_start
  <2> HIDE DEF x
  <2>4. Scheduled(x) /\ EQTsReadyBut(x, {})
    BY <2>1, <2>2 DEF Scheduled, EQTsReadyBut, IInv
  <2> QED
    BY <2>2, <2>3, <2>4, CommitInv
<1>3. ASSUME NEW q \in EQTs, OS_EventQueue_Thread_start(q) PROVE IInv'
  <2>1. q \in 1 .. NPrio
    BY KernelAssumption DEF KernelAssumption
  <2> DEFINE x == Started(q)
             frees == [x.free EXCEPT ![q] = @ - 1]
             a == J_ASSERT(x, x.free[q] > 0, "event queue full")
             y == [a EXCEPT !.free = frees]
  <2>2. /\ x \in KernelState /\ Consistent(x)
        /\ x.ready = Kernel.ready \cup {q} /\ x.list = Kernel.list \cup {q}
        /\ x.curr = NULL /\ x.next = NULL /\ ~x.pendsv
        /\ x.free = Kernel.free /\ x.fault = NoFault
    BY <1>1, <1>3, <2>1 DEF OS_EventQueue_Thread_start
  <2>3. Commit(J_EventQueue_put(x, q)) /\ ~systick
    BY <1>3 DEF OS_EventQueue_Thread_start
  <2> HIDE DEF x
  <2>4. frees \in [EQTs -> Int]
    BY <2>2 DEF KernelState
  <2>5. /\ a \in KernelState /\ a = [x EXCEPT !.fault = a.fault]
        /\ a.fault \in ClientFaults \cup {NoFault}
        /\ a.fault = NoFault => x.free[q] > 0
    BY <2>2 DEF J_ASSERT, KernelState, Faults, ClientFaults, NoFault
  <2>6. J_EventQueue_put(x, q) = y
    BY <2>5 DEF J_EventQueue_put, KernelState
  <2> HIDE DEF a
  <2>7. /\ y \in KernelState /\ y.list = x.list /\ y.curr = x.curr
        /\ y.next = x.next /\ y.pendsv = x.pendsv
        /\ y.ready = x.ready /\ y.delayed = x.delayed
        /\ y.timeout = x.timeout /\ y.sema = x.sema /\ y.mutex = x.mutex
        /\ y.count = x.count /\ y.owner = x.owner /\ y.free = frees
        /\ y.fault = a.fault
    <3> HIDE DEF frees
    <3> QED BY <2>2, <2>4, <2>5 DEF KernelState
  <2> HIDE DEF y
  <2>8. ASSUME y.fault = NoFault
        PROVE  Consistent(y) /\ y.free[q] # QueueSize
    <3>1. \A e \in EQTs : y.free[e] >= 0 /\ y.free[e] <= QueueSize
      BY <2>2, <2>5, <2>7, <2>8, KernelAssumption
         DEF Consistent, KernelState, KernelAssumption
    <3>2. y.free[q] # QueueSize
      BY <2>2, <2>5, <2>7, <2>8, KernelAssumption
         DEF Consistent, KernelState, KernelAssumption
    <3> QED
      BY <2>2, <2>7, <3>1, <3>2 DEF Consistent, WaitsWell, OS_is_blocked
  <2>9. y.fault = NoFault => Scheduled(y) /\ EQTsReadyBut(y, {})
    BY <2>2, <2>7, <2>8 DEF Scheduled, EQTsReadyBut, IInv, KernelState
  <2> QED
    BY <2>2, <2>3, <2>5, <2>6, <2>7, <2>8, <2>9, CommitInv
<1>4. CASE OS_onStartup
  <2>1. Kernel' = Kernel
    BY <1>4 DEF OS_onStartup, Kernel
  <2> QED
    BY <1>4, <2>1 DEF OS_onStartup, IInv, BootInv
<1>5. CASE OS_run
  <2>1. Good(Kernel, {})
    BY <1>5 DEF OS_run, IInv, BootInv, Good, Kernel
  <2> QED
    BY <1>5, <2>1, ScheduleCall, CommitGood DEF OS_run
<1> QED
  BY <1>2, <1>3, <1>4, <1>5 DEF Boot

\* Once the tick is enabled, the kernel is in a good state between any two
\* steps.
LEMMA KernelIsGood ==
    ASSUME IInv, systick, fault = NoFault
    PROVE  Good(Kernel, {}) /\ Scheduled(Kernel) /\ Kernel.fault = NoFault
BY DEF IInv, BootInv, Good, Kernel

\* The tick: OS_tick, at most three posts, and the scheduler.
LEMMA TickStepInv == IInv /\ SysTick_Handler => IInv'
<1> SUFFICES ASSUME IInv, SysTick_Handler PROVE IInv'
  OBVIOUS
<1>1. systick /\ fault = NoFault
  BY DEF SysTick_Handler, Tick
<1>2. PICK switch1, switch2, knob \in BOOLEAN :
        Commit(OS_schedule(PostIf(PostIf(PostIf(OS_tick(Kernel), switch1),
                                         switch2), knob)))
  BY DEF SysTick_Handler, Tick
<1> DEFINE ticked == OS_tick(Kernel)
           first  == PostIf(ticked, switch1)
           second == PostIf(first, switch2)
           third  == PostIf(second, knob)
<1>3. Good(ticked, {})
  BY <1>1, KernelIsGood, TickGood
<1> HIDE DEF ticked
<1>4. Good(first, {})
  BY <1>3, PostIfGood
<1> HIDE DEF first
<1>5. Good(second, {})
  BY <1>4, PostIfGood
<1> HIDE DEF second
<1>6. Good(third, {})
  BY <1>5, PostIfGood
<1> HIDE DEF third
<1> DEFINE last == OS_schedule(third)
<1>7. Good(last, {}) /\ (last.fault = NoFault => Scheduled(last))
  BY <1>6, ScheduleCall
<1>8. Commit(last)
  BY <1>2 DEF ticked, first, second, third
<1> HIDE DEF last
<1> QED
  BY <1>1, <1>7, <1>8, CommitGood

\* The switch: the thread that was chosen runs.
LEMMA SwitchStepInv == IInv /\ PendSV_Handler => IInv'
<1> SUFFICES ASSUME IInv, PendSV_Handler PROVE IInv'
  OBVIOUS
<1> DEFINE k == Kernel
           x == [Kernel EXCEPT !.curr = OS_next, !.pendsv = FALSE]
<1>1. pendsv /\ fault = NoFault /\ systick
  BY DEF PendSV_Handler, IInv, BootInv
<1>2. /\ k \in KernelState /\ k.list = Threads /\ k.fault = NoFault
      /\ Consistent(k) /\ Scheduled(k) /\ EQTsReadyBut(k, {})
      /\ k.next = OS_next /\ k.pendsv
  BY <1>1 DEF IInv, BootInv, Kernel
<1> HIDE DEF k
<1>3. /\ x \in KernelState /\ x.list = k.list /\ x.curr = k.next
      /\ x.next = k.next /\ ~x.pendsv /\ x.ready = k.ready
      /\ x.delayed = k.delayed /\ x.timeout = k.timeout
      /\ x.sema = k.sema /\ x.mutex = k.mutex /\ x.count = k.count
      /\ x.owner = k.owner /\ x.free = k.free /\ x.fault = k.fault
  BY <1>2 DEF KernelState, k
<1>4. Commit(x)
  BY DEF PendSV_Handler
<1> HIDE DEF x
<1>5. Consistent(x)
  BY <1>2, <1>3 DEF Consistent, WaitsWell, OS_is_blocked
<1>6. Scheduled(x)
  BY <1>2, <1>3 DEF Scheduled, Runnable, CanUnblock, OS_is_blocked
<1>7. EQTsReadyBut(x, {})
  BY <1>2, <1>3 DEF EQTsReadyBut
<1>8. Good(x, {})
  BY <1>2, <1>3, <1>5, <1>7 DEF Good
<1> QED
  BY <1>1, <1>4, <1>6, <1>8, CommitGood

\* The calls of the running thread.
LEMMA ThreadStepInv == ASSUME IInv, NEW p \in Regular, ThreadStep(p) PROVE IInv'
<1>1. p \in 1 .. NPrio
  BY DEF Regular
<1>2. Running(p)
  BY DEF ThreadStep, Delay, Wait, Signal, Acquire, Release, Post
<1>3. Active(Kernel, p) /\ Good(Kernel, {}) /\ systick
  BY <1>1, <1>2, RunningIsActive DEF Active
<1>4. CASE Delay(p)
  <2>1. PICK d \in Delays : Commit(OS_delay(Kernel, p, d))
    BY <1>4 DEF Delay
  <2> QED
    BY <1>3, <2>1, DelayGood, CommitGood
<1>5. ASSUME NEW s \in Semas, Wait(p, s) PROVE IInv'
  <2>1. Commit(J_sema_wait(Kernel, p, s))
    BY <1>5 DEF Wait
  <2> QED
    BY <1>3, <2>1, WaitGood, CommitGood
<1>6. ASSUME NEW s \in Semas, Signal(p, s) PROVE IInv'
  <2>1. Commit(J_sema_signal(Kernel, s))
    BY <1>6 DEF Signal
  <2> QED
    BY <1>3, <2>1, SignalGood, CommitGood
<1>7. ASSUME NEW m \in Mutexes, Acquire(p, m) PROVE IInv'
  <2>1. Commit(J_Mutex_acquire(Kernel, p, m))
    BY <1>7 DEF Acquire
  <2> QED
    BY <1>3, <2>1, AcquireGood, CommitGood
<1>8. ASSUME NEW m \in Mutexes, Release(p, m) PROVE IInv'
  <2>1. Commit(J_Mutex_release(Kernel, p, m))
    BY <1>8 DEF Release
  <2> QED
    BY <1>3, <2>1, ReleaseGood, CommitGood
<1>9. ASSUME NEW q \in EQTs, Post(p, q) PROVE IInv'
  <2>1. Commit(OS_EQT_post(Kernel, q))
    BY <1>9 DEF Post
  <2> QED
    BY <1>3, <2>1, PostGood, CommitGood
<1> QED
  BY <1>4, <1>5, <1>6, <1>7, <1>8, <1>9 DEF ThreadStep

\* One round of the pump.
LEMMA PumpStepInv ==
    ASSUME IInv, NEW q \in EQTs, OS_EventQueue_pump(q) PROVE IInv'
<1>1. Running(q) /\ q \in 1 .. NPrio
  BY KernelAssumption DEF OS_EventQueue_pump, KernelAssumption
<1>2. Active(Kernel, q) /\ systick
  BY <1>1, RunningIsActive
<1>3. PICK h \in HandlerOutcomes(J_EventQueue_get(Kernel, q)) :
        Commit(UnreadyIfEmpty(h, q))
  BY DEF OS_EventQueue_pump
<1> QED
  BY <1>2, <1>3, PumpGood, CommitGood

\* The reset.
LEMMA ResetStepInv == IInv /\ J_on_assert_failed => IInv'
<1> SUFFICES ASSUME IInv, J_on_assert_failed PROVE IInv'
  OBVIOUS
<1>1. Kernel' = PowerOn /\ fault' = NoFault /\ systick' = FALSE
  BY DEF J_on_assert_failed, Assign, Kernel, PowerOn
<1>2. BootInv'
  BY <1>1, PowerOnGood DEF BootInv, Kernel
<1> QED
  BY <1>1, <1>2, PowerOnGood DEF IInv

\* A step that changes nothing keeps everything.
LEMMA StutterInv == IInv /\ UNCHANGED vars => IInv'
<1> SUFFICES ASSUME IInv, UNCHANGED vars PROVE IInv'
  OBVIOUS
<1>1. Kernel' = Kernel /\ systick' = systick /\ fault' = fault
  BY DEF vars, Kernel
<1>2. BootInv'
  BY DEF vars, IInv, BootInv
<1> QED
  BY <1>1, <1>2 DEF IInv

\* Every step preserves the invariant.
LEMMA NextInv == IInv /\ [Next]_vars => IInv'
<1> SUFFICES ASSUME IInv, [Next]_vars PROVE IInv'
  OBVIOUS
<1>1. CASE Boot
  BY <1>1, BootStepInv
<1>2. CASE SysTick_Handler
  BY <1>2, TickStepInv
<1>3. CASE PendSV_Handler
  BY <1>3, SwitchStepInv
<1>4. CASE \E p \in Regular : ThreadStep(p)
  BY <1>4, ThreadStepInv
<1>5. CASE \E q \in EQTs : OS_EventQueue_pump(q)
  BY <1>5, PumpStepInv
<1>6. CASE J_on_assert_failed
  BY <1>6, ResetStepInv
<1>7. CASE UNCHANGED vars
  BY <1>7, StutterInv
<1> QED
  BY <1>1, <1>2, <1>3, <1>4, <1>5, <1>6, <1>7 DEF Next

\* IInv is an inductive invariant of the kernel.
THEOREM Invariance == Spec => []IInv
BY InitInv, NextInv, PTL DEF Spec

-----------------------------------------------------------------------------
(* What the invariant gives.                                               *)

\* Every variable stays in its type: the counters of OS_tick, the semaphores
\* and the event queues neither wrap nor exceed their bounds.
THEOREM TypeCorrect == Spec => []TypeOK
<1>1. IInv => TypeOK
  <2> SUFFICES ASSUME IInv PROVE TypeOK
    OBVIOUS
  <2>1. /\ timeout \in [Threads -> Nat]
        /\ count \in [Semas -> 0 .. MaxCount]
        /\ capacity \in [EQTs -> 0 .. QueueSize]
    BY KernelAssumption
       DEF IInv, KernelState, Kernel, Consistent, KernelAssumption
  <2> QED
    BY <2>1 DEF IInv, BootInv, KernelState, Kernel, Consistent, TypeOK
<1> QED
  BY <1>1, Invariance, PTL

\* No assertion that the kernel makes about its own state can fail, however
\* the application calls it: an assertion that stops the system names a misuse.
THEOREM KernelNeverFails == Spec => []NoKernelFault
<1>1. IInv => NoKernelFault
  BY DEF IInv, NoKernelFault, ClientFaults, KernelFaults, NoFault
<1> QED
  BY <1>1, Invariance, PTL

\* A thread waits for one reason at a time, and a blocked one stays in the
\* ready set, where OS_schedule looks for it.
THEOREM WaitsForOneReason == Spec => []OneReasonToWait
<1>1. IInv => OneReasonToWait
  BY DEF IInv, OneReasonToWait, Consistent, WaitsWell, OS_is_blocked, Kernel
<1> QED
  BY <1>1, Invariance, PTL

\* No thread that was started drops out of both the ready and the delayed set.
THEOREM NobodyIsForgotten == Spec => []NoThreadForgotten
<1>1. IInv => NoThreadForgotten
  BY DEF IInv, NoThreadForgotten, Consistent, Kernel
<1> QED
  BY <1>1, Invariance, PTL

\* An EQT is in the ready set exactly when its queue holds an event, across
\* posts by threads, interrupts and handlers and the pump's own removal.
THEOREM EQTsFollowTheirEvents == Spec => []EQTReadyIffEvents
<1>1. IInv => EQTReadyIffEvents
  BY DEF IInv, EQTReadyIffEvents, EQTsReadyBut, J_EventQueue_isEmpty, Kernel
<1> QED
  BY <1>1, Invariance, PTL

\* Between two calls of OS_schedule nothing makes its choice wrong: no token
\* and no free mutex is left for a waiting thread above OS_next.
THEOREM ScheduleStaysCurrent == Spec => []ScheduleIsCurrent
<1>1. IInv => ScheduleIsCurrent
  BY DEF IInv, ScheduleIsCurrent, Scheduled, Kernel
<1> QED
  BY <1>1, Invariance, PTL

\* The running thread is the chosen one whenever no switch is pending.
THEOREM ChosenThreadIsRunning == Spec => []ChosenThreadRuns
<1>1. IInv => ChosenThreadRuns
  BY DEF IInv, ChosenThreadRuns, Scheduled, Kernel
<1> QED
  BY <1>1, Invariance, PTL

\* No thread waits for a mutex that it owns.
THEOREM OwnersDoNotWait == Spec => []OwnerIsNotWaiting
<1>1. IInv => OwnerIsNotWaiting
  BY DEF IInv, OwnerIsNotWaiting, Consistent, Kernel
<1> QED
  BY <1>1, Invariance, PTL

\* The last OS_schedule of a tick leaves nothing that can run above its choice,
\* not even an EQT that the tick's own posts made ready.
LEMMA LastScheduleChoosesHighest ==
    ASSUME NEW k, Good(k, {}), OS_schedule(k).fault = NoFault
    PROVE  LET y == OS_schedule(k)
           IN  /\ y.next \in y.ready \cup {0}
               /\ \A p \in y.ready : p > y.next => ~Runnable(y, p)
<1> DEFINE y == OS_schedule(k)
<1>1. /\ k \in KernelState /\ k.fault = NoFault /\ Consistent(k)
      /\ y.ready = k.ready /\ y.next = Candidate(k)
  BY ScheduleCall, ScheduleFields DEF Good
<1>2. Scheduled(y)
  BY <1>1, ScheduleGood
<1>3. /\ Candidate(k) # NULL
      /\ Candidate(k) # 0 => Candidate(k) \in k.ready
      /\ \A p \in k.ready : p > Candidate(k) => ~Runnable(k, p)
  BY <1>1, CandidateFacts
<1> HIDE DEF y
<1>4. ASSUME NEW p \in y.ready, p > y.next PROVE ~Runnable(y, p)
  <2>1. CASE p \in EQTs
    <3>1. p \in Threads /\ WaitsWell(k, p)
      BY <1>1, <1>4 DEF Consistent, KernelState, Threads
    <3> QED
      BY <1>1, <1>3, <1>4, <2>1, <3>1 DEF WaitsWell, Runnable
  <2>2. CASE p \notin EQTs
    BY <1>1, <1>2, <1>3, <1>4, <2>2 DEF Scheduled
  <2> QED
    BY <2>1, <2>2
<1> QED
  BY <1>1, <1>3, <1>4 DEF y

\* Every tick that fails no assertion ends with the highest-priority thread
\* that can run chosen, whatever it posted on the way.
THEOREM TickChoosesTheHighest == Spec => TickChoosesHighest
<1>1. ASSUME IInv, SysTick_Handler, fault' = NoFault
      PROVE  /\ OS_next' \in OS_ready_set' \cup {0}
             /\ \A p \in OS_ready_set' : p > OS_next' => ~Runnable(Kernel, p)'
  <2>1. systick /\ fault = NoFault
    BY <1>1 DEF SysTick_Handler, Tick
  <2>2. PICK switch1, switch2, knob \in BOOLEAN :
          Commit(OS_schedule(PostIf(PostIf(PostIf(OS_tick(Kernel), switch1),
                                           switch2), knob)))
    BY <1>1 DEF SysTick_Handler, Tick
  <2> DEFINE ticked == OS_tick(Kernel)
             first  == PostIf(ticked, switch1)
             second == PostIf(first, switch2)
             third  == PostIf(second, knob)
  <2>3. Good(ticked, {})
    BY <1>1, <2>1, KernelIsGood, TickGood
  <2> HIDE DEF ticked
  <2>4. Good(first, {})
    BY <2>3, PostIfGood
  <2> HIDE DEF first
  <2>5. Good(second, {})
    BY <2>4, PostIfGood
  <2> HIDE DEF second
  <2>6. Good(third, {})
    BY <2>5, PostIfGood
  <2>7. Commit(OS_schedule(third))
    BY <2>2 DEF ticked, first, second
  <2> HIDE DEF third
  <2> DEFINE last == OS_schedule(third)
  <2>8. last \in KernelState
    BY <2>6, ScheduleCall DEF Good
  <2>9. last.fault = NoFault
    BY <1>1, <2>7 DEF Commit
  <2>10. /\ last.next \in last.ready \cup {0}
         /\ \A p \in last.ready : p > last.next => ~Runnable(last, p)
    BY <2>6, <2>9, LastScheduleChoosesHighest
  <2> HIDE DEF last
  <2>11. Kernel' = last
    BY <1>1, <2>7, <2>8, <2>9, CommitFacts DEF IInv, last
  <2>12. OS_next' = last.next /\ OS_ready_set' = last.ready
    BY <2>11 DEF Kernel
  <2> QED
    BY <2>10, <2>11, <2>12 DEF Runnable, CanUnblock, OS_is_blocked
<1>2. IInv /\ [Next]_vars =>
        [ SysTick_Handler /\ fault' = NoFault =>
          /\ OS_next' \in OS_ready_set' \cup {0}
          /\ \A p \in OS_ready_set' : p > OS_next' => ~Runnable(Kernel, p)' ]_vars
  BY <1>1
<1> QED
  BY <1>2, Invariance, PTL DEF Spec, TickChoosesHighest

-----------------------------------------------------------------------------
(* Mutexes change hands.                                                   *)

\* OS_schedule has no mutex to hand over in k: a thread that is not blocked
\* comes before every regular thread that waits for a free mutex.
NoneToHandOverBy(k, n) ==
    /\ n \in k.ready \cup {0}
    /\ ~OS_is_blocked(k, n)
    /\ \A p \in k.ready \ EQTs : p > n /\ k.mutex[p] # NULL =>
            k.owner[k.mutex[p]] # NULL
NoneToHandOver(k) == \E n \in Threads : NoneToHandOverBy(k, n)
Quiet(k) == k.fault = NoFault => NoneToHandOver(k)

\* From k to y every mutex keeps its owner and its waiters.
KeepsMutexes(k, y) ==
    /\ Quiet(y)
    /\ y.fault = NoFault =>
         k.fault = NoFault /\ y.owner = k.owner /\ y.mutex = k.mutex

\* From k to y, mutexes were handed only to y.next, the first of those that
\* waited for them; p may have taken or released one itself.
HandsOver(k, y, p) ==
    \A m \in Mutexes : y.owner[m] # k.owner[m] =>
        /\ k.owner[m] # NULL => k.owner[m] = p
        /\ y.owner[m] # NULL =>
             \/ y.owner[m] = p
             \/ /\ k.mutex[y.owner[m]] = m
                /\ y.next = y.owner[m]
                /\ \A t \in Threads : k.mutex[t] = m => t <= y.owner[m]

\* OS_schedule hands a mutex over when it was free, and only to the first of
\* those that wait for it.
LEMMA ScheduleHandsOver ==
    ASSUME NEW k, NEW X, Good(k, X), k.fault = NoFault, NEW m \in Mutexes,
           OS_schedule(k).owner[m] # k.owner[m]
    PROVE  LET n == OS_schedule(k).next
           IN  /\ n \in Threads /\ n # NULL
               /\ k.owner[m] = NULL /\ OS_schedule(k).owner[m] = n
               /\ k.mutex[n] = m
               /\ \A t \in Threads : k.mutex[t] = m => t <= n
<1> DEFINE n == Candidate(k)
           y == OS_schedule(k)
<1>1. k \in KernelState /\ Consistent(k) /\ y.next = n
  BY ScheduleFields DEF Good
<1>2. /\ n \in Threads /\ n # NULL /\ WaitsWell(k, n)
      /\ n # 0 => n \in k.ready /\ Runnable(k, n)
      /\ \A p \in k.ready : p > n => ~Runnable(k, p)
  BY <1>1, CandidateFacts DEF Consistent
<1>3. y.owner = IF k.mutex[n] # NULL
                THEN [k.owner EXCEPT ![k.mutex[n]] = n] ELSE k.owner
  BY <1>1, ScheduleReleases
<1> HIDE DEF n, y
<1>4. k.mutex[n] = m /\ y.owner[m] = n /\ m # NULL
  BY <1>1, <1>2, <1>3, KernelAssumption DEF KernelState, KernelAssumption, y
<1>5. k.owner[m] = NULL
  <2>1. n # 0 /\ k.sema[n] = NULL
    BY <1>1, <1>2, <1>4 DEF WaitsWell, OS_is_blocked, KernelState
  <2> QED
    BY <1>2, <1>4, <2>1 DEF Runnable, CanUnblock, OS_is_blocked
<1>6. ASSUME NEW t \in Threads, k.mutex[t] = m PROVE t <= n
  <2>1. t \in k.ready /\ k.sema[t] = NULL
    BY <1>1, <1>4, <1>6 DEF Consistent, WaitsWell, OS_is_blocked
  <2>2. Runnable(k, t)
    BY <1>5, <1>6, <2>1 DEF Runnable, CanUnblock
  <2> QED
    BY <1>2, <2>1, <2>2 DEF Threads
<1> QED
  BY <1>1, <1>2, <1>4, <1>5, <1>6 DEF y

\* When there is nothing to hand over, it hands nothing over.
LEMMA QuietSchedule ==
    ASSUME NEW k, NEW X, Good(k, X), Quiet(k)
    PROVE  KeepsMutexes(k, OS_schedule(k))
<1> DEFINE c == Candidate(k)
           y == OS_schedule(k)
<1>1. k \in KernelState /\ y.fault = k.fault /\ y.ready = k.ready
  BY ScheduleCall DEF Good
<1>2. SUFFICES ASSUME k.fault = NoFault
               PROVE  NoneToHandOver(y) /\ y.owner = k.owner /\ y.mutex = k.mutex
  BY <1>1 DEF KeepsMutexes, Quiet
<1>3. Consistent(k)
  BY <1>2 DEF Good
<1>4. /\ c \in Threads /\ WaitsWell(k, c)
      /\ c # 0 => c \in k.ready /\ Runnable(k, c)
      /\ \A p \in k.ready : p > c => ~Runnable(k, p)
  BY <1>1, <1>3, CandidateFacts DEF Consistent
<1>5. PICK n \in Threads : NoneToHandOverBy(k, n)
  BY <1>2 DEF Quiet, NoneToHandOver
<1>6. /\ y.sema = [k.sema EXCEPT ![c] = NULL]
      /\ y.mutex = [k.mutex EXCEPT ![c] = NULL]
      /\ y.owner = IF k.mutex[c] # NULL
                   THEN [k.owner EXCEPT ![k.mutex[c]] = c] ELSE k.owner
  BY <1>1, <1>3, ScheduleReleases
<1> HIDE DEF c, y
<1>7. k.mutex[c] = NULL
  <2>1. CASE c = 0 \/ c = n \/ c \in EQTs
    BY <1>1, <1>4, <1>5, <2>1
       DEF NoneToHandOverBy, WaitsWell, OS_is_blocked, KernelState
  <2>2. CASE c # 0 /\ c > n /\ c \notin EQTs
    BY <1>4, <1>5, <2>2
       DEF NoneToHandOverBy, WaitsWell, Runnable, CanUnblock, OS_is_blocked
  <2>3. CASE n > c
    BY <1>4, <1>5, <2>3 DEF NoneToHandOverBy, Runnable, Threads
  <2> QED
    BY <1>4, <2>1, <2>2, <2>3 DEF Threads
<1>8. y.owner = k.owner /\ y.mutex = k.mutex
  BY <1>1, <1>6, <1>7 DEF KernelState
<1>9. y.sema[n] = NULL
  BY <1>1, <1>5, <1>6 DEF NoneToHandOverBy, OS_is_blocked, KernelState
<1>10. NoneToHandOverBy(y, n)
  BY <1>1, <1>5, <1>8, <1>9 DEF NoneToHandOverBy, OS_is_blocked
<1> QED
  BY <1>8, <1>10 DEF NoneToHandOver

\* What OS_schedule chose leaves nothing to hand over.
LEMMA ScheduledIsQuiet ==
    ASSUME NEW k \in KernelState, Consistent(k), Scheduled(k), k.next # NULL
    PROVE  NoneToHandOver(k)
<1>1. k.next \in Threads /\ 0 \in Threads /\ k.ready \subseteq Threads
  BY KernelAssumption DEF KernelState, KernelAssumption, Threads
<1>2. ~OS_is_blocked(k, k.next)
  BY <1>1 DEF Scheduled, Consistent, WaitsWell, KernelState
<1>3. ASSUME NEW p \in k.ready, p \notin EQTs, p > k.next, k.mutex[p] # NULL
      PROVE  k.owner[k.mutex[p]] # NULL
  BY <1>1, <1>3
     DEF Scheduled, Consistent, WaitsWell, Runnable, CanUnblock
<1>4. k.next \in k.ready \cup {0}
  BY DEF Scheduled
<1> QED
  BY <1>1, <1>2, <1>3, <1>4 DEF NoneToHandOver, NoneToHandOverBy

\* Neither do events, more ready threads that wait for no mutex, or tokens
\* given to semaphores.
LEMMA QuietFrame ==
    ASSUME NEW k, NEW x, Quiet(k), x.fault = NoFault => k.fault = NoFault,
           x.sema = k.sema, x.mutex = k.mutex, x.owner = k.owner,
           k.ready \subseteq x.ready,
           \A p \in x.ready \ k.ready : p \in EQTs \/ k.mutex[p] = NULL
    PROVE  KeepsMutexes(k, x)
<1>1. ASSUME NEW n \in Threads, NoneToHandOverBy(k, n)
      PROVE  NoneToHandOverBy(x, n)
  BY <1>1 DEF NoneToHandOverBy, OS_is_blocked
<1> QED
  BY <1>1 DEF KeepsMutexes, Quiet, NoneToHandOver

\* Steps that leave the mutexes alone compose to one that does.
LEMMA KeepsTransitive ==
    ASSUME NEW k, NEW x, NEW y, KeepsMutexes(k, x), KeepsMutexes(x, y)
    PROVE  KeepsMutexes(k, y)
BY DEF KeepsMutexes

\* Where no waiter could be handed a free mutex, signalling a semaphore changes
\* no owner.
LEMMA QuietSignal ==
    ASSUME NEW k, NEW X, Good(k, X), Quiet(k), NEW s \in Semas
    PROVE  KeepsMutexes(k, J_sema_signal(k, s))
<1>1. PICK x : /\ J_sema_signal(k, s) = OS_schedule(x)
               /\ Good(x, X) /\ x.ready = k.ready /\ TokenGiven(k, s, x)
  BY SignalBegins
<1>2. KeepsMutexes(k, x)
  BY <1>1, QuietFrame DEF TokenGiven
<1>3. KeepsMutexes(x, OS_schedule(x))
  BY <1>1, <1>2, QuietSchedule DEF KeepsMutexes
<1> QED
  BY <1>1, <1>2, <1>3, KeepsTransitive

\* Nor does posting an event,
LEMMA QuietPost ==
    ASSUME NEW k, NEW X, Good(k, X), Quiet(k), NEW q \in EQTs
    PROVE  KeepsMutexes(k, OS_EQT_post(k, q))
<1> DEFINE x == J_EventQueue_put(k, q)
           y == OS_schedule(x)
<1>1. /\ Good(x, X \cup {q}) /\ SameResources(k, x) /\ x.ready = k.ready
      /\ x.fault = NoFault => k.fault = NoFault
  BY PutGood
<1> HIDE DEF x
<1>2. KeepsMutexes(k, x)
  BY <1>1, QuietFrame DEF SameResources
<1>3. KeepsMutexes(x, y)
  BY <1>1, <1>2, QuietSchedule DEF KeepsMutexes
<1>4. Good(y, X \cup {q})
  BY <1>1, ScheduleCall
<1> HIDE DEF y
<1>5. OS_EQT_post(k, q) = [y EXCEPT !.ready = @ \cup {q}]
  BY DEF OS_EQT_post, OS_set_EQT_to_ready, x, y
<1>6. KeepsMutexes(y, [y EXCEPT !.ready = @ \cup {q}])
  <2> DEFINE z == [y EXCEPT !.ready = @ \cup {q}]
  <2>1. /\ z.sema = y.sema /\ z.mutex = y.mutex /\ z.owner = y.owner
        /\ z.fault = y.fault /\ z.ready = y.ready \cup {q}
    BY <1>4 DEF Good, KernelState
  <2> HIDE DEF z
  <2> QED
    <3>1. /\ \A p \in z.ready \ y.ready : p \in EQTs \/ y.mutex[p] = NULL
          /\ y.ready \subseteq z.ready /\ Quiet(y)
      BY <1>3, <2>1 DEF KeepsMutexes
    <3>2. KeepsMutexes(y, z)
      BY <2>1, <3>1, QuietFrame
    <3> QED
      BY <3>2 DEF z
<1> QED
  BY <1>2, <1>3, <1>5, <1>6, KeepsTransitive

\* A thread whose delay ends waits for no mutex.
LEMMA QuietTick ==
    ASSUME NEW k, Good(k, {}), k.fault = NoFault, Quiet(k)
    PROVE  KeepsMutexes(k, OS_tick(k))
<1> DEFINE due == {p \in k.delayed : k.timeout[p] = 1}
           a == J_ASSERT(k, \A p \in k.delayed : k.timeout[p] # 0, "timeout is 0")
           x == OS_tick(k)
<1>1. /\ a \in KernelState /\ a = [k EXCEPT !.fault = a.fault]
  BY DEF J_ASSERT, Good, KernelState, Faults, ClientFaults
<1> HIDE DEF a
<1>2. /\ x.sema = k.sema /\ x.mutex = k.mutex /\ x.owner = k.owner
      /\ x.ready = k.ready \cup due
  BY <1>1 DEF OS_tick, a, Good, KernelState
<1>3. ASSUME NEW p \in due PROVE k.mutex[p] = NULL
  <2>1. p \in Threads /\ WaitsWell(k, p)
    BY DEF Good, Consistent, KernelState, Threads
  <2> QED
    BY <2>1 DEF WaitsWell, OS_is_blocked
<1> HIDE DEF x, due
<1> QED
  BY <1>2, <1>3, QuietFrame DEF x

\* or posting one if an input has happened.
LEMMA QuietPostIf ==
    ASSUME NEW k, Good(k, {}), Quiet(k), NEW happened \in BOOLEAN
    PROVE  KeepsMutexes(k, PostIf(k, happened))
<1>1. CASE happened
  BY <1>1, QuietPost, KernelAssumption DEF PostIf, KernelAssumption
<1>2. CASE ~happened
  BY <1>2 DEF PostIf, KeepsMutexes
<1> QED
  BY <1>1, <1>2

\* An event handler hands nothing over: it signals or posts.
LEMMA QuietHandler ==
    ASSUME NEW k, NEW q \in EQTs, Active(k, q), Quiet(k),
           NEW h \in HandlerOutcomes(J_EventQueue_get(k, q))
    PROVE  KeepsMutexes(k, h)
<1> DEFINE g == J_EventQueue_get(k, q)
<1>1. Good(g, {q}) /\ SameResources(k, g) /\ g.ready = k.ready
  BY GetGood
<1>2. h \in HandlerOutcomes(g)
  OBVIOUS
<1> HIDE DEF g
<1>3. KeepsMutexes(k, g)
  BY <1>1, QuietFrame DEF Active, SameResources
<1>4. Quiet(g)
  BY <1>3 DEF KeepsMutexes
<1>5. KeepsMutexes(g, h)
  <2>1. CASE h = g
    BY <1>4, <2>1 DEF KeepsMutexes
  <2>2. CASE h \in {J_sema_signal(g, s) : s \in Semas}
    BY <1>1, <1>4, <2>2, QuietSignal
  <2>3. CASE h \in {OS_EQT_post(g, r) : r \in EQTs}
    BY <1>1, <1>4, <2>3, QuietPost
  <2> QED
    BY <1>2, <2>1, <2>2, <2>3 DEF HandlerOutcomes
<1> QED
  BY <1>3, <1>5, KeepsTransitive

\* A call that begins by moving no mutex ends in OS_schedule handing over at
\* most what waited before the call.
LEMMA SameThenSchedule ==
    ASSUME NEW k, NEW X, NEW x, NEW p, Good(x, X), x.fault = NoFault,
           x.owner = k.owner, x.mutex = k.mutex
    PROVE  HandsOver(k, OS_schedule(x), p)
<1> DEFINE y == OS_schedule(x)
<1> SUFFICES ASSUME NEW m \in Mutexes, y.owner[m] # k.owner[m]
             PROVE  /\ k.owner[m] = NULL
                    /\ k.mutex[y.owner[m]] = m /\ y.next = y.owner[m]
                    /\ \A t \in Threads : k.mutex[t] = m => t <= y.owner[m]
  BY DEF HandsOver
<1> QED
  BY ScheduleHandsOver

\* A thread that blocks on a mutex does not get it in the same call.
LEMMA AcquireHandsOver ==
    ASSUME NEW k, NEW p \in Regular, Active(k, p), NEW m \in Mutexes,
           J_Mutex_acquire(k, p, m).fault = NoFault
    PROVE  HandsOver(k, J_Mutex_acquire(k, p, m), p)
<1>1. k \in KernelState /\ p \in Threads /\ k.mutex[p] = NULL
  BY ActiveIsClean
<1>2. CASE k.owner[m] = NULL
  <2>1. J_Mutex_acquire(k, p, m) = [k EXCEPT !.owner = [k.owner EXCEPT ![m] = p]]
    BY <1>1, <1>2, KernelAssumption
       DEF J_Mutex_acquire, J_ASSERT, KernelAssumption, KernelState
  <2>2. J_Mutex_acquire(k, p, m).owner = [k.owner EXCEPT ![m] = p]
    BY <1>1, <2>1 DEF KernelState
  <2> QED
    BY <1>1, <1>2, <2>2 DEF HandsOver, KernelState
<1>3. CASE k.owner[m] # NULL
  <2>1. PICK x : /\ J_Mutex_acquire(k, p, m) = OS_schedule(x)
                 /\ Good(x, {}) /\ MutexWaited(k, p, m, x)
    BY <1>3, AcquireBlocks
  <2> DEFINE y == OS_schedule(x)
  <2>2. x.fault = NoFault
    BY <2>1, ScheduleCall
  <2> SUFFICES ASSUME NEW o \in Mutexes, y.owner[o] # k.owner[o]
               PROVE  /\ k.owner[o] = NULL
                      /\ k.mutex[y.owner[o]] = o /\ y.next = y.owner[o]
                      /\ \A t \in Threads : k.mutex[t] = o => t <= y.owner[o]
    BY <2>1 DEF HandsOver
  <2>3. /\ y.next \in Threads /\ y.next # NULL
        /\ x.owner[o] = NULL /\ y.owner[o] = y.next /\ x.mutex[y.next] = o
        /\ \A t \in Threads : x.mutex[t] = o => t <= y.next
    <3>1. y.owner[o] # x.owner[o]
      BY <2>1 DEF MutexWaited
    <3>2. Good(x, {})
      BY <2>1
    <3> QED
      BY <2>2, <3>1, <3>2, ScheduleHandsOver
  <2> HIDE DEF y
  <2>4. x.owner = k.owner /\ x.mutex = [k.mutex EXCEPT ![p] = m]
    BY <2>1 DEF MutexWaited
  <2>5. y.next # p /\ o # NULL
    BY <1>1, <1>3, <2>3, <2>4, KernelAssumption DEF KernelState, KernelAssumption
  <2>6. \A t \in Threads : k.mutex[t] = o => x.mutex[t] = o
    BY <1>1, <2>4, <2>5 DEF KernelState
  <2> QED
    BY <1>1, <2>3, <2>4, <2>5, <2>6 DEF KernelState
<1> QED
  BY <1>2, <1>3

\* The second OS_schedule of a release changes nothing of what the first did.
LEMMA ScheduleTwice ==
    ASSUME NEW x, Good(x, {}), x.fault = NoFault
    PROVE  LET y == OS_schedule(x)
               z == OS_schedule(y)
           IN  z.owner = y.owner /\ z.next = y.next
<1> DEFINE y == OS_schedule(x)
           z == OS_schedule(y)
           c == Candidate(y)
<1>1. /\ Good(y, {}) /\ Scheduled(y) /\ y.fault = NoFault
      /\ y.next = Candidate(x) /\ y.ready = x.ready
  BY ScheduleCall, ScheduleFields DEF Good
<1>2. x \in KernelState /\ y \in KernelState /\ Consistent(x) /\ Consistent(y)
  BY <1>1 DEF Good
<1>3. /\ y.next \in Threads /\ y.next # NULL
      /\ y.next # 0 => y.next \in y.ready /\ Runnable(y, y.next)
      /\ \A p \in y.ready : p > y.next => ~Runnable(y, p)
  BY <1>1, <1>2, CandidateFacts, LastScheduleChoosesHighest
     DEF Scheduled, Runnable
<1> HIDE DEF y
<1>4. z.owner = y.owner
  BY <1>1, <1>2, <1>3, ScheduledIsQuiet, QuietSchedule, ScheduleCall
     DEF Quiet, KeepsMutexes
<1>5. /\ c \in Threads
      /\ c # 0 => c \in y.ready /\ Runnable(y, c)
      /\ \A p \in y.ready : p > c => ~Runnable(y, p)
  BY <1>2, CandidateFacts
<1> HIDE DEF c
<1>6. c = y.next
  BY <1>3, <1>5 DEF Threads
<1> QED
  BY <1>2, <1>4, <1>6, ScheduleFields DEF c, y

\* A release frees the mutex, or hands it to the first of its waiters, although
\* it schedules twice.
LEMMA ReleaseHandsOver ==
    ASSUME NEW k, NEW p \in Regular, Active(k, p), NEW m \in Mutexes,
           J_Mutex_release(k, p, m).fault = NoFault
    PROVE  HandsOver(k, J_Mutex_release(k, p, m), p)
<1>1. PICK x : /\ J_Mutex_release(k, p, m) = OS_schedule(OS_schedule(x))
               /\ Good(x, {}) /\ MutexFreed(k, p, m, x)
  BY ReleaseBegins
<1> DEFINE y == OS_schedule(x)
           z == OS_schedule(y)
<1>2. x.fault = NoFault /\ z.owner = y.owner /\ z.next = y.next
  BY <1>1, ScheduleCall, ScheduleTwice
<1>3. k.owner[m] = p /\ x.owner = [k.owner EXCEPT ![m] = NULL] /\ x.mutex = k.mutex
  BY <1>1, <1>2 DEF MutexFreed
<1>4. k.owner \in [Mutexes -> Threads \cup {NULL}]
  BY DEF Active, Good, KernelState
<1>5. ASSUME NEW o \in Mutexes, y.owner[o] # k.owner[o]
      PROVE  /\ k.owner[o] # NULL => k.owner[o] = p
             /\ y.owner[o] # NULL =>
                  /\ k.mutex[y.owner[o]] = o /\ y.next = y.owner[o]
                  /\ \A t \in Threads : k.mutex[t] = o => t <= y.owner[o]
  <2>1. CASE y.owner[o] = x.owner[o]
    BY <1>3, <1>4, <1>5, <2>1
  <2>2. CASE y.owner[o] # x.owner[o]
    <3>1. /\ x.owner[o] = NULL /\ y.owner[o] = y.next /\ x.mutex[y.next] = o
          /\ \A t \in Threads : x.mutex[t] = o => t <= y.next
      <4>1. Good(x, {})
        BY <1>1
      <4> QED
        BY <1>2, <2>2, <4>1, ScheduleHandsOver
    <3> HIDE DEF y
    <3> QED
      BY <1>3, <1>4, <3>1
  <2> QED
    BY <2>1, <2>2
<1> HIDE DEF y, z
<1> QED
  BY <1>1, <1>2, <1>5 DEF HandsOver, y, z

\* An EQT that has run out of events may leave a thread that waits for a free
\* mutex as the one to run.
LEMMA PumpHandsOver ==
    ASSUME NEW k, NEW q \in EQTs, Active(k, q), Quiet(k),
           NEW h \in HandlerOutcomes(J_EventQueue_get(k, q)),
           UnreadyIfEmpty(h, q).fault = NoFault
    PROVE  HandsOver(k, UnreadyIfEmpty(h, q), q)
<1>1. Good(h, {q}) /\ KeepsMutexes(k, h)
  BY HandlerGood, QuietHandler
<1>2. CASE h.free[q] = QueueSize
  <2>1. PICK x : /\ UnreadyIfEmpty(h, q) = OS_schedule(x)
                 /\ Good(x, {}) /\ SameResources(h, x) /\ x.fault = h.fault
    BY <1>1, <1>2, UnreadyBegins
  <2>2. x.fault = NoFault
    BY <2>1, ScheduleCall
  <2>3. x.owner = k.owner /\ x.mutex = k.mutex
    BY <1>1, <2>1, <2>2 DEF KeepsMutexes, SameResources
  <2> QED
    BY <2>1, <2>2, <2>3, SameThenSchedule
<1>3. CASE h.free[q] # QueueSize
  BY <1>1, <1>3 DEF UnreadyIfEmpty, J_EventQueue_isEmpty, KeepsMutexes, HandsOver
<1> QED
  BY <1>2, <1>3

\* What a thread that runs does to the mutexes.
LEMMA ThreadHandsOver ==
    ASSUME IInv, NEW p \in Regular, ThreadStep(p)
    PROVE  \E k \in KernelState :
              Commit(k) /\ (k.fault = NoFault => HandsOver(Kernel, k, p))
<1>1. p \in 1 .. NPrio
  BY DEF Regular
<1>2. Running(p)
  BY DEF ThreadStep, Delay, Wait, Signal, Acquire, Release, Post
<1>3. Active(Kernel, p) /\ Good(Kernel, {})
  BY <1>1, <1>2, RunningIsActive DEF Active
<1>4. Quiet(Kernel)
  BY <1>3, ActiveIsClean, ScheduledIsQuiet, KernelAssumption
     DEF Active, Good, Quiet, KernelAssumption
<1>5. CASE Delay(p)
  <2>1. PICK d \in Delays : Commit(OS_delay(Kernel, p, d))
    BY <1>5 DEF Delay
  <2>2. PICK x : /\ OS_delay(Kernel, p, d) = OS_schedule(x)
                 /\ Good(x, {}) /\ SameResources(Kernel, x)
    BY <1>3, DelayBegins
  <2>3. /\ Good(OS_schedule(x), {})
        /\ OS_schedule(x).fault = NoFault => HandsOver(Kernel, OS_schedule(x), p)
    BY <2>2, ScheduleCall, SameThenSchedule DEF SameResources
  <2> QED
    BY <2>1, <2>2, <2>3 DEF Good
<1>6. ASSUME NEW s \in Semas, Wait(p, s)
      PROVE  \E k \in KernelState :
                Commit(k) /\ (k.fault = NoFault => HandsOver(Kernel, k, p))
  <2> DEFINE k == J_sema_wait(Kernel, p, s)
  <2>1. Commit(k) /\ k \in KernelState
    BY <1>3, <1>6, WaitGood DEF Wait, Good
  <2>2. CASE Kernel.count[s] > 0
    <3>1. k.owner = Kernel.owner
      BY <2>2 DEF J_sema_wait, Kernel
    <3> QED
      BY <2>1, <3>1 DEF HandsOver
  <2>3. CASE ~(Kernel.count[s] > 0)
    <3>1. PICK x : /\ k = OS_schedule(x)
                   /\ Good(x, {}) /\ SemaWaited(Kernel, p, s, x)
      BY <1>3, <2>3, WaitBlocks
    <3>2. x.mutex = Kernel.mutex /\ x.owner = Kernel.owner
      BY <3>1 DEF SemaWaited
    <3> HIDE DEF k
    <3>3. k.fault = NoFault => HandsOver(Kernel, k, p)
      BY <3>1, <3>2, ScheduleCall, SameThenSchedule
    <3> QED
      BY <2>1, <3>3
  <2> QED
    BY <2>2, <2>3
<1>7. ASSUME NEW k, Good(k, {}), Commit(k), KeepsMutexes(Kernel, k)
      PROVE  \E y \in KernelState :
                Commit(y) /\ (y.fault = NoFault => HandsOver(Kernel, y, p))
  BY <1>7 DEF Good, KeepsMutexes, HandsOver
<1>8. CASE \E s \in Semas : Signal(p, s)
  BY <1>3, <1>4, <1>7, <1>8, SignalGood, QuietSignal DEF Signal
<1>9. CASE \E q \in EQTs : Post(p, q)
  BY <1>3, <1>4, <1>7, <1>9, PostGood, QuietPost DEF Post
<1>10. CASE \E m \in Mutexes : Acquire(p, m)
  BY <1>3, <1>10, AcquireGood, AcquireHandsOver DEF Acquire, Good
<1>11. CASE \E m \in Mutexes : Release(p, m)
  BY <1>3, <1>11, ReleaseGood, ReleaseHandsOver DEF Release, Good
<1> QED
  BY <1>5, <1>6, <1>8, <1>9, <1>10, <1>11 DEF ThreadStep

\* A tick ends in OS_schedule, called in a good state; up to there it handed
\* over no mutex if there was none to hand over.
LEMMA TickSchedules ==
    ASSUME IInv, SysTick_Handler
    PROVE  \E x : /\ Good(x, {}) /\ Commit(OS_schedule(x))
                  /\ Quiet(Kernel) => KeepsMutexes(Kernel, x)
<1>1. systick /\ fault = NoFault
  BY DEF SysTick_Handler, Tick
<1>2. PICK switch1, switch2, knob \in BOOLEAN :
        Commit(OS_schedule(PostIf(PostIf(PostIf(OS_tick(Kernel), switch1),
                                         switch2), knob)))
  BY DEF SysTick_Handler, Tick
<1> DEFINE k == Kernel
           ticked == OS_tick(k)
           first  == PostIf(ticked, switch1)
           second == PostIf(first, switch2)
           third  == PostIf(second, knob)
<1>3. Good(k, {}) /\ k.fault = NoFault
  BY <1>1, KernelIsGood
<1>4. Commit(OS_schedule(third))
  BY <1>2
<1> HIDE DEF k
<1>5. Good(ticked, {}) /\ (Quiet(k) => KeepsMutexes(k, ticked))
  BY <1>3, TickGood, QuietTick
<1> HIDE DEF ticked
<1>6. Good(first, {}) /\ (Quiet(k) => KeepsMutexes(k, first))
  BY <1>5, PostIfGood, QuietPostIf, KeepsTransitive DEF KeepsMutexes
<1> HIDE DEF first
<1>7. Good(second, {}) /\ (Quiet(k) => KeepsMutexes(k, second))
  BY <1>6, PostIfGood, QuietPostIf, KeepsTransitive DEF KeepsMutexes
<1> HIDE DEF second
<1>8. Good(third, {}) /\ (Quiet(k) => KeepsMutexes(k, third))
  BY <1>7, PostIfGood, QuietPostIf, KeepsTransitive DEF KeepsMutexes
<1> HIDE DEF third
<1> QED
  BY <1>4, <1>8 DEF k

\* While main() runs, before the first thread is chosen, no thread waits for a
\* mutex, although the tick may interrupt.
NobodyWaitsYet ==
    OS_next = NULL => \A p \in Threads : blocking_mutex[p] = NULL

\* Starting threads, enabling the tick and switching contexts choose no thread
\* and touch no mutex.
LEMMA QuietSteps ==
    ASSUME \/ \E r \in Regular : OS_Thread_start(r)
           \/ \E q \in EQTs : OS_EventQueue_Thread_start(q)
           \/ OS_onStartup \/ PendSV_Handler
    PROVE  UNCHANGED <<OS_next, blocking_mutex, owned_by>>
<1>1. ASSUME NEW k, Commit(k), k.next = OS_next, k.mutex = blocking_mutex,
             k.owner = owned_by
      PROVE  UNCHANGED <<OS_next, blocking_mutex, owned_by>>
  BY <1>1 DEF Commit, Assign, Kernel
<1>2. CASE \E r \in Regular : OS_Thread_start(r)
  BY <1>1, <1>2 DEF OS_Thread_start, Kernel
<1>3. CASE \E q \in EQTs : OS_EventQueue_Thread_start(q)
  <2>1. PICK q \in EQTs : OS_EventQueue_Thread_start(q)
    BY <1>3
  <2> DEFINE x == [Kernel EXCEPT !.list = @ \cup {q}, !.ready = @ \cup {q}]
             k == J_EventQueue_put(x, q)
  <2>2. x.next = OS_next /\ x.mutex = blocking_mutex /\ x.owner = owned_by
    BY DEF Kernel
  <2>3. Commit(k)
    BY <2>1 DEF OS_EventQueue_Thread_start
  <2>4. k.next = x.next /\ k.mutex = x.mutex /\ k.owner = x.owner
    BY DEF J_EventQueue_put, J_ASSERT, Kernel
  <2> HIDE DEF k, x
  <2> QED
    BY <1>1, <2>2, <2>3, <2>4
<1>4. CASE OS_onStartup
  BY <1>4 DEF OS_onStartup
<1>5. CASE PendSV_Handler
  BY <1>1, <1>5 DEF PendSV_Handler, Kernel
<1> QED
  BY <1>2, <1>3, <1>4, <1>5

\* The first choice is made before any thread runs, and OS_next stays set.
LEMMA WaitsOnlyOnceChosen ==
    ASSUME IInv, NobodyWaitsYet, [Next]_vars
    PROVE  NobodyWaitsYet'
<1>1. IInv'
  BY NextInv
<1> SUFFICES ASSUME OS_next' = NULL, NEW p \in Threads
             PROVE  blocking_mutex'[p] = NULL
  BY DEF NobodyWaitsYet
<1>2. OS_curr' = NULL /\ ~pendsv'
  BY <1>1 DEF IInv, Scheduled, Kernel
<1>3. \A k : Commit(k) => /\ fault' = NoFault => OS_curr' = k.curr /\ OS_next' = k.next
                          /\ fault' # NoFault => UNCHANGED <<OS_next, OS_curr, blocking_mutex>>
  BY DEF Commit, Assign, Kernel
<1>4. CASE \E r \in Regular : ThreadStep(r)
  <2>1. PICK r \in Regular : ThreadStep(r)
    BY <1>4
  <2>2. r \in 1 .. NPrio /\ Running(r)
    BY <2>1 DEF Regular, ThreadStep, Delay, Wait, Signal, Acquire, Release, Post
  <2>3. OS_curr = r /\ r # NULL /\ ~pendsv /\ OS_next = r
    BY <2>2, RunningIsActive, ActiveIsClean, KernelAssumption
       DEF Running, Kernel, KernelAssumption, Threads, Active
  <2>4. Active(Kernel, r) /\ Good(Kernel, {})
    BY <2>2, RunningIsActive DEF Active
  <2>5. \E k : Commit(k) /\ k.curr = r
    <3>1. CASE Delay(r)
      BY <2>4, <3>1, DelayGood DEF Delay
    <3>2. CASE \E s \in Semas : Wait(r, s)
      BY <2>4, <3>2, WaitGood DEF Wait
    <3>3. CASE \E s \in Semas : Signal(r, s)
      BY <2>3, <2>4, <3>3, SignalGood DEF Signal, Kernel
    <3>4. CASE \E m \in Mutexes : Acquire(r, m)
      BY <2>4, <3>4, AcquireGood DEF Acquire
    <3>5. CASE \E m \in Mutexes : Release(r, m)
      BY <2>4, <3>5, ReleaseGood DEF Release
    <3>6. CASE \E q \in EQTs : Post(r, q)
      BY <2>3, <2>4, <3>6, PostGood DEF Post, Kernel
    <3> QED
      BY <2>1, <3>1, <3>2, <3>3, <3>4, <3>5, <3>6 DEF ThreadStep
  <2> QED
    BY <1>2, <1>3, <2>3, <2>5
<1>5. CASE \E q \in EQTs : OS_EventQueue_pump(q)
  <2>1. PICK q \in EQTs : OS_EventQueue_pump(q)
    BY <1>5
  <2>2. q \in 1 .. NPrio /\ Running(q) /\ q # NULL
    BY <2>1, KernelAssumption DEF OS_EventQueue_pump, KernelAssumption, Threads
  <2>3. Active(Kernel, q)
    BY <2>2, RunningIsActive
  <2>4. \E k : Commit(k) /\ k.curr = q
    BY <2>1, <2>3, PumpGood DEF OS_EventQueue_pump
  <2> QED
    BY <1>2, <1>3, <2>2, <2>4 DEF Running
<1>6. CASE SysTick_Handler \/ OS_run
  <2>1. \E x : Good(x, {}) /\ Commit(OS_schedule(x))
    <3>1. CASE OS_run
      <4>1. systick /\ fault = NoFault
        BY <3>1 DEF OS_run, Booting
      <4> QED
        BY <3>1, <4>1, KernelIsGood DEF OS_run
    <3>2. CASE SysTick_Handler
      BY <3>2, TickSchedules
    <3> QED
      BY <1>6, <3>1, <3>2
  <2>2. PICK x : Good(x, {}) /\ Commit(OS_schedule(x))
    BY <2>1
  <2>3. OS_schedule(x).next # NULL
    BY <2>2, ScheduleFields, CandidateFacts DEF Good
  <2>4. fault' # NoFault /\ UNCHANGED <<OS_next, blocking_mutex>>
    BY <1>3, <2>2, <2>3
  <2> QED
    BY <2>4 DEF NobodyWaitsYet
<1>7. CASE J_on_assert_failed
  BY <1>7 DEF J_on_assert_failed, Assign, PowerOn
<1>8. CASE \/ \E r \in Regular : OS_Thread_start(r)
           \/ \E q \in EQTs : OS_EventQueue_Thread_start(q)
           \/ OS_onStartup \/ PendSV_Handler \/ UNCHANGED vars
  <2>1. UNCHANGED <<OS_next, blocking_mutex>>
    BY <1>8, QuietSteps DEF vars
  <2> QED
    BY <2>1 DEF NobodyWaitsYet
<1> QED
  BY <1>4, <1>5, <1>6, <1>7, <1>8 DEF Next, Boot

\* A step that commits k, in which p at most acquires or releases, hands
\* mutexes over as MutexHandover says.
LEMMA CommitHandsOver ==
    ASSUME IInv, fault = NoFault, NEW k \in KernelState, NEW p, Commit(k),
           k.fault = NoFault => HandsOver(Kernel, k, p),
           p # NULL => Running(p),
           NEW m \in Mutexes, owned_by'[m] # owned_by[m]
    PROVE  /\ owned_by[m] # NULL => Running(owned_by[m])
           /\ owned_by'[m] # NULL =>
                \/ Running(owned_by'[m])
                \/ /\ blocking_mutex[owned_by'[m]] = m
                   /\ OS_next' = owned_by'[m]
                   /\ \A t \in Threads :
                        blocking_mutex[t] = m => t <= owned_by'[m]
<1>1. k.fault = NoFault /\ owned_by' = k.owner /\ OS_next' = k.next
  BY DEF Commit, Assign, Kernel
<1>2. Kernel.owner = owned_by /\ Kernel.mutex = blocking_mutex
  BY DEF Kernel
<1> QED
  BY <1>1, <1>2 DEF HandsOver

\* Mutexes change hands only as their users ask, and each goes to the first of
\* its waiters, which then runs: for any number of threads and mutexes, with
\* ticks, switches, posts and event handlers in between.
THEOREM MutexesAreHandedOver == Spec => MutexHandover
<1> DEFINE Handed ==
        \A m \in Mutexes : owned_by'[m] # owned_by[m] =>
          /\ owned_by[m] # NULL => Running(owned_by[m])
          /\ owned_by'[m] # NULL =>
                \/ Running(owned_by'[m])
                \/ /\ blocking_mutex[owned_by'[m]] = m
                   /\ OS_next' = owned_by'[m]
                   /\ \A p \in Threads :
                        blocking_mutex[p] = m => p <= owned_by'[m]
<1>1. ASSUME IInv, NobodyWaitsYet, Next, fault = NoFault PROVE Handed
  <2>1. CASE \E p \in Regular : ThreadStep(p)
    <3>1. PICK p \in Regular : ThreadStep(p)
      BY <2>1
    <3>2. PICK k \in KernelState :
             Commit(k) /\ (k.fault = NoFault => HandsOver(Kernel, k, p))
      BY <1>1, <3>1, ThreadHandsOver
    <3>3. Running(p)
      BY <3>1 DEF ThreadStep, Delay, Wait, Signal, Acquire, Release, Post
    <3> QED
      BY <1>1, <3>2, <3>3, CommitHandsOver
  <2>2. CASE \E q \in EQTs : OS_EventQueue_pump(q)
    <3>1. PICK q \in EQTs : OS_EventQueue_pump(q)
      BY <2>2
    <3>2. q \in 1 .. NPrio /\ Running(q)
      BY <3>1, KernelAssumption DEF OS_EventQueue_pump, KernelAssumption
    <3>3. Active(Kernel, q)
      BY <1>1, <3>2, RunningIsActive
    <3>4. Quiet(Kernel)
      BY <3>3, ActiveIsClean, ScheduledIsQuiet, KernelAssumption
         DEF Active, Good, Quiet, KernelAssumption
    <3>5. PICK h \in HandlerOutcomes(J_EventQueue_get(Kernel, q)) :
             Commit(UnreadyIfEmpty(h, q))
      BY <3>1 DEF OS_EventQueue_pump
    <3> DEFINE k == UnreadyIfEmpty(h, q)
    <3>6. k \in KernelState /\ (k.fault = NoFault => HandsOver(Kernel, k, q))
      BY <3>3, <3>4, PumpGood, PumpHandsOver DEF Good
    <3> HIDE DEF k
    <3> QED
      BY <1>1, <3>2, <3>5, <3>6, CommitHandsOver DEF k
  <2>3. CASE OS_run
    <3>1. systick /\ Commit(OS_schedule(Kernel))
      BY <2>3 DEF OS_run
    <3>2. Good(Kernel, {}) /\ Kernel.fault = NoFault
      BY <1>1, <3>1, KernelIsGood
    <3>3. OS_schedule(Kernel) \in KernelState
      BY <3>2, ScheduleCall DEF Good
    <3>4. HandsOver(Kernel, OS_schedule(Kernel), NULL)
      BY <3>2, SameThenSchedule
    <3> QED
      BY <1>1, <3>1, <3>3, <3>4, CommitHandsOver
  <2>4. CASE SysTick_Handler
    <3>1. Kernel \in KernelState /\ Consistent(Kernel) /\ Scheduled(Kernel)
      BY <1>1 DEF IInv
    <3>2. Quiet(Kernel)
      <4>1. CASE Kernel.next # NULL
        BY <3>1, <4>1, ScheduledIsQuiet DEF Quiet
      <4>2. CASE Kernel.next = NULL
        <5>1. \A p \in Threads : Kernel.mutex[p] = NULL
          BY <1>1, <4>2 DEF NobodyWaitsYet, Kernel
        <5>2. 0 \in Threads /\ Kernel.ready \subseteq Threads /\ 0 \notin Kernel.ready
          BY <3>1, KernelAssumption DEF KernelState, KernelAssumption, Threads
        <5>3. NoneToHandOverBy(Kernel, 0)
          BY <3>1, <5>1, <5>2
             DEF NoneToHandOverBy, OS_is_blocked, Consistent, WaitsWell
        <5> QED
          BY <5>2, <5>3 DEF Quiet, NoneToHandOver
      <4> QED
        BY <4>1, <4>2
    <3>3. PICK x : Good(x, {}) /\ Commit(OS_schedule(x)) /\ KeepsMutexes(Kernel, x)
      BY <1>1, <2>4, <3>2, TickSchedules
    <3> DEFINE y == OS_schedule(x)
    <3>4. y \in KernelState /\ y.fault = x.fault
      BY <3>3, ScheduleCall DEF Good
    <3>5. y.fault = NoFault => HandsOver(Kernel, y, NULL)
      BY <3>3, <3>4, SameThenSchedule DEF KeepsMutexes
    <3> HIDE DEF y
    <3>6. Commit(y)
      BY <3>3 DEF y
    <3> QED
      BY <1>1, <3>4, <3>5, <3>6, CommitHandsOver
  <2>5. CASE \/ \E r \in Regular : OS_Thread_start(r)
             \/ \E q \in EQTs : OS_EventQueue_Thread_start(q)
             \/ OS_onStartup \/ PendSV_Handler
    BY <2>5, QuietSteps
  <2>6. CASE J_on_assert_failed
    BY <1>1, <2>6 DEF J_on_assert_failed
  <2> QED
    BY <1>1, <2>1, <2>2, <2>3, <2>4, <2>5, <2>6 DEF Next, Boot
<1>2. IInv /\ NobodyWaitsYet /\ [Next]_vars => [fault = NoFault => Handed]_vars
  BY <1>1
<1>3. Init => NobodyWaitsYet
  BY DEF Init, PowerOn, NobodyWaitsYet
<1>4. IInv /\ NobodyWaitsYet /\ [Next]_vars => NobodyWaitsYet'
  BY WaitsOnlyOnceChosen
<1> QED
  BY <1>2, <1>3, <1>4, Invariance, PTL DEF Spec, MutexHandover

-----------------------------------------------------------------------------
(***************************************************************************)
(* The kernel implements module Resources: whatever the scheduler does     *)
(* inside a call, in the eyes of the threads one step asks for, gives back *)
(* or grants one resource.                                                 *)
(*                                                                         *)
(* A call may run OS_schedule several times, a tick up to four times, and  *)
(* each run may grant a resource.  That only one of them does is the heart *)
(* of the proof: a run that grants something leaves its thread at the top  *)
(* of what can run (Sated), and nothing the call does after that moves it. *)
(***************************************************************************)

\* What a snapshot k of the kernel says of the resources.
WaitsIn(k) ==
    [p \in Regular |-> IF k.sema[p] # NULL THEN k.sema[p] ELSE k.mutex[p]]
Held(k) == [tokens |-> k.count, owner |-> k.owner, waits |-> WaitsIn(k)]

\* OS_schedule has nothing to grant in k: a thread that is not blocked comes
\* before every regular thread that is blocked and could go on.
SatedBy(k, n) ==
    /\ n \in (k.ready \ EQTs) \cup {0}
    /\ ~OS_is_blocked(k, n)
    /\ \A p \in k.ready \ EQTs : p > n => ~Runnable(k, p)
Sated(k) == \E n \in Threads : SatedBy(k, n)

\* A call that has made the resources r of those it began with, and may have
\* granted one of them since, is here.
Stage(k, r) ==
    k.fault = NoFault =>
        \/ Held(k) = r
        \/ Held(k) \in Services!Settled(r) /\ Sated(k)

-----------------------------------------------------------------------------
(* OS_schedule.                                                            *)

\* OS_schedule grants the thread it chooses what that thread waits for.
LEMMA ScheduleGrants ==
    ASSUME NEW k \in KernelState, Consistent(k), OS_is_blocked(k, Candidate(k))
    PROVE  LET n == Candidate(k)
           IN  /\ n \in k.ready \ EQTs /\ n \in Regular
               /\ n \in Services!Grantable(Held(k))
               /\ Held(OS_schedule(k)) = Services!Granted(Held(k), n)
<1> DEFINE n == Candidate(k)
           r == OS_schedule(k)
           waits == Held(k).waits
           left == [u \in Regular |-> IF u = n THEN NULL ELSE waits[u]]
<1>1. n \in Threads /\ WaitsWell(k, n)
  BY CandidateFacts DEF Consistent
<1>2. n \in k.ready \ EQTs /\ n \in Regular
  BY <1>1 DEF WaitsWell, KernelState, Regular
<1>3. CanUnblock(k, n)
  <2>1. n # 0
    BY <1>2 DEF KernelState
  <2> QED
    BY <2>1, CandidateFacts DEF Runnable
<1>4. /\ r.sema = [k.sema EXCEPT ![n] = NULL]
      /\ r.mutex = [k.mutex EXCEPT ![n] = NULL]
      /\ r.count = IF k.sema[n] # NULL
                   THEN [k.count EXCEPT ![k.sema[n]] = @ - 1] ELSE k.count
      /\ r.owner = IF k.mutex[n] # NULL
                   THEN [k.owner EXCEPT ![k.mutex[n]] = n] ELSE k.owner
  BY ScheduleReleases
<1>5. k.sema \in [Threads -> Semas \cup {NULL}]
      /\ k.mutex \in [Threads -> Mutexes \cup {NULL}]
  BY DEF KernelState
<1> HIDE DEF n, r
<1>6. Held(r).waits = left
  <2>1. ASSUME NEW u \in Regular
        PROVE  (IF r.sema[u] # NULL THEN r.sema[u] ELSE r.mutex[u])
               = (IF u = n THEN NULL ELSE waits[u])
    <3>1. u \in Threads
      BY DEF Regular, Threads
    <3>2. waits[u] = IF k.sema[u] # NULL THEN k.sema[u] ELSE k.mutex[u]
      BY DEF Held, WaitsIn
    <3> HIDE DEF waits
    <3> QED
      BY <1>4, <1>5, <3>1, <3>2
  <2>2. Held(r).waits = [u \in Regular |-> IF r.sema[u] # NULL THEN r.sema[u]
                                                           ELSE r.mutex[u]]
    BY DEF Held, WaitsIn
  <2> HIDE DEF waits
  <2> QED
    BY <2>1, <2>2
<1>7. CASE k.sema[n] # NULL
  <2> DEFINE s == k.sema[n]
             taken == [k.count EXCEPT ![s] = @ - 1]
  <2>1. s \in Semas /\ waits[n] = s /\ s # NULL
    BY <1>1, <1>2, <1>5, <1>7 DEF Held, WaitsIn
  <2>2. r.count = taken /\ r.owner = k.owner
    BY <1>1, <1>4, <1>7 DEF WaitsWell
  <2>3. n \in Services!Grantable(Held(k))
    BY <1>2, <1>3, <1>7, <2>1
       DEF Services!Grantable, Services!Available, CanUnblock, Held
  <2>4. Services!Granted(Held(k), n)
            = [tokens |-> taken, owner |-> k.owner, waits |-> left]
    <3> DEFINE h == [tokens |-> k.count, owner |-> k.owner, waits |-> waits]
               t == [tokens |-> taken, owner |-> k.owner, waits |-> waits]
    <3>1. Held(k) = h
      BY DEF Held, WaitsIn
    <3> HIDE DEF waits
    <3>2. Services!Taken(h, n, s) = t
      BY <2>1 DEF Services!Taken
    <3>3. Services!Waiting(t, n, NULL) = [t EXCEPT !.waits = left]
      BY DEF Services!Waiting
    <3>4. Services!Granted(h, n) = [t EXCEPT !.waits = left]
      BY <2>1, <3>2, <3>3 DEF Services!Granted
    <3> QED
      BY <3>1, <3>4
  <2>5. Held(r) = [tokens |-> taken, owner |-> k.owner, waits |-> left]
    BY <1>6, <2>2 DEF Held, WaitsIn
  <2> QED
    BY <1>2, <2>3, <2>4, <2>5 DEF n, r
<1>8. CASE k.sema[n] = NULL
  <2> DEFINE m == k.mutex[n]
             taken == [k.owner EXCEPT ![m] = n]
  <2>1. m \in Mutexes /\ m \notin Semas /\ waits[n] = m /\ m # NULL
    <3>1. m # NULL
      BY <1>8 DEF OS_is_blocked, n
    <3> QED
      BY <1>1, <1>2, <1>5, <1>8, <3>1, KernelAssumption
         DEF Held, WaitsIn, KernelAssumption
  <2>2. r.owner = taken /\ r.count = k.count
    BY <1>4, <1>8, <2>1
  <2>3. n \in Services!Grantable(Held(k))
    BY <1>2, <1>3, <1>8, <2>1
       DEF Services!Grantable, Services!Available, CanUnblock, Held
  <2>4. Services!Granted(Held(k), n)
            = [tokens |-> k.count, owner |-> taken, waits |-> left]
    <3> DEFINE h == [tokens |-> k.count, owner |-> k.owner, waits |-> waits]
               t == [tokens |-> k.count, owner |-> taken, waits |-> waits]
    <3>1. Held(k) = h
      BY DEF Held, WaitsIn
    <3> HIDE DEF waits
    <3>2. Services!Taken(h, n, m) = t
      BY <2>1 DEF Services!Taken
    <3>3. Services!Waiting(t, n, NULL) = [t EXCEPT !.waits = left]
      BY DEF Services!Waiting
    <3>4. Services!Granted(h, n) = [t EXCEPT !.waits = left]
      BY <2>1, <3>2, <3>3 DEF Services!Granted
    <3> QED
      BY <3>1, <3>4
  <2>5. Held(r) = [tokens |-> k.count, owner |-> taken, waits |-> left]
    BY <1>6, <2>2 DEF Held, WaitsIn
  <2> QED
    BY <1>2, <2>3, <2>4, <2>5 DEF n, r
<1> QED
  BY <1>7, <1>8

\* When the thread it chooses is not blocked, it grants nothing.
LEMMA ScheduleKeeps ==
    ASSUME NEW k \in KernelState, Consistent(k), ~OS_is_blocked(k, Candidate(k))
    PROVE  SameResources(k, OS_schedule(k))
<1> DEFINE n == Candidate(k)
           r == OS_schedule(k)
<1>1. n \in Threads /\ k.sema[n] = NULL /\ k.mutex[n] = NULL
  BY CandidateFacts DEF OS_is_blocked
<1>2. /\ r.sema = [k.sema EXCEPT ![n] = NULL]
      /\ r.mutex = [k.mutex EXCEPT ![n] = NULL]
      /\ r.count = k.count /\ r.owner = k.owner
  BY <1>1, ScheduleReleases
<1> HIDE DEF n, r
<1>3. r.sema = k.sema /\ r.mutex = k.mutex
  BY <1>1, <1>2 DEF KernelState
<1> QED
  BY <1>2, <1>3 DEF SameResources, r

\* It chooses such a thread when nothing is to be granted.
LEMMA SatedChoosesUnblocked ==
    ASSUME NEW k \in KernelState, Consistent(k), Sated(k)
    PROVE  ~OS_is_blocked(k, Candidate(k))
<1> DEFINE c == Candidate(k)
<1>1. /\ c \in Threads /\ WaitsWell(k, c)
      /\ c # 0 => c \in k.ready /\ Runnable(k, c)
      /\ \A p \in k.ready : p > c => ~Runnable(k, p)
  BY CandidateFacts DEF Consistent
<1>2. PICK n \in Threads : SatedBy(k, n)
  BY DEF Sated
<1>3. CASE c \in EQTs
  BY <1>1, <1>3 DEF WaitsWell
<1>4. CASE c = n
  BY <1>2, <1>4 DEF SatedBy
<1>5. CASE c > n /\ c \notin EQTs
  BY <1>1, <1>2, <1>5 DEF SatedBy, Threads
<1>6. CASE n > c
  BY <1>1, <1>2, <1>6 DEF SatedBy, Runnable, Threads
<1> QED
  BY <1>1, <1>2, <1>3, <1>4, <1>5, <1>6 DEF Threads

-----------------------------------------------------------------------------
(* Stages of a call.                                                       *)

\* Events, delays and EQTs that come and go do not change the stage.
LEMMA StageFrame ==
    ASSUME NEW k, NEW x, NEW r, SameResources(k, x), Stage(k, r),
           x.fault = NoFault => k.fault = NoFault,
           x.ready \ EQTs = k.ready \ EQTs
    PROVE  Stage(x, r)
<1>1. Held(x) = Held(k)
  BY DEF SameResources, Held, WaitsIn
<1>2. ASSUME NEW n \in Threads, SatedBy(k, n) PROVE SatedBy(x, n)
  BY <1>2 DEF SatedBy, SameResources, Runnable, CanUnblock, OS_is_blocked
<1>3. Sated(k) => Sated(x)
  BY <1>2 DEF Sated
<1> QED
  BY <1>1, <1>3 DEF Stage

\* A call begins with the resources as they are.
LEMMA StageBegins ==
    ASSUME NEW k, NEW r, Held(k) = r
    PROVE  Stage(k, r)
BY DEF Stage

\* However often a call runs OS_schedule, it grants at most one resource.
LEMMA ScheduleStage ==
    ASSUME NEW k, NEW X, NEW r, Good(k, X), Stage(k, r)
    PROVE  Stage(OS_schedule(k), r)
<1> DEFINE n == Candidate(k)
           y == OS_schedule(k)
<1>1. k \in KernelState /\ y.fault = k.fault /\ y.ready = k.ready /\ y.next = n
  BY ScheduleCall, ScheduleFields DEF Good
<1>2. SUFFICES ASSUME y.fault = NoFault PROVE Stage(y, r)
  BY DEF Stage
<1>3. Consistent(k) /\ Scheduled(y) /\ k.fault = NoFault
  BY <1>1, <1>2, ScheduleGood DEF Good
<1>4. CASE OS_is_blocked(k, n)
  <2>1. /\ n \in k.ready \ EQTs
        /\ n \in Services!Grantable(Held(k))
        /\ Held(y) = Services!Granted(Held(k), n)
    BY <1>1, <1>3, <1>4, ScheduleGrants
  <2>2. Held(k) = r
    BY <1>1, <1>3, <1>4, SatedChoosesUnblocked DEF Stage
  <2>3. Held(y) \in Services!Settled(r)
    BY <2>1, <2>2 DEF Services!Settled
  <2>4. n \in Threads /\ n # NULL /\ n # 0
    BY <1>1, <2>1, CandidateFacts DEF KernelState
  <2> HIDE DEF n, y
  <2>5. SatedBy(y, n)
    BY <1>1, <1>3, <2>1, <2>4 DEF SatedBy, Scheduled
  <2> QED
    BY <2>3, <2>4, <2>5 DEF Stage, Sated
<1>5. CASE ~OS_is_blocked(k, n)
  <2>1. SameResources(k, y)
    BY <1>1, <1>3, <1>5, ScheduleKeeps
  <2> HIDE DEF y
  <2> QED
    BY <1>1, <2>1, StageFrame
<1> QED
  BY <1>4, <1>5

\* A delay asks for nothing and gives nothing back.
LEMMA DelayStage ==
    ASSUME NEW k, NEW p \in Regular, Active(k, p), NEW d \in Delays
    PROVE  Stage(OS_delay(k, p, d), Held(k))
<1>1. PICK x : /\ OS_delay(k, p, d) = OS_schedule(x)
               /\ Good(x, {}) /\ SameResources(k, x)
  BY DelayBegins
<1>2. Held(x) = Held(k)
  BY <1>1 DEF SameResources, Held, WaitsIn
<1> QED
  BY <1>1, <1>2, StageBegins, ScheduleStage

\* A signal gives a token, within the limit.
LEMMA SignalStage ==
    ASSUME NEW k, NEW X, Good(k, X), NEW s \in Semas
    PROVE  LET y == J_sema_signal(k, s)
           IN  /\ Stage(y, Services!Given(Held(k), s))
               /\ y.fault = NoFault => k.count[s] < MaxCount
<1>1. PICK x : /\ J_sema_signal(k, s) = OS_schedule(x)
               /\ Good(x, X) /\ TokenGiven(k, s, x)
  BY SignalBegins
<1>2. Held(x) = Services!Given(Held(k), s)
  <2>1. WaitsIn(x) = WaitsIn(k)
    BY <1>1 DEF TokenGiven, WaitsIn
  <2> QED
    BY <1>1, <2>1 DEF TokenGiven, Held, Services!Given
<1>3. Stage(x, Services!Given(Held(k), s))
  BY <1>2, StageBegins
<1>4. OS_schedule(x).fault = x.fault
  BY <1>1, ScheduleCall
<1>5. x.fault = NoFault => k.count[s] < MaxCount
  BY <1>1, KernelAssumption
     DEF TokenGiven, Good, Consistent, KernelState, KernelAssumption
<1> QED
  BY <1>1, <1>3, <1>4, <1>5, ScheduleStage

\* A wait asks for a token.
LEMMA WaitStage ==
    ASSUME NEW k, NEW p \in Regular, Active(k, p), NEW s \in Semas
    PROVE  Stage(J_sema_wait(k, p, s), Services!Asked(Held(k), p, s))
<1>1. k \in KernelState /\ p \in Threads /\ k.sema[p] = NULL /\ k.mutex[p] = NULL
  BY ActiveIsClean
<1>2. s # NULL
  BY KernelAssumption DEF KernelAssumption
<1>3. CASE k.count[s] > 0
  <2>1. J_sema_wait(k, p, s) = [k EXCEPT !.count[s] = @ - 1]
    BY <1>3 DEF J_sema_wait
  <2>2. Services!Asked(Held(k), p, s) = [Held(k) EXCEPT !.tokens[s] = @ - 1]
    BY <1>3 DEF Services!Asked, Services!Available, Services!Taken, Held
  <2>3. Held([k EXCEPT !.count[s] = @ - 1]) = [Held(k) EXCEPT !.tokens[s] = @ - 1]
    <3> DEFINE x == [k EXCEPT !.count[s] = @ - 1]
    <3>1. WaitsIn(x) = WaitsIn(k)
      BY <1>1 DEF WaitsIn, KernelState
    <3>2. Held(x) = [tokens |-> x.count, owner |-> x.owner, waits |-> WaitsIn(k)]
      BY <3>1 DEF Held
    <3> QED
      BY <1>1, <3>2 DEF Held, KernelState
  <2> QED
    BY <2>1, <2>2, <2>3, StageBegins
<1>4. CASE ~(k.count[s] > 0)
  <2>1. PICK x : /\ J_sema_wait(k, p, s) = OS_schedule(x)
                 /\ Good(x, {}) /\ SemaWaited(k, p, s, x)
    BY <1>4, WaitBlocks
  <2>2. Services!Asked(Held(k), p, s) = Services!Waiting(Held(k), p, s)
    BY <1>4 DEF Services!Asked, Services!Available, Held
  <2>3. Held(x) = Services!Waiting(Held(k), p, s)
    <3> DEFINE waits == [u \in Regular |-> IF u = p THEN s ELSE WaitsIn(k)[u]]
    <3>1. WaitsIn(x) = waits
      <4>1. ASSUME NEW u \in Regular
            PROVE  (IF x.sema[u] # NULL THEN x.sema[u] ELSE x.mutex[u])
                   = (IF u = p THEN s ELSE WaitsIn(k)[u])
        <5>1. u \in Threads
          BY DEF Regular, Threads
        <5>2. WaitsIn(k)[u] = IF k.sema[u] # NULL THEN k.sema[u] ELSE k.mutex[u]
          BY DEF WaitsIn
        <5> QED
          BY <1>1, <1>2, <2>1, <5>1, <5>2 DEF SemaWaited, KernelState
      <4> QED
        BY <4>1 DEF WaitsIn
    <3>2. Services!Waiting(Held(k), p, s)
              = [tokens |-> k.count, owner |-> k.owner, waits |-> waits]
      BY DEF Services!Waiting, Held
    <3> QED
      BY <2>1, <3>1, <3>2 DEF SemaWaited, Held
  <2> QED
    BY <2>1, <2>2, <2>3, StageBegins, ScheduleStage
<1> QED
  BY <1>3, <1>4

\* Acquiring a mutex asks for it; nobody asks for a mutex that it owns.
LEMMA AcquireStage ==
    ASSUME NEW k, NEW p \in Regular, Active(k, p), NEW m \in Mutexes
    PROVE  LET y == J_Mutex_acquire(k, p, m)
           IN  /\ Stage(y, Services!Asked(Held(k), p, m))
               /\ y.fault = NoFault => k.owner[m] # p
<1>1. k \in KernelState /\ p \in Threads /\ k.sema[p] = NULL /\ k.mutex[p] = NULL
  BY ActiveIsClean
<1>2. m # NULL /\ p # NULL /\ m \notin Semas
  BY <1>1, KernelAssumption DEF KernelAssumption
<1>3. CASE k.owner[m] = NULL
  <2>1. J_Mutex_acquire(k, p, m) = [k EXCEPT !.owner[m] = p]
    BY <1>2, <1>3 DEF J_Mutex_acquire, J_ASSERT
  <2>2. Services!Asked(Held(k), p, m) = [Held(k) EXCEPT !.owner[m] = p]
    BY <1>2, <1>3 DEF Services!Asked, Services!Available, Services!Taken, Held
  <2>3. Held([k EXCEPT !.owner[m] = p]) = [Held(k) EXCEPT !.owner[m] = p]
    <3> DEFINE x == [k EXCEPT !.owner[m] = p]
    <3>1. WaitsIn(x) = WaitsIn(k)
      BY <1>1 DEF WaitsIn, KernelState
    <3>2. Held(x) = [tokens |-> x.count, owner |-> x.owner, waits |-> WaitsIn(k)]
      BY <3>1 DEF Held
    <3> QED
      BY <1>1, <3>2 DEF Held, KernelState
  <2> QED
    BY <1>2, <1>3, <2>1, <2>2, <2>3, StageBegins
<1>4. CASE k.owner[m] # NULL
  <2>1. PICK x : /\ J_Mutex_acquire(k, p, m) = OS_schedule(x)
                 /\ Good(x, {}) /\ MutexWaited(k, p, m, x)
    BY <1>4, AcquireBlocks
  <2>2. Services!Asked(Held(k), p, m) = Services!Waiting(Held(k), p, m)
    BY <1>2, <1>4 DEF Services!Asked, Services!Available, Held
  <2>3. Held(x) = Services!Waiting(Held(k), p, m)
    <3> DEFINE waits == [u \in Regular |-> IF u = p THEN m ELSE WaitsIn(k)[u]]
    <3>1. WaitsIn(x) = waits
      <4>1. ASSUME NEW u \in Regular
            PROVE  (IF x.sema[u] # NULL THEN x.sema[u] ELSE x.mutex[u])
                   = (IF u = p THEN m ELSE WaitsIn(k)[u])
        <5>1. u \in Threads
          BY DEF Regular, Threads
        <5>2. WaitsIn(k)[u] = IF k.sema[u] # NULL THEN k.sema[u] ELSE k.mutex[u]
          BY DEF WaitsIn
        <5> QED
          BY <1>1, <1>2, <2>1, <5>1, <5>2 DEF MutexWaited, KernelState
      <4> QED
        BY <4>1 DEF WaitsIn
    <3>2. Services!Waiting(Held(k), p, m)
              = [tokens |-> k.count, owner |-> k.owner, waits |-> waits]
      BY DEF Services!Waiting, Held
    <3> QED
      BY <2>1, <3>1, <3>2 DEF MutexWaited, Held
  <2>4. OS_schedule(x).fault = x.fault
    BY <2>1, ScheduleCall
  <2> QED
    BY <2>1, <2>2, <2>3, <2>4, StageBegins, ScheduleStage DEF MutexWaited
<1> QED
  BY <1>3, <1>4

\* Releasing a mutex gives back what the caller owns.
LEMMA ReleaseStage ==
    ASSUME NEW k, NEW p \in Regular, Active(k, p), NEW m \in Mutexes
    PROVE  LET y == J_Mutex_release(k, p, m)
           IN  /\ Stage(y, Services!Released(Held(k), m))
               /\ y.fault = NoFault => k.owner[m] = p
<1>1. PICK x : /\ J_Mutex_release(k, p, m) = OS_schedule(OS_schedule(x))
               /\ Good(x, {}) /\ MutexFreed(k, p, m, x)
  BY ReleaseBegins
<1>2. Held(x) = Services!Released(Held(k), m)
  <2>1. WaitsIn(x) = WaitsIn(k)
    BY <1>1 DEF MutexFreed, WaitsIn
  <2> QED
    BY <1>1, <2>1 DEF MutexFreed, Held, Services!Released
<1>3. /\ Good(OS_schedule(x), {}) /\ OS_schedule(x).fault = x.fault
      /\ Stage(OS_schedule(x), Services!Released(Held(k), m))
  BY <1>1, <1>2, ScheduleCall, StageBegins, ScheduleStage
<1>4. OS_schedule(OS_schedule(x)).fault = x.fault
  BY <1>3, ScheduleCall
<1> QED
  BY <1>1, <1>3, <1>4, ScheduleStage DEF MutexFreed

\* A post changes no resource, but it schedules.
LEMMA PostStage ==
    ASSUME NEW k, NEW X, NEW r, Good(k, X), Stage(k, r), NEW q \in EQTs
    PROVE  Stage(OS_EQT_post(k, q), r)
<1> DEFINE x == J_EventQueue_put(k, q)
           y == OS_schedule(x)
           z == OS_EQT_post(k, q)
<1>1. /\ Good(x, X \cup {q}) /\ SameResources(k, x) /\ x.ready = k.ready
      /\ x.fault = NoFault => k.fault = NoFault
  BY PutGood
<1>2. z = [y EXCEPT !.ready = @ \cup {q}]
  BY DEF OS_EQT_post, OS_set_EQT_to_ready
<1> HIDE DEF x
<1>3. Stage(x, r)
  BY <1>1, StageFrame
<1>4. Good(y, X \cup {q}) /\ Stage(y, r)
  BY <1>1, <1>3, ScheduleCall, ScheduleStage
<1> HIDE DEF y
<1>5. /\ SameResources(y, z) /\ z.fault = y.fault
      /\ z.ready \ EQTs = y.ready \ EQTs
  BY <1>2, <1>4 DEF SameResources, Good, KernelState
<1> HIDE DEF z
<1>6. Stage(z, r)
  BY <1>4, <1>5, StageFrame
<1> QED
  BY <1>6 DEF z

\* So does a tick: its posts and its last schedule grant one resource in all.
LEMMA TickStage ==
    ASSUME NEW k, Good(k, {}), k.fault = NoFault,
           NEW switch1 \in BOOLEAN, NEW switch2 \in BOOLEAN, NEW knob \in BOOLEAN
    PROVE  LET third == PostIf(PostIf(PostIf(OS_tick(k), switch1), switch2), knob)
           IN  Stage(OS_schedule(third), Held(k)) /\ Good(OS_schedule(third), {})
<1> DEFINE ticked == OS_tick(k)
           first  == PostIf(ticked, switch1)
           second == PostIf(first, switch2)
           third  == PostIf(second, knob)
<1>1. Good(ticked, {}) /\ Held(ticked) = Held(k)
  <2>1. Good(ticked, {})
    BY TickGood
  <2>2. SameResources(k, ticked)
    BY DEF OS_tick, J_ASSERT, SameResources, Good, KernelState
  <2> HIDE DEF ticked
  <2> QED
    BY <2>1, <2>2 DEF SameResources, Held, WaitsIn
<1>2. Stage(ticked, Held(k))
  BY <1>1, StageBegins
<1>3. ASSUME NEW x, NEW happened \in BOOLEAN, Good(x, {}), Stage(x, Held(k))
      PROVE  Good(PostIf(x, happened), {}) /\ Stage(PostIf(x, happened), Held(k))
  BY <1>3, PostIfGood, PostStage, KernelAssumption DEF PostIf, KernelAssumption
<1> HIDE DEF ticked
<1>4. Good(first, {}) /\ Stage(first, Held(k))
  BY <1>1, <1>2, <1>3
<1> HIDE DEF first
<1>5. Good(second, {}) /\ Stage(second, Held(k))
  BY <1>3, <1>4
<1> HIDE DEF second
<1>6. Good(third, {}) /\ Stage(third, Held(k))
  BY <1>3, <1>5
<1> HIDE DEF third
<1>7. Good(OS_schedule(third), {}) /\ Stage(OS_schedule(third), Held(k))
  BY <1>6, ScheduleCall, ScheduleStage
<1> QED
  BY <1>7 DEF third, second, first, ticked

\* A round of the pump does what its handler does: it may give one token.
LEMMA PumpStage ==
    ASSUME NEW k, NEW q \in EQTs, Active(k, q),
           NEW h \in HandlerOutcomes(J_EventQueue_get(k, q))
    PROVE  LET y == UnreadyIfEmpty(h, q)
           IN  \/ Stage(y, Held(k))
               \/ \E s \in Semas : /\ Stage(y, Services!Given(Held(k), s))
                                   /\ y.fault = NoFault => k.count[s] < MaxCount
<1> DEFINE g == J_EventQueue_get(k, q)
           y == UnreadyIfEmpty(h, q)
<1>1. Good(g, {q}) /\ Good(h, {q})
  BY GetGood, HandlerGood
<1>2. SameResources(k, g)
  BY DEF Active, Good, KernelState, J_EventQueue_get, J_ASSERT, SameResources
<1>3. \/ h = g
      \/ \E s \in Semas : h = J_sema_signal(g, s)
      \/ \E e \in EQTs : h = OS_EQT_post(g, e)
  BY DEF HandlerOutcomes
<1> HIDE DEF g
<1>4. Held(g) = Held(k) /\ Stage(g, Held(k))
  BY <1>2, StageBegins DEF SameResources, Held, WaitsIn
<1>5. ASSUME NEW r, Stage(h, r)
      PROVE  Stage(y, r) /\ (y.fault = NoFault => h.fault = NoFault)
  <2>1. CASE h.free[q] = QueueSize
    <3>1. PICK x : /\ UnreadyIfEmpty(h, q) = OS_schedule(x)
                   /\ Good(x, {}) /\ x.ready = h.ready \ {q}
                   /\ SameResources(h, x) /\ x.fault = h.fault
      BY <1>1, <2>1, UnreadyBegins
    <3>2. x.ready \ EQTs = h.ready \ EQTs
      BY <3>1
    <3>3. Stage(x, r)
      BY <1>5, <3>1, <3>2, StageFrame
    <3>4. OS_schedule(x).fault = x.fault
      BY <3>1, ScheduleCall
    <3> QED
      BY <3>1, <3>3, <3>4, ScheduleStage
  <2>2. CASE h.free[q] # QueueSize
    BY <1>5, <2>2 DEF UnreadyIfEmpty, J_EventQueue_isEmpty
  <2> QED
    BY <2>1, <2>2
<1> HIDE DEF y
<1>6. CASE h = g
  BY <1>4, <1>5, <1>6 DEF y
<1>7. ASSUME NEW s \in Semas, h = J_sema_signal(g, s)
      PROVE  /\ Stage(y, Services!Given(Held(k), s))
             /\ y.fault = NoFault => k.count[s] < MaxCount
  <2>1. /\ Stage(h, Services!Given(Held(k), s))
        /\ h.fault = NoFault => g.count[s] < MaxCount
    BY <1>1, <1>4, <1>7, SignalStage
  <2>2. g.count = k.count
    BY <1>2 DEF SameResources
  <2> QED
    BY <1>5, <2>1, <2>2
<1>8. ASSUME NEW e \in EQTs, h = OS_EQT_post(g, e) PROVE Stage(y, Held(k))
  BY <1>1, <1>4, <1>5, <1>8, PostStage
<1> QED
  BY <1>3, <1>6, <1>7, <1>8 DEF y

-----------------------------------------------------------------------------
(* Steps.                                                                  *)

SameServices == UNCHANGED <<count, owned_by, Waits>>

\* The snapshot and the refinement mapping agree.
LEMMA KernelHeld ==
    /\ Services!resources = Held(Kernel)
    /\ \A r : Held(Kernel)' = r => Services!Become(r)
<1>1. WaitsIn(Kernel) = Waits
  BY DEF Kernel, WaitsIn, Waits
<1>2. Services!resources = Held(Kernel)
  BY <1>1 DEF Services!resources, Held, Kernel
<1>3. WaitsIn(Kernel)' = Waits'
  BY DEF Kernel, WaitsIn, Waits
<1>4. ASSUME NEW r, Held(Kernel)' = r PROVE Services!Become(r)
  BY <1>3, <1>4 DEF Services!Become, Held, Kernel
<1> QED
  BY <1>2, <1>4

\* A step that commits a call at the stage r ends with what r settles to, or
\* it failed an assertion and moved no resource.
LEMMA CommitSettles ==
    ASSUME IInv, NEW k \in KernelState, Commit(k), NEW r, Stage(k, r)
    PROVE  \/ SameServices
           \/ /\ k.fault = NoFault
              /\ \E x \in Services!Settled(r) : Services!Become(x)
<1>1. CASE k.fault = NoFault
  <2>1. Kernel' = k
    BY <1>1, CommitFacts DEF IInv
  <2>2. Held(k) \in Services!Settled(r)
    BY <1>1 DEF Stage, Services!Settled
  <2>3. Held(Kernel)' = Held(k)
    BY <2>1 DEF Held, WaitsIn
  <2> QED
    BY <1>1, <2>2, <2>3, KernelHeld
<1>2. CASE k.fault # NoFault
  <2>1. /\ count' = count /\ owned_by' = owned_by
        /\ blocking_sema' = blocking_sema /\ blocking_mutex' = blocking_mutex
    BY <1>2 DEF Commit, Assign, Kernel
  <2> QED
    BY <2>1 DEF SameServices, Waits
<1> QED
  BY <1>1, <1>2

\* A step that leaves the kernel's resource fields alone moves no resource.
LEMMA FieldsKept ==
    ASSUME UNCHANGED <<count, owned_by, blocking_sema, blocking_mutex>>
    PROVE  SameServices
BY DEF SameServices, Waits

\* Boot moves no resource: nobody waits before the threads run.
LEMMA BootRefines ==
    ASSUME IInv, Boot
    PROVE  SameServices \/ Services!Next
<1>1. CASE \E p \in Regular : OS_Thread_start(p)
  <2>1. PICK p \in Regular : OS_Thread_start(p)
    BY <1>1
  <2>2. UNCHANGED <<count, owned_by, blocking_sema, blocking_mutex>>
    BY <2>1 DEF OS_Thread_start, Commit, Assign, Kernel
  <2> QED
    BY <2>2, FieldsKept
<1>2. CASE \E q \in EQTs : OS_EventQueue_Thread_start(q)
  <2>1. PICK q \in EQTs : OS_EventQueue_Thread_start(q)
    BY <1>2
  <2> DEFINE k == Kernel
             x == [k EXCEPT !.list = @ \cup {q}, !.ready = @ \cup {q}]
             y == J_EventQueue_put(x, q)
  <2>2. Commit(y)
    BY <2>1 DEF OS_EventQueue_Thread_start
  <2>3. SameResources(k, x)
    BY DEF SameResources, Kernel
  <2> HIDE DEF x
  <2>4. SameResources(x, y)
    <3> DEFINE a == J_ASSERT(x, x.free[q] > 0, "event queue full")
    <3>1. a = x \/ a = [x EXCEPT !.fault = "event queue full"]
      BY DEF J_ASSERT
    <3>2. y = [a EXCEPT !.free[q] = @ - 1]
      BY DEF J_EventQueue_put
    <3> HIDE DEF a, y
    <3> QED
      BY <3>1, <3>2 DEF SameResources, x, k, Kernel
  <2> HIDE DEF y
  <2>5. UNCHANGED <<count, owned_by, blocking_sema, blocking_mutex>>
    BY <2>2, <2>3, <2>4 DEF Commit, Assign, SameResources, Kernel
  <2> QED
    BY <2>5, FieldsKept
<1>3. CASE OS_onStartup
  BY <1>3, FieldsKept DEF OS_onStartup
<1>4. CASE OS_run
  <2> DEFINE k == Kernel
  <2>1. Good(k, {})
    BY <1>4 DEF OS_run, IInv, BootInv, Good, Kernel
  <2>2. Stage(OS_schedule(k), Held(k)) /\ OS_schedule(k) \in KernelState
    BY <2>1, StageBegins, ScheduleStage, ScheduleCall DEF Good
  <2>3. Commit(OS_schedule(k))
    BY <1>4 DEF OS_run
  <2> HIDE DEF k
  <2>4. \/ SameServices
        \/ \E r \in Services!Settled(Held(k)) : Services!Become(r)
    BY <2>2, <2>3, CommitSettles
  <2> QED
    BY <2>4, KernelHeld DEF Services!Next, Services!Grant, k
<1> QED
  BY <1>1, <1>2, <1>3, <1>4 DEF Boot

\* A tick grants at most one thread something.
LEMMA TickRefines ==
    ASSUME IInv, SysTick_Handler
    PROVE  SameServices \/ Services!Next
<1>1. PICK switch1, switch2, knob \in BOOLEAN :
        Commit(OS_schedule(PostIf(PostIf(PostIf(OS_tick(Kernel), switch1),
                                         switch2), knob)))
  BY DEF SysTick_Handler, Tick
<1> DEFINE y == OS_schedule(PostIf(PostIf(PostIf(OS_tick(Kernel), switch1),
                                          switch2), knob))
<1>2. Good(Kernel, {}) /\ Kernel.fault = NoFault
  BY KernelIsGood DEF SysTick_Handler, Tick
<1>3. Stage(y, Held(Kernel)) /\ y \in KernelState
  BY <1>2, TickStage DEF Good
<1>4. Commit(y)
  BY <1>1
<1> HIDE DEF y
<1>5. \/ SameServices
      \/ \E r \in Services!Settled(Held(Kernel)) : Services!Become(r)
  BY <1>3, <1>4, CommitSettles
<1> QED
  BY <1>5, KernelHeld DEF Services!Next, Services!Grant

\* What a running thread does is a request, a return, or nothing.
LEMMA ThreadRefines ==
    ASSUME IInv, NEW p \in Regular, ThreadStep(p)
    PROVE  SameServices \/ Services!Next
<1> DEFINE k == Kernel
<1>1. Active(k, p) /\ Good(k, {})
  <2>1. p \in 1 .. NPrio /\ Running(p)
    BY DEF Regular, ThreadStep, Delay, Wait, Signal, Acquire, Release, Post
  <2> QED
    BY <2>1, RunningIsActive DEF Active
<1>2. Waits[p] = NULL
  BY <1>1, ActiveIsClean DEF Waits, Kernel
<1>3. k.count = count /\ k.owner = owned_by
  BY DEF Kernel
<1>4. Services!resources = Held(k)
  BY KernelHeld
<1> HIDE DEF k
<1>5. CASE Delay(p)
  <2>1. PICK d \in Delays : Commit(OS_delay(k, p, d))
    BY <1>5 DEF Delay, k
  <2>2. OS_delay(k, p, d) \in KernelState /\ Stage(OS_delay(k, p, d), Held(k))
    BY <1>1, DelayGood, DelayStage DEF Good
  <2>3. \/ SameServices
        \/ \E r \in Services!Settled(Held(k)) : Services!Become(r)
    BY <2>1, <2>2, CommitSettles
  <2> QED
    BY <1>4, <2>3 DEF Services!Next, Services!Grant
<1>6. ASSUME NEW s \in Semas, Wait(p, s) PROVE SameServices \/ Services!Next
  <2> DEFINE y == J_sema_wait(k, p, s)
             r == Services!Asked(Held(k), p, s)
  <2>1. y \in KernelState /\ Stage(y, r) /\ Commit(y)
    BY <1>1, <1>6, WaitGood, WaitStage DEF Good, Wait, k
  <2> HIDE DEF y, r
  <2>2. SameServices \/ \E x \in Services!Settled(r) : Services!Become(x)
    BY <2>1, CommitSettles
  <2>3. s \notin Mutexes
    BY KernelAssumption DEF KernelAssumption
  <2> QED
    BY <1>2, <1>4, <2>2, <2>3 DEF Services!Next, Services!Ask, r
<1>7. ASSUME NEW s \in Semas, Signal(p, s) PROVE SameServices \/ Services!Next
  <2> DEFINE y == J_sema_signal(k, s)
             r == Services!Given(Held(k), s)
  <2>1. /\ y \in KernelState /\ Stage(y, r) /\ Commit(y)
        /\ y.fault = NoFault => k.count[s] < MaxCount
    BY <1>1, <1>7, SignalGood, SignalStage DEF Good, Signal, k
  <2> HIDE DEF y, r
  <2>2. \/ SameServices
        \/ y.fault = NoFault /\ \E x \in Services!Settled(r) : Services!Become(x)
    BY <2>1, CommitSettles
  <2> QED
    BY <1>3, <1>4, <2>1, <2>2 DEF Services!Next, Services!Give, r
<1>8. ASSUME NEW m \in Mutexes, Acquire(p, m) PROVE SameServices \/ Services!Next
  <2> DEFINE y == J_Mutex_acquire(k, p, m)
             r == Services!Asked(Held(k), p, m)
  <2>1. /\ y \in KernelState /\ Stage(y, r) /\ Commit(y)
        /\ y.fault = NoFault => k.owner[m] # p
    BY <1>1, <1>8, AcquireGood, AcquireStage DEF Good, Acquire, k
  <2> HIDE DEF y, r
  <2>2. \/ SameServices
        \/ y.fault = NoFault /\ \E x \in Services!Settled(r) : Services!Become(x)
    BY <2>1, CommitSettles
  <2> QED
    BY <1>2, <1>3, <1>4, <2>1, <2>2 DEF Services!Next, Services!Ask, r
<1>9. ASSUME NEW m \in Mutexes, Release(p, m) PROVE SameServices \/ Services!Next
  <2> DEFINE y == J_Mutex_release(k, p, m)
             r == Services!Released(Held(k), m)
  <2>1. /\ y \in KernelState /\ Stage(y, r) /\ Commit(y)
        /\ y.fault = NoFault => k.owner[m] = p
    BY <1>1, <1>9, ReleaseGood, ReleaseStage DEF Good, Release, k
  <2> HIDE DEF y, r
  <2>2. \/ SameServices
        \/ y.fault = NoFault /\ \E x \in Services!Settled(r) : Services!Become(x)
    BY <2>1, CommitSettles
  <2> QED
    BY <1>2, <1>3, <1>4, <2>1, <2>2 DEF Services!Next, Services!Release, r
<1>10. ASSUME NEW q \in EQTs, Post(p, q) PROVE SameServices \/ Services!Next
  <2> DEFINE y == OS_EQT_post(k, q)
  <2>1. y \in KernelState /\ Stage(y, Held(k)) /\ Commit(y)
    BY <1>1, <1>10, PostGood, StageBegins, PostStage DEF Good, Post, k
  <2> HIDE DEF y
  <2>2. \/ SameServices
        \/ \E x \in Services!Settled(Held(k)) : Services!Become(x)
    BY <2>1, CommitSettles
  <2> QED
    BY <1>4, <2>2 DEF Services!Next, Services!Grant
<1> QED
  BY <1>5, <1>6, <1>7, <1>8, <1>9, <1>10 DEF ThreadStep

\* A round of the pump gives back a token, or grants what waits.
LEMMA PumpRefines ==
    ASSUME IInv, NEW q \in EQTs, OS_EventQueue_pump(q)
    PROVE  SameServices \/ Services!Next
<1> DEFINE k == Kernel
<1>1. Running(q) /\ q \in 1 .. NPrio
  BY KernelAssumption DEF OS_EventQueue_pump, KernelAssumption
<1>2. PICK h \in HandlerOutcomes(J_EventQueue_get(k, q)) : Commit(UnreadyIfEmpty(h, q))
  BY DEF OS_EventQueue_pump
<1>3. Active(k, q)
  BY <1>1, RunningIsActive
<1>4. Services!resources = Held(k) /\ k.count = count
  BY KernelHeld DEF Kernel
<1> DEFINE y == UnreadyIfEmpty(h, q)
<1> HIDE DEF k
<1>5. /\ y \in KernelState
      /\ \/ Stage(y, Held(k))
         \/ \E s \in Semas : /\ Stage(y, Services!Given(Held(k), s))
                             /\ y.fault = NoFault => k.count[s] < MaxCount
  BY <1>3, PumpGood, PumpStage DEF Good
<1>6. Commit(y)
  BY <1>2
<1> HIDE DEF y
<1>7. CASE Stage(y, Held(k))
  <2>1. \/ SameServices
        \/ \E x \in Services!Settled(Held(k)) : Services!Become(x)
    BY <1>5, <1>6, <1>7, CommitSettles
  <2> QED
    BY <1>4, <2>1 DEF Services!Next, Services!Grant
<1>8. ASSUME NEW s \in Semas, Stage(y, Services!Given(Held(k), s)),
             y.fault = NoFault => k.count[s] < MaxCount
      PROVE  SameServices \/ Services!Next
  <2> DEFINE r == Services!Given(Held(k), s)
  <2> HIDE DEF r
  <2>1. Stage(y, r)
    BY <1>8 DEF r
  <2>2. \/ SameServices
        \/ y.fault = NoFault /\ \E x \in Services!Settled(r) : Services!Become(x)
    BY <1>5, <1>6, <2>1, CommitSettles
  <2> QED
    BY <1>4, <1>8, <2>2 DEF Services!Next, Services!Give, r
<1> QED
  BY <1>5, <1>7, <1>8

\* After a reset all tokens and mutexes are back and nobody waits.
LEMMA PowerOnInitial == Held(PowerOn) = Services!Initial
BY DEF Held, WaitsIn, PowerOn, Services!Initial, Regular, Threads

\* The reset is a step of Resources.
LEMMA ResetRefines ==
    ASSUME J_on_assert_failed
    PROVE  Services!Next
<1>1. Kernel' = PowerOn
  BY DEF J_on_assert_failed, Assign, Kernel, PowerOn
<1>2. Held(Kernel)' = Held(PowerOn)
  BY <1>1 DEF Held, WaitsIn
<1>3. Services!Become(Services!Initial)
  BY <1>2, PowerOnInitial, KernelHeld
<1> QED
  BY <1>3 DEF Services!Next, Services!Reset

\* Every step of the kernel is a step of Resources, or moves no resource.
LEMMA StepRefines ==
    ASSUME IInv, [Next]_vars
    PROVE  [Services!Next]_<<count, owned_by, Waits>>
<1>1. SUFFICES SameServices \/ Services!Next
  BY DEF SameServices
<1>2. CASE PendSV_Handler
  BY <1>2, FieldsKept DEF PendSV_Handler, Commit, Assign, Kernel
<1>3. CASE UNCHANGED vars
  BY <1>3, FieldsKept DEF vars
<1> QED
  BY <1>2, <1>3, BootRefines, TickRefines, ThreadRefines, PumpRefines,
     ResetRefines DEF Next

\* The kernel implements Resources: for any number of threads, EQTs,
\* semaphores and mutexes, no schedule within a call, a tick or a handler
\* grants twice, loses a token or takes a mutex from its owner.
THEOREM RefinesResources == Spec => ImplementsResources
<1>1. Init => Services!Init
  <2> SUFFICES ASSUME Init PROVE Services!Init
    OBVIOUS
  <2>1. Kernel = PowerOn
    BY DEF Init, Kernel, PowerOn
  <2>2. Services!resources = Services!Initial
    BY <2>1, PowerOnInitial, KernelHeld
  <2> QED
    BY <2>2 DEF Services!Init, Services!resources
<1>2. IInv /\ [Next]_vars => [Services!Next]_<<count, owned_by, Waits>>
  BY StepRefines
<1> QED
  BY <1>1, <1>2, Invariance, PTL DEF Spec, ImplementsResources, Services!Spec
=============================================================================
