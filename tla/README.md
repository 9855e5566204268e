# A verification of jorgOS in TLA+

jorgOS is a small real-time kernel for a Cortex-M4 microcontroller
(TM4C123GH6PM), with a board support package, an LED manager and a
demonstration program. This directory models it in TLA+, checks the models
with TLC on small instances, and proves the most important properties for
every instance with TLAPS.

Paths below are relative to the repository. `PROJECT.json` maps every
definition to the lines that it models, every hazard of the code to the
properties that watch it, and every property to a faulty variant of the code
that breaks it.

## 1. Inventory

| Component | State | Operations | Talks to |
|---|---|---|---|
| Scheduler, threads, delays (`jorgOS/jorgOS.c`) | `OS_curr`, `OS_next`, the ready and delayed sets, a control block per thread | `OS_Thread_start`, `OS_run`, `OS_schedule`, `OS_delay`, `OS_tick` | called by everything below; asks PendSV for the context switch |
| Context switch (`jorgOS.c`) | the registers, a stack per thread, a saved stack pointer per thread | `OS_Thread_start` (the first frame), `PendSV_Handler` | runs between the exception entry and return of the processor |
| Semaphores (`jSema.c`) | a count and its maximum | `J_sema_wait`, `J_sema_signal` | both call the scheduler, which gives tokens to waiters |
| Mutexes (`jMutex.c`) | the owner | `J_Mutex_acquire`, `J_Mutex_release` | as semaphores |
| Event-queue threads, EQTs (`jEventQueueThread.c`, `jorgOS.c`) | a ready bit and a queue each | `OS_EQT_post`, `OS_EventQueue_pump` | posted to by threads, handlers and the tick |
| Event queues (`jEvent.c`) | a circular buffer | put, get, isEmpty | inside of the two above |
| Critical sections (`jCritSec.c`) | `PRIMASK`, a depth counter | start, end | around every kernel call |
| Interrupts and reset (`bsp/bsp.c`, `jorgOS.c`) | pending bits | `SysTick_Handler`, `PendSV_Handler`, `J_on_assert_failed` | SysTick runs the tick of kernel and board; PendSV switches threads |
| Assertions (`jAssert.c`, `jAssert.h`) | none | `J_ASSERT`, `J_assert_stack_integrity` | a failed one reports over the serial monitor and resets the board |
| Serial monitor (`jSerialMonitor.c`) | a cyclic buffer of 255 characters | `fputc`, `JSM_transmit_buffer` | filled by printf everywhere, emptied by the idle thread and by handlers |
| UART, timer (`uart.c`, `bsp_timer.c`) | the character on its way; the milliseconds | `UART_write`, `UART_delay_until_not_busy`, `BSP_get_time_millis` | used by the serial monitor, and by the LED manager |
| Switches, knob (`bsp_switch.c`, `qei.c`) | debounced state, last position | `BSP_switch_tick`, `QEI_tick` | sampled by the tick, post to the board's EQT |
| Colours (`bsp_led.c`, `jfp.h`, `jfp.c`) | the PWM comparators | `BSP_LED_RGB_from_HSL`, `BSP_LED_set_PWM_signal` | called by the LED manager, compute in fixed-point formats |
| LED manager (`led_manager.c`) | per LED: mode, colours, start time | `LM_tick`, `LM_set_active_mode`, `LM_set_HSL` | ticked by the idle thread, changed by the board's event handler |
| Math library (`jmath.c`, `jfp.h`) | none | saturating arithmetic, products and remainders of three fixed-point formats | used by the colours and the knob |
| Demo (`main.c`) | nine threads, a semaphore, a mutex | the loops of the threads, `OS_onIdle`, two event handlers | everything above |
| Board set-up, device files, tests | none that lasts | register writes, start-up code, unit tests of colours and fixed-point numbers | not modelled |

What is hard about this code is that it is interrupted:

- **The tick may come between any two instructions** that are not in a critical
  section. It may post up to three events and schedule, and so change what
  another context just chose (`CritSec`, `JorgOS`).
- **Choosing and switching are two steps.** `OS_schedule` picks `OS_next`, and
  hands a token or a mutex to it on the spot. PendSV switches later, after
  perhaps another tick and another choice.
- **Calls nest.** A handler runs inside the pump's critical section, and may
  post to its own queue; posts schedule; the release of a mutex schedules
  twice.
- **Interrupts use the stack of whatever they interrupt.** The switch is a
  handful of instructions that must leave two stacks as exception return
  expects them (`ContextSwitch`).
- **The idle thread runs unprotected.** It transmits the monitor's buffer and
  ticks the LED manager, both on data that event handlers change.
- **Limits are assertions**, and an assertion that fails resets the board: a
  full event queue, a semaphore at its maximum, too deep a nesting. The report
  of the failure uses the serial monitor, which may be what failed.
- **Counters wrap around**: the position of the knob, the bytes of the buffer,
  the milliseconds, the fixed-point numbers of a colour.

What makes each part correct:

- *Kernel*: it fails none of its own assertions; every thread is ready, delayed
  or blocked for one reason; the choice of the scheduler stays current; tokens
  are neither lost nor made; a mutex goes from its owner to one waiter; an EQT
  is ready exactly when it has events; delays end; posts are noticed.
- *Context switch*: a thread finds its registers and its stack as it left them.
- *Event queue, serial monitor*: first in, first out; nothing lost or repeated;
  a report is sent completely, and the reset comes.
- *Critical sections*: mutual exclusion; interrupts come back when they should.
- *Board inputs*: the events tell the whole state, through the queue to the
  handler; a held switch is reported.
- *LED manager*: the active mode is shown in the end, no change is undone, one
  LED leaves the other alone, every colour can be converted.
- *Demo*: no assertion fails but that of a full queue, after a burst of inputs
  that nobody had the time for; nobody starves.

## 2. Modules

| Module | What it models |
|---|---|
| `JorgOS` | the kernel: scheduler, delays, semaphores, mutexes, EQTs, tick, PendSV, reset |
| `JorgOSProofs` | its theorems, and the proof that it implements `Resources` |
| `Resources` | what semaphores and mutexes promise, without priorities or interrupts |
| `ContextSwitch` | stacks, registers, the first frame, the assembly of `PendSV_Handler`, the check of the stacks |
| `ContextSwitchProofs` | its theorems |
| `BoundedFifo` | what an event queue promises |
| `EventQueue` | `jEvent.c`; implements `BoundedFifo` |
| `BoardInput` | `bsp_switch.c` and `qei.c`, the tick that runs them, the event queue (extends `EventQueue`), the pump, and an observer in the place of the handler |
| `BoardInputProofs` | the theorems of the queue, the refinement among them, and of the board around it |
| `CritSec` | `jCritSec.c`, instruction by instruction |
| `CritSecProofs` | its theorems |
| `SerialMonitor` | `jSerialMonitor.c`, statement by statement |
| `AssertReport` | the UART and the report of a failed assertion, on top of the monitor; extends `SerialMonitor` |
| `SerialMonitorProofs` | the theorems of both |
| `FixedPoint` | the formats of `jfp.h`, with the number of digits after the point as a constant |
| `HSL` | the colour conversion of `bsp_led.c` in the format `SFP_11_20`, and a reference for it |
| `Calculations` | what the conversion promises about every colour, and the products of `SFP_10_5` about every pair of numbers; extends `HSL` |
| `JMath` | the saturating arithmetic of `jmath.c` |
| `ArithmeticProofs` | induction, the theorems of `JMath`, and the lemmas on the conversion: that it succeeds, and how accurate it is |
| `LedManager` | `led_manager.c` and the PWM signals, as `main`, the idle thread and the event handler run them; extends `HSL` |
| `LedManagerProofs` | its theorems, and those of `Calculations` |
| `Demo` | the threads of `main.c`; extends `JorgOS` |
| `DemoProofs` | its theorems; extends `JorgOSProofs` |
| `MC*` | values for the constants; one `.cfg` for each run |

A definition whose comment begins with *(Faulty: ...)* is a plausible bug: no
specification uses it. It stands before the definition that it could replace,
and shows that a property notices the bug.

### JorgOS, Resources

A step of the model is a kernel call as a whole, because each of them runs in
one critical section. That this is allowed is the theorem
`CritSecProofs!SectionsNeverOverlap`. The variables are those of the code. The
two bit sets are sets of priorities, a thread *is* its priority (thread 0 is
the idle thread), and pointers to semaphores and mutexes are their names.

Calls are operators from a snapshot of the kernel to a snapshot, since they
nest: `Tick` is `OS_tick`, then up to three posts, each with its own
`OS_schedule` *before* the EQT is made ready as in the code, and a last
`OS_schedule`. `J_ASSERT` records the first assertion that fails, `Commit`
keeps nothing else, and `J_on_assert_failed` is the reset.
The loop of `OS_schedule` is written as what it finds, `Candidate`, the highest
ready thread that is not blocked or can be unblocked. Its side effect is
`Unblock`, and the assertions it makes of the threads it passes are
`ScanAssertions`.

`Resources` has threads that ask, wait, are granted and give back. In one step
at most one waiting thread is granted what it waits for. `Services` in `JorgOS`
is the refinement mapping: tokens and owners are those of the kernel, and
`Waits` joins the two blocking pointers of a thread.

Decisions worth knowing:

- SysTick and PendSV have the same, lowest, priority. The model lets either one
  come first, so that no result rests on how the hardware breaks the tie.
- `OS_run` starts the tick before it disables interrupts for its `OS_schedule`.
  The model has the two steps, so a tick may schedule, and PendSV switch, while
  `OS_curr` is still null.
- Threads are free: a regular thread that runs makes any call with any
  argument, or none. An event handler does nothing, signals, or posts, to its
  own queue too. So the properties hold for every application that starts all
  of its threads before `OS_run`, and keeps to the calls that are allowed to
  it: the idle thread makes no kernel call, an EQT none that blocks, and a
  handler at most one for an event (`HandlerOutcomes`; those of `main.c` make
  none). The code allows a handler several.
- Events carry no data here: their contents and their order are the matter of
  `BoardInput`.

### ContextSwitch

Memory is one array of words with the stacks in it, as in the microcontroller,
so a stack that grows out of its array overwrites what lies below. There is one
stack pointer, for threads and handlers. What the processor does is external:
entry pushes eight registers, and a padding word where the stack pointer is
odd, that is not at a multiple of eight bytes; return pops them. What
`OS_Thread_start` and `PendSV_Handler` do is translated instruction by
instruction, with the save that is left out while `OS_curr` is null.
`SysTick_Handler` pushes `HandlerWords` for its own calls. A word names the
register and the thread that it holds, and `version` what the thread last wrote
there. A thread calls functions and returns from them, which moves its stack
pointer. The threads are started before `OS_run`, as in `main.c`. The model ends
where a stack has overflown, since what happens then
depends on what was overwritten.

### EventQueue, BoardInput

In `EventQueue` pointers are indices, and the pointer assertions are checked
where the code has them, after the update too. `J_EventQueue_init` leaves the
memory as it is. `Contents` reads the buffer from the head and is the
refinement mapping to `BoundedFifo`. `FailsElsewhere` is the program failing an
assertion of another part.

`BoardInput` puts the queue where it works. A tick samples switches and
position, debounces as the two lines of bit arithmetic do, and posts the events
one by one; nothing else runs until all are posted, as the tick is a critical
section. The knob's differences are computed in unsigned and signed integers
with `Half` positions on either side of zero (2³¹ in the code, any number
here), and the event holds one turn less than there were. The first event in
the queue is `INIT_SIG`. The assertion of `QEI_tick` is evaluated with the
samples, before the events of the switches are posted, which the code does
first: a tick that fails it posts nothing here, and the reset that follows
empties the queue in either case. The pump hands events to the handler when it
finds the time, or not: several ticks may come first, and a full queue resets
the board.
The observer in the place of the handler starts from what it knows at the reset
and learns only from events. What the pins do between two ticks is left out:
the next sample is arbitrary.

### CritSec

A step is an instruction of `J_crit_sec_start` or `J_crit_sec_end`. The depth
is checked with interrupts still enabled, so a switch can come between the
check and the masking. PendSV masks interrupts without counting, and a thread
that was switched away goes on where it was.

### SerialMonitor, AssertReport

Threads run `fputc` and `transmit_char` statement by statement, event handlers
run whole calls at once. `Unprotected` names the calls that threads make
outside of a critical section: both, in `main.c` (for example at lines 30, 154
and 366) and in the run `serial_monitor`; in `serial_monitor_race` the
transmission. `sent` and `written` are histories. `capacity` wraps around at
`2^Width`, and the buffer has `2^Width - 1` places, as in the code. `DecCapacity`
joins `--capacity` (line 51) with what follows it in `fputc`: when the buffer is
full, the transmission, the warning and the transmission of that. Reading and
writing a counter is one step. The assertions that close `fputc` and
`transmit_char` (lines 65-67 and 88-89) are left out; those on the pointers
are repeated at the beginning of the next call, and `capacity` is a byte, which
cannot exceed the size of 255.

`AssertReport` adds the UART, which shifts one character at a time and which
`UART_write` waits for, and what follows a failed assertion: the message, the
transmission, the wait for the last character, the reset. An assertion may fail
anywhere in a thread or a handler, and those of `fputc` may fail inside of a
report, which puts another report on the stack, `StackDepth` of them at the
most: the next one ends in the loop of `Default_Handler`, as every fault does. The report runs with interrupts as they were: `FailsIn` says where the
program's assertions fail. Those of the threads fail with interrupts enabled
(`main.c:32`), those of handlers with interrupts masked.

Used as `main.c` uses it the monitor can lose characters, as
`serial_monitor_race` shows. `disturbed` is a history that says when: an event
came while a call of a thread or of a report was in the middle, that is, had
done something and not everything yet (it was not at one of the `Beginnings`).
The properties of `AssertReport` promise what they say until then. Nothing else
is assumed of the callers: events may come between calls, at the beginning of
one, and between any two characters of a report.

### FixedPoint, HSL, Calculations, LedManager

`FixedPoint` has the shifts of negative numbers, that round down, and the
divisions, that round towards zero, as the target computes them. A float is a
fraction; the rounding of floating-point arithmetic itself is left out. `HSL`
computes with it bit for bit: pre-shifts, truncation, the constant `1/60` as
the code computes it (17476). `Reference` is the other textbook formula for the
same colour, without sextants, in 4096ths. `Calculations` has the arguments of a
conversion, or of a product, as its variables, and no step: what it promises is
about the results for all of them.

`LedManager` begins at `main`, which sets the LEDs to red in a loop whose
variable is not initialized (`main_red` starts at any of them, or beyond), and
configures the manager. Then each step of the idle thread is one read or write
of what the event handler shares: the time, the start time, the mode, the hue,
the colour, the lightness once more, and each of the three comparators of an
LED. (The build sets no optimisation level, so the second read of the lightness
is a read.) Both LEDs are ticked; the handler changes LED_0, and its own tick
writes the comparators of both. `LM_init` and each call of the
configuration (`main.c:297-308`) end with a tick of the manager; the model has
the last one, which decides what the LEDs show before interrupts are on.

### Demo

Each thread is the sequence of kernel calls in its loop, with its priority and
its delays, which are multiples of `SECOND`, the number of ticks in a second, or
half of it. Between two calls a thread prints, for as long as it likes: ticks
come while all threads wait (`IdleTick`), and while a thread runs, or `main`, or
a switch is pending (`BusyTick`). They do in `main.c`: a tick is 10 ms, less
than ten characters take at 9600 baud (`bsp.c:33`), and lines 154, 178 and 211
transmit on the spot, as does `fputc` when the buffer is full, 255 characters
at once.

So the board's queue can overflow. The threads at and above `bsp_eqt` may keep
the processor for several ticks, each of which posts up to three events, and
with the `INIT_SIG` that is there from the beginning the ten places are full in
the fourth tick. `behind` counts the ticks since a thread below `bsp_eqt` ran
last, and `OnlyBurstsFail` says that the queue fails only when `3 * behind`
reaches its size: no event is left behind by anything else, and no other
assertion of the kernel fails. How many ticks the printing really takes is not
modelled.

## 3. Runs

| Run | Instance | What it shows |
|---|---|---|
| `kernel` | 4 priorities, one of them an EQT, a semaphore of 2, a mutex, queues of 2, delays of 0 and 2 ticks | all safety properties of the kernel, and that it implements `Resources` |
| `kernel_eqts` | 4 priorities, two EQTs with queues of 3, delays of 1 and 2 | delays end; posts to EQTs above and below their posters are noticed |
| `priority` | 3 priorities | *violated*: a thread below a ready EQT runs on |
| `context_switch` | two threads whose stacks begin at an even and an odd word, and `main` | registers and stacks survive every switch; the stack check is exact |
| `crit_sec` | 2 threads and the tick, depth 3 | sections exclude, interrupts return |
| `serial_monitor` | a buffer of 3, 3 characters, a message and a warning of 2, 3 reports on a stack, all calls unprotected, failures with interrupts masked and enabled | until an event comes in the middle of a call: nothing lost or repeated, all is sent, every report ends in a reset, a masked one complete |
| `serial_monitor_race` | a buffer of 3, 8 characters, transmission unprotected | *violated*: a slot sent that holds nothing, a character not sent |
| `board_input` | 2 switches, 8 positions, up to 3 turns in a tick and 2 in an event, a queue of 2 | events tell all, across every wrap-around; the queue implements `BoundedFifo` |
| `led_manager` | the colours and times of `main.c` with a hue period of 5 s, time in 12 bits, steps of 1.5 s up to 4.5 s, 3 events, 30 turns each | no assertion fails, LED_1 is left alone, no turn is lost, the active mode is shown |
| `led_race` | the same in 16 bits, single turns | *violated*: a result of 257 |
| `demo` | the nine threads of `main.c`, two ticks in a second, queues of 4, one tick while a thread runs | no assertion fails but that of a full queue, after a burst; nobody starves |
| `arithmetic` | 15041 colours at and around the ends of all ranges; 155316 products of two numbers of `SFP_10_5` at and around the powers of two, with all pre-shifts | every conversion succeeds and is accurate; products lose no more than the shifts drop |

Why the bounds are enough:

- Kernel: three regular threads and one EQT give a waiter below and above the
  one that runs, and an EQT above and below waiters. With two tokens a signal
  can meet zero, one or both of them; with queues of two or three a post can
  meet an empty, a filled and a full one. The proofs do not need these bounds.
- `ContextSwitch`: the frames of a switch leave a stack room for two words or
  three, and calls push one or two, so that ticks and switches meet odd and even
  stack pointers, the last words of the array, and overflow by either of them.
  All three contexts share a memory of 70 words. The proofs do not need these
  bounds.
- `CritSec`: two threads and the tick are the three contexts that can meet
  between check and count; depth 3 reaches the limit.
- `SerialMonitor`, `AssertReport`: with three characters a thread fills the
  buffer of three, whose warning then follows them; a report fills it on top of
  what a thread left there, between the characters of its message or at their
  end; both wrap around. Three reports fit on the stack, so that the second is
  interrupted too, and the fourth is one too many. Eight characters are what
  the run of the race is given. The proofs do not need these bounds.
- `BoardInput`: turns of one to three positions cross the signed and the
  unsigned boundary of eight positions in either direction; three is one more
  than an event holds, and the wrap-around of both pointers of the queue falls
  on every kind of event.
- `LedManager`: the time steps meet the blinking mode on and off, the hues of
  several sextants, and the wrap-around of the 12 bits; three events are a
  change of mode, one of lightness and a change back, in the middle of any tick.
  30 turns reach the clamps. The proofs do not need these bounds.
- `arithmetic`: errors of a fixed-point computation sit where a shift or a
  sextant changes, and at both ends of the ranges. All of these are there. The
  proofs do not need these bounds.
- `demo`: the delays are multiples of half a second, so two ticks in a second
  tell all of them apart. `MaxLate`, the ticks since the reset that may come
  while a thread runs, is one: with it, two ticks come without time for the
  threads below `bsp_eqt`, and queues of four overflow. The proofs are for any
  `MaxLate` (and a behaviour up to any of its states has but finitely many
  ticks), any number of ticks in a second from two on, any maximum of the
  semaphore, and any queues of three places or more.

Deadlock is checked in every run but two: the model of `serial_monitor_race`
stops where the corrupted buffer fails an assertion, that of `context_switch`
where a stack has overflown. Elsewhere the idle thread goes on where a bound
ends the printing, the time or the events.

### Fairness

- `JorgOS`: the timer is hardware, so ticks keep coming; pending interrupts are
  taken; a failed assertion reaches its reset. Threads owe nothing: they may
  compute for ever. The first condition says that ticks recur unless, from
  some time on, one without an input is never due (because the board is being
  reset, or would change nothing). This is weak fairness of the tick, written
  so that an input need not come.
- `AssertReport`: a context that reports a failure runs on, and the UART shifts:
  nothing else can stop either for ever. (An interrupted report goes on when
  the handler is done, or another report resets the board.) A thread in a call
  goes on. Strong fairness of the idle thread is what the demo's threads grant,
  as all of them wait again and again.
- `BoardInput`: the tick comes, its handler runs to its end, and the pump gets
  to run. The reset is not fair: what is promised is promised to a board that
  does not fail for ever.
- `LedManager`: `main` runs on, and the idle thread, woken by each tick, runs.
- `Demo`: again and again a tick comes while all threads wait (`[]<>` of
  `IdleTick`), as each thread of `main.c` comes to a delay or a wait in each
  round of its loop. Other ticks may come, or not.

### Violations

Three runs check what a comment claims and show that the code does otherwise:

1. `priority`: `OS_EQT_post` schedules before it readies the EQT, against its
   own comment (`jEventQueueThread.c:13`) and `jorgOS.c:291`. `PostsAreNoticed`
   and `TickChoosesHighest` show that the next tick makes up for it.
2. `serial_monitor_race`: the idle thread's unprotected transmission corrupts
   the buffer. An event comes after `++head` and before `++capacity`
   (`jSerialMonitor.c:80`). Its handler finds one place too few in `capacity`,
   sends the slot after the last one, which holds nothing that was printed, and
   prints its own character into the next. The thread's `++capacity` then
   declares the buffer empty with that character in it. (An event before
   `++head` makes the handler send the same character again.)
3. `led_race`: a click of the knob in the middle of a conversion overflows a
   byte. `ActiveModeIsShown` shows that a later tick makes up for it.

More differences between text and code were met on the way, and have no run of
their own:

- *The last token.* `jSema.c:44` says that no thread should have been waiting
  when `J_sema_wait` takes the last token. A signal may have left it there for
  a waiter while a thread of higher priority was chosen, which then takes it.
  It costs the waiter its turn, and nothing else (`ScheduleIsCurrent`,
  `ImplementsResources`).
- *A report with interrupts enabled.* `J_on_assert_failed` (`bsp.c:66`) masks
  nothing. When a thread's assertion fails outside of a critical section, as
  the stack checks do, a handler may print between `++tail` and the wrap-around
  of the tail. The assertion on the tail in `fputc` (`jSerialMonitor.c:41`)
  then fails in each report of itself, until the stack is full, and the reset
  at line 77 is not reached. `ReportsEndInReset` without its last disjunct, in
  the run `serial_monitor`, gives the trace. With it, the run says that this is
  the only way to miss the reset: a handler in the middle of a call. Reports
  that are interrupted between their characters, by handlers that print or fail
  themselves, reach it.
- *The padding word.* `jorgOS.c:408` and `jAssert.c:51` say that the filler
  detects an overflow. It is one word, `stack[1]`. If a stack is used down to
  the word above it when a tick comes, the padding word of the frame falls on
  it, the frame goes below the array, and the filler stays: the next check
  passes. The model of the switch ends at the overflow, so `CheckIsExact`
  speaks of the states up to it.
- *Red at the start.* `main.c:291` sets all LEDs to red until the manager is
  initialized, in a loop whose variable `LED_idx` is not: it may leave LEDs
  out.
- *An effect from its beginning.* `led_manager.c:76` says that an effect starts
  from the beginning after a reset of its time. The idle thread, preempted
  before its writes to the comparators (`bsp_led.c:62`), writes the old colour
  over it, until its next tick.
- *Parentheses.* `FLOAT_TO_SFP_10_5` and the macros like it (`jfp.h:19`) do not
  parenthesise their parameter, so the argument `16.0f - 0.00001f` of
  `tests_fixed_point.c` is converted in part. The test's own comment wonders.
- *PASS after a failure.* `JTEST_run_on_target` (`jtest.c:41`) ends the report
  of a failed test with "PASS", which `JTEST_run_on_host` takes care not to.
- The repository's README says that `OS_run` enters the critical section before
  it calls `OS_onStartup` (the code does it after), the comment on
  `HUE_SHIFTING_MODE_PERIOD_MAX` allows ten minutes, which a `uint16_t` of
  milliseconds does not hold, and the ranges in the comments of `jfp.h` are not
  those of the formats.

## 4. Proofs

All of it holds for every value of the constants that satisfies the assumption
named in the module (`KernelAssumption`, `EventQueueAssumption`,
`CritSecAssumption`, `ContextSwitchAssumption`, `ColoursAssumption`,
`OperandsAssumption`, `LedManagerAssumption`, `DemoAssumption`), which say what
the code's own start-up assertions and integer types say, of the LED manager
that its configuration has colours in range and positive times, of the stacks
that they are arrays of their own, and that the stack of `main` has room for one
tick, and of the program of `main.c` which threads, EQTs, semaphores and mutexes
it has.

**JorgOSProofs.** None of the invariants is inductive alone. `ScheduleIsCurrent`
for example needs that a blocked thread is in the ready set, and that EQTs are
never blocked. `IInv` is a predicate of the snapshot in five parts:

- `KernelState`: the types;
- `Consistent`: one reason to wait, sets and counters agree, owners do not
  wait for what they own, regular threads are ready or delayed;
- `Scheduled`: `OS_next` can run, no regular thread above it can;
- `EQTsReadyBut({})`: EQTs are ready exactly when they have events. The set is
  for the EQT that runs, in the middle of the pump's round: it has taken the
  last event and is not unreadied yet;
- `BootInv`: what holds before the kernel has a running thread.

Each call has a lemma (`DelayGood`, `SignalGood`, `WaitGood`, `AcquireGood`,
`ReleaseGood`, `PostGood`, `TickGood`, `GetGood`, `PumpGood`) which says that it
takes a good snapshot to a good one, failing no assertion of the kernel. They
rest on one lemma about `OS_schedule`, `ScheduleGood`, which makes a consistent
snapshot scheduled, and nest as the calls do. `CommitInv` turns a good
snapshot into the invariant of the next state, a failed assertion included.
The action property `TickChoosesHighest` follows from `IInv` and from what the
last `OS_schedule` of the tick leaves behind, once the EQTs posted to are ready
(`TickChoosesTheHighest`).

*Resources.* `RefinesResources` says that every step of the kernel is
one of `Resources`, or stutters. The difficulty is that a call may run
`OS_schedule` several times, a tick up to four times, and each run may grant a
waiting thread its token or its mutex; the abstract step grants one. `Held`
reads the resources from a snapshot. `Stage(k, r)` says of a call in progress
that it has either granted nothing since it made the resources `r`, or has
granted exactly one thread of `r` what it waited for *and* is `Sated`: a regular
thread that is not blocked comes before every regular one that is blocked and
could go on. A run of `OS_schedule` that grants something leaves its thread in
that place, and nothing that a call does later moves it: posts only ready EQTs,
which are never blocked. So later runs grant nothing.

*Mutexes.* `MutexesAreHandedOver` is the action property `MutexHandover`. Its
difficulty is again that calls run `OS_schedule` repeatedly, and that each run
may hand a mutex over. `NoneToHandOver(k)` says that some thread that is not
blocked comes before every regular one that waits for a free mutex, so a run of
`OS_schedule` from `k` gives no mutex away. A scheduled snapshot is of that
kind (`ScheduledIsQuiet`), and so is one before the first choice, when nobody
waits yet (`NobodyWaitsYet`). From such a snapshot ticks, signals, posts and
delays keep every owner (`QuietSchedule` and the lemmas that rest on it). Only
a release begins by making a mutex free. The first `OS_schedule` after it may
hand that mutex to its first waiter, which is chosen, and therefore the second
one hands over nothing (`ScheduleTwice`, `ReleaseHandsOver`).

**ContextSwitchProofs.** Three theorems, for any number of threads with stacks
of any size, depth and alignment: registers, stack pointer and locals survive
every switch (`ContextSwitchIsTransparent`), exceptions return
(`ExceptionsReturnAlways`), and the check of the stacks is exact
(`StackCheckIsExact`). The properties speak of the running thread only, so the
invariant says of every other where its context is. A thread that was switched
away from is `Suspended`: at its saved stack pointer lie the eight registers of
`PendSV_Handler`, then the eight of the exception, whose status word tells
whether a padding word follows, and then exactly the words of its calls. One
that was interrupted by the tick is `Interrupted`: it has the second frame on
its stack, and the other registers still in the processor. Each half of a switch
takes a thread from one of these states to the next, whatever the alignment
(`EnterInterrupts`, `SaveSuspends`, `RestoreInterrupts`, `LeaveComputes`), and
the frame that `OS_Thread_start` fabricates is that of a suspended thread
(`StartSuspends`).

`StackKept` joins this to the check: no stack that has not overflown has left
its array, so that what is written to one stays out of the others (`Apart`), and
the filler is still in the word that is checked exactly if the stack was not
used down to it. Whatever is pushed differs from the filler, but for a padding
word, which leaves as it was what it covers, below the frame's own words
(`StackGrows`). That PendSV cannot interrupt the tick needs the priority that
`OS_init` sets, before the tick is enabled (`Booting`). The theorems end where
the model does: of the states after an overflow they say nothing.

**BoardInputProofs.** For the queue alone, with any caller, `IInv` adds to types
and pointers that the tail follows the head at the distance of the events
(`TailFollowsHead`). Then a put appends to `Contents` and a get takes the first
of it, which `RefinesBoundedFifo` collects into the refinement.

The board has that queue between the tick and the handler. Its steps are steps
of the queue, or stutters (`BoardUsesQueue`), so what was proved of the queue
holds in its place (`BoardQueueIsFifo`). `EventsTellAll` is not inductive: it
speaks of the states where the queue is empty and nothing is left to post.
`BoardInv` says it of every state. `Untold` is what the observer would know
after the events in the queue, and then those still to be posted; it is always
the debounced switches and the position that the board has (`Known`). A tick
adds to both in the same way: the events of a switch or of the knob turn what
was known before the tick into what is known after it (`SwitchEventsTell`,
`KnobEventsTell`), for which the difference of two positions, computed with
wrap-around and read as signed, has to lead from one to the other in every case
(`TurnFacts`, `TickFacts`). The same facts show that the assertion of `QEI_tick`
fails only after a turn of more positions than an event can tell
(`OverflowNeverFails`). What is learned from one sequence of events after
another is what is learned from both (`LearnsConcat`), by induction.

**SerialMonitorProofs.** `NoCharacterIsLost`, `MonitorAssertionsHold` and
`ReportsAreComplete` are about the monitor, the UART and the reports together,
for a counter of up to eight bits, as in the code, any texts, any of the calls
unprotected, and assertions that fail with interrupts masked or enabled. All
three hold while no event has come in the middle of a call (`disturbed`); of a
disturbed monitor the invariant keeps the types alone. `Whole` says
of a monitor between two calls that its tail is as many slots after its head as
are used, and that the slots hold what was printed and not sent yet. A
statement in the middle of a call breaks that, so `MonitorInv` says that there
is a whole monitor with which the call *began*, and that the present one is
what the statements so far have made of it (`Began`). A transmission empties a
whole monitor and a text that fits fills it, by induction over the loops
(`TransmitEmpties`, `PrintedWhole`); the warning is transmitted before the call
returns, so every call leaves room (`FputcLeavesRoom`), and the first assertion
of `fputc` holds. An event at the beginning of a call finds a whole monitor and
leaves one (`HandleEventKeeps`); a report that begins on top of a call finds it
at its beginning too, as no assertion fails in the middle. `ReportInv` adds the
report: of one that runs with interrupts masked, the loop of its phase
"transmit" has emptied the buffer before the phase ends, and the UART has caught
up before the reset (`Finishing`).

`TextInv` follows the message of a report through all of this: what was printed
ends with the first `printed` characters, each of which may have filled the
buffer and drawn a warning after it (`BrokenMessages`). It needs of every
statement what it prints (`FputcPrints`, `TransmitPrintsNothing`), and of a
full buffer that it prints the warning whole or nothing (`OverflowMakesRoom`).
`NextTextInv` rests on `ReportInv`, and is about masked reports: no handler and
no second report prints between two characters of their message.

The history variable takes the place of an assumption on the callers. The
comment at `jSerialMonitor.c:73` demands that transmissions run in critical
sections, and programs that keep to it are never disturbed in one; `main.c` does
not (line 366). So the theorems say of every program that until an event comes
in the middle of a call all is well, and `serial_monitor_race` that the
conclusion is false after it.

**CritSecProofs.** Exclusion is not inductive alone. `IInv` adds that everyone
but the running context was interrupted outside of sections (`Alone`), that the
depth counts the running context's nesting and no other (`Counted`), that
interrupts are masked while it is in a section (`Masked`), and that a context
that has checked the depth still has room for one more level when it counts
(`Room`): what others count in between, they count down again before they can
be switched away.

**DemoProofs.** The program of `main.c`, for any number of ticks in a second.
Its steps are steps of the kernel (`DemoRunsOnKernel`), so `IInv` holds, and the
lemmas on the calls apply. `ProgramFailsInBurstsOnly` and `SignalsNeverPileUp`
need more, because no kernel keeps a program from signaling too often or from
posting to a full queue. `DemoInv` adds four things to `IInv`:

- `Orderly`: a thread that waits has made the call it waits in, and the mutex
  is owned by exactly the thread whose acquire has returned (`Holds`). So
  nobody acquires twice or releases what is another's, and the sections exclude
  each other (`SectionsExclude`);
- `Punctual`: the count is zero between any two steps, since `J_sema_signal`
  ends in an `OS_schedule` that gives the token to the waiting `sema_red` on the
  spot. `sema_red` is away only after a signal it took; its five seconds began
  before the fifteen of `sema_test_signal`, or while that was about to rest, and
  every tick shortens both. So it waits again before the next signal comes. The
  argument also needs the priorities: `sema_red`, the higher one, makes its next
  call before `sema_test_signal` makes its own;
- `Highest`: in this program no post is left unnoticed, since only the tick
  posts, and it schedules last;
- `Queued`: at most `Posted(behind)` events wait for `bsp_eqt`, three for each
  tick since a thread below it ran, and `INIT_SIG`. By `Highest` a switch to such
  a thread finds the queue empty, which is why `behind` may start over there.
  So a full queue means a burst. The queue of the other EQT, `event_test`, gets
  no post but `INIT_SIG`.

A failed assertion leaves the kernel as it was before the call, so that the
invariant holds until the reset.

`EveryRound` shows for each call of each loop that it ends in a state that is
`Settled`, that is, has all three again. `Working` is what a thread finds when
it runs. By `Highest` the program keeps the rule that the kernel alone breaks
in the run `priority` (`HighestRunsInDemo`).

**Arithmetic of colours** (`ArithmeticProofs`, `LedManagerProofs`).
`ConversionAlwaysSucceeds`: every colour in the asserted ranges passes the later
assertions of the conversion, reaches one of its six cases, and gives three
bytes. The delicate one is the hue. It is multiplied by 17476, which is 1/60
rounded down, so the result stays at most 6291360, below 6 · 2²⁰ = 6291456:
rounded up, the last hues would reach a seventh sextant, whose `J_ERROR` resets
the board. The products of two numbers up to one are not greater than either of
them, which bounds chroma, X, and what is added to the lightness.

`ColoursAreAlwaysAccurate`: the bytes are within one of those of `Reference`.
The two formulas divide the circle of hues differently, so the proof goes by
way of the *share* of each component between the darkest and the brightest one.
The code's share is 1, X or 0 of the chroma, by sextant; the reference's is a
slope of thirty-degree sectors. `HueParts` bounds how far the two roundings of a
hue are apart, by 1200 of the 2²⁰ parts of a sextant, and `SharesFollowSlopes`
compares share and slope in each sextant for red, green and blue. Every product
then has an error bound (`UnitProductIsNear`, `AmplitudeIsHalfOfChroma`), and
together they keep each byte within one of the reference (`ComponentsAreNear`).

`ProductsAreAlwaysNear`: for any two 16-bit numbers and all pre-shifts. The two
shifts before the product and the one after it add up to the shift of the format
(`ShiftsAddUp`), and each drops less than one unit of what it leaves.

**LedManagerProofs.** Three theorems, from one inductive invariant: no assertion
of the conversion fails (`NoAssertionFails`), the lightness is what the turns of
the knob add up to (`NoTurnIsLost`), and LED_1 shows its configured colour in
every state after the boot (`LEDsStayIndependent`). The invariant has the types,
with valid colours in every mode and positive periods (`Typed`); that before the
configuration the state is the initial one; that LED_1 keeps its mode and its
colour; and that the bytes an interrupted tick of LED_1 has computed so far are
those of this colour (`LED_1_ticked`). Without the last one nothing would keep a
preempted tick from writing to LED_1 what it computed for LED_0.

The four saturating operations of `jmath.c` compute with wrap-around and compare
the result with an operand. For all operands the comparison finds exactly the
results that wrapped (`AdditionsSaturate`, `SubtractionsSaturate`, from lemmas
that hold for every width). Nothing in the program calls them, so no run does.
`SFP_10_5_MULT` has no caller in the program either, only tests.

*Induction.* The library's induction theorems take an operator as a parameter,
which the provers cannot instantiate. `Induction` is about a set instead. From
it follows that a recursion by given steps defines a function
(`RecursionMakesFunction`), with which the loops of the monitor and the events
that an observer learns from are reasoned about. `FoldLeft`, `SelectSeq` and
other operators that take an operator stay opaque to the provers.

Only model-checked:

- liveness (`DelaysEnd`, `PostsAreNoticed`, `EverythingIsSent`,
  `ReportsEndInReset`, `HeldSwitchIsReported`, `ActiveModeIsShown`,
  `BothKeepAcquiring`), which is out of reach of TLAPS.

Every invariant and every action property that a run finds true is also proved.

## 5. Not modelled

- Start-up and device files, and the set-up of pins, PWM, timer and UART:
  register writes without a protocol, before interrupts are on.
- The test framework and the test files. Nothing interrupts them. What the
  tests expect of colours and products is stated in `Calculations`.
- `calc_capacity` and `BSP_LED_set_color_RGB`, which nothing calls, and the
  `NEAR_EQUAL` and `DBG` macros of the fixed-point formats, of which two name a
  parameter that they do not have.
- The rounding of floating-point arithmetic. Intermediate results of `HSL` fit
  in the 32-bit integers of TLC, which reports an overflow where one occurs.
- Of the texts that are printed only the order of the characters matters.
- The increment of the monitor's `capacity` is one step, not a read and a
  write.
- An overflow of a stack ends the model of the switch. A stack of more than 64
  bytes but fewer than 19 words passes the assertion on its size in
  `OS_Thread_start`; the fresh frame of such a stack may already lie on the
  word that the check looks at. The check of the stack pointer allows one word
  more than the stack has.
- Arguments that `main.c` never passes, and that the code does not check:
  `LM_NR_OF_MODES` as a mode, times of zero for a blinking mode, a period of
  zero or of more than 65535 ms.

## 6. Plan

Done: the kernel with its refinement, the event queue inside the inputs of the
board, critical sections, the context switch, the serial monitor down to the
UART and the report of a failure, both LEDs, the colours and formats, the demo;
and the theorems of section 4.

Left, the more important first:

1. A composition of `CritSec` with the kernel's calls as their bodies, to show
   the atomicity that `JorgOS` assumes as a refinement.
2. The times of the demo: how many ticks each line takes on the wire, to bound
   the bursts of `OnlyBurstsFail` by what `main.c` prints.
