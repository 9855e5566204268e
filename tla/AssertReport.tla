---------------------------- MODULE AssertReport ----------------------------
(***************************************************************************)
(* What a failed assertion does: J_assert_failed (src/jorgOS/jAssert.c)    *)
(* and J_on_assert_failed (src/bsp/bsp.c) print a message with the serial  *)
(* monitor, transmit it over the UART (src/bsp/uart.c), wait for the last  *)
(* character, and reset the microcontroller.                               *)
(*                                                                         *)
(* The report runs in the context whose assertion failed, and never        *)
(* returns to it.  It does not mask interrupts: if they were enabled, an   *)
(* event handler may come between any two of its statements.  The monitor  *)
(* that it prints with makes assertions too, which may fail and start      *)
(* another report on top of the first.                                     *)
(*                                                                         *)
(* main.c prints and transmits outside of critical sections, and some of   *)
(* its assertions fail there.  disturbed remembers that a handler came in  *)
(* the middle of a call of the monitor, which is what goes wrong then.     *)
(***************************************************************************)
EXTENDS SerialMonitor

CONSTANTS
    Message,    \* "[ASSERTION FAILED] File ..."
    FailsIn,    \* where the program's assertions fail
    StackDepth  \* the reports that fit on a stack

ASSUME AssertReportAssumption ==
    /\ Message \in Seq(Chars)
    /\ FailsIn \subseteq {"thread", "critical section"}
    /\ StackDepth \in Nat \ {0}

VARIABLES
    phase,   \* what J_on_assert_failed is doing
    printed, \* how much of the message was printed
    depth,   \* the reports on the stack
    masked,  \* the report runs with interrupts masked
    onWire,  \* how many of the characters sent have left the UART
    disturbed \* history: a handler came in the middle of a call

reportVars == <<phase, printed, depth, masked>>
allVars    == <<vars, reportVars, onWire, disturbed>>

Init ==
    /\ JSM_init
    /\ phase = "none" /\ printed = 0 /\ depth = 0 /\ masked = FALSE
    /\ onWire = 0 /\ disturbed = FALSE

-----------------------------------------------------------------------------
(* The UART.                                                               *)

\* The flag UARTFR_BUSY.
Busy == onWire < Len(m.sent)

\* UART_write waits until the UART is not busy, before each character: only
\* the last one can still be on its way.
Sends ==
    /\ At("write") => ~Busy
    /\ onWire' = IF m'.sent = m.sent THEN onWire ELSE Len(m'.sent) - 1

\* The hardware has shifted out a character.
Shifted ==
    /\ Busy
    /\ onWire' = onWire + 1
    /\ UNCHANGED <<vars, reportVars, disturbed>>

-----------------------------------------------------------------------------
(* The program.                                                            *)

\* The call that the thread makes, where an assertion of it may fail.
Callee == IF at = "write" THEN "JSM_transmit_buffer" ELSE "fputc"

Thread(step) ==
    /\ phase = "none"
    /\ step
    /\ Sends
    /\ masked' = (failed' /\ Callee \notin Unprotected)
    /\ UNCHANGED <<phase, printed, depth, disturbed>>

\* An assertion of the thread fails that has nothing to do with the monitor,
\* in a critical section or outside of one.
ThreadFails ==
    /\ phase = "none" /\ At("away")
    /\ failed' = TRUE
    /\ \E section \in FailsIn : masked' = (section = "critical section")
    /\ UNCHANGED <<m, at, char, phase, printed, depth, onWire, disturbed>>

\* Interrupts are enabled, in the program or in the report.
Interruptible ==
    /\ ~failed
    /\ IF phase = "none" THEN Preemptible ELSE ~masked /\ phase # "lost"

\* Where a call has done nothing yet: a handler does no harm to it there.
Beginnings == {"away", "while", "store"}

\* The call that the handler interrupts is in the middle.
Disturbs == disturbed' = (disturbed \/ at \notin Beginnings)

\* Handlers run in critical sections.
Handler ==
    /\ Interruptible
    /\ HandleEvent
    /\ Sends /\ Disturbs
    /\ masked' = (masked \/ failed')
    /\ UNCHANGED <<phase, printed, depth>>

HandlerFails ==
    /\ Interruptible /\ "critical section" \in FailsIn
    /\ failed' = TRUE /\ masked' = TRUE
    /\ Disturbs
    /\ UNCHANGED <<m, at, char, phase, printed, depth, onWire>>

-----------------------------------------------------------------------------
(* The report.                                                             *)

\* J_on_assert_failed is called, on top of what the context was doing.  When
\* the stack is full, it overwrites other memory until the hardware faults,
\* and every fault of the hardware ends in the loop of Default_Handler.
J_assert_failed ==
    /\ failed /\ phase # "lost"
    /\ IF depth < StackDepth
       THEN /\ phase' = "print" /\ printed' = 0 /\ depth' = depth + 1
            /\ at' = "away" /\ failed' = FALSE
       ELSE /\ phase' = "lost"
            /\ UNCHANGED <<printed, depth, at, failed>>
    /\ UNCHANGED <<m, char, masked, onWire, disturbed>>

\* The next character of the message is given to fputc ...
ReportPrints ==
    /\ phase = "print" /\ printed < Len(Message)
    /\ Putc(Message[printed + 1])
    /\ printed' = IF failed' THEN printed ELSE printed + 1
    /\ UNCHANGED <<phase, depth, masked, onWire, disturbed>>

\* ... which stores it,
ReportStores ==
    /\ phase = "print"
    /\ Fputc
    /\ Sends
    /\ UNCHANGED <<reportVars, disturbed>>

\* then the buffer is transmitted.
ReportTransmits ==
    /\ phase = "print" /\ printed = Len(Message)
    /\ Do("away", m, "while")
    /\ phase' = "transmit"
    /\ UNCHANGED <<printed, depth, masked, onWire, disturbed>>

ReportSends ==
    /\ phase = "transmit"
    /\ Transmit
    /\ Sends
    /\ UNCHANGED <<reportVars, disturbed>>

\* (Faulty: does not wait.)
UART_no_delay ==
    /\ phase = "transmit" /\ At("away")
    /\ phase' = "reset"
    /\ UNCHANGED <<vars, printed, depth, masked, onWire, disturbed>>

UART_delay_until_not_busy ==
    /\ phase = "transmit" /\ At("away")
    /\ ~Busy
    /\ phase' = "reset"
    /\ UNCHANGED <<vars, printed, depth, masked, onWire, disturbed>>

\* The microcontroller starts anew.
NVIC_SystemReset ==
    /\ phase = "reset" /\ ~failed
    /\ \E c \in Chars : m' = Emptied(c)
    /\ at' = "away" /\ UNCHANGED <<char, failed>>
    /\ phase' = "none" /\ printed' = 0 /\ depth' = 0 /\ masked' = FALSE
    /\ onWire' = 0 /\ disturbed' = FALSE

\* The loop that every fault of the hardware ends in.
Default_Handler == phase = "lost" /\ UNCHANGED allVars

J_on_assert_failed ==
    \/ ReportPrints \/ ReportStores
    \/ ReportTransmits \/ ReportSends
    \/ UART_delay_until_not_busy \/ NVIC_SystemReset

ReportNext ==
    \/ Thread(OS_onIdle) \/ Thread(Call) \/ Thread(Transmit \/ Fputc)
    \/ ThreadFails
    \/ Handler \/ HandlerFails
    \/ Shifted
    \/ J_assert_failed \/ J_on_assert_failed \/ Default_Handler

\* The context that reports runs on, also when it is interrupted, since events
\* come to an end between two of its statements; the UART shifts.  A thread
\* that runs goes on, and the idle thread runs again and again: the threads of
\* main.c that print also wait.
ReportSpec ==
    /\ Init /\ [][ReportNext]_allVars
    /\ WF_allVars(J_assert_failed \/ J_on_assert_failed)
    /\ WF_allVars(Shifted)
    /\ WF_allVars(Thread(Transmit \/ Fputc)) /\ SF_allVars(Thread(OS_onIdle))

-----------------------------------------------------------------------------

\* The texts that end with one more character, and with the warning if that
\* character fills the buffer.
Continued(texts, c) ==
    {text \o <<c>> : text \in texts}
        \cup {text \o <<c>> \o Warning : text \in texts}

\* What the first n characters of the message may look like.
BrokenMessages[n \in 0 .. Len(Message)] ==
    IF n = 0 THEN {<<>>} ELSE Continued(BrokenMessages[n - 1], Message[n])

\* Between two calls, what was sent and what is buffered is what was printed,
\* as long as no event came in the middle of a call.
NothingIsLost == ~disturbed => NothingLostOrRepeated

\* As long as no event came in the middle of a call, no caller finds the
\* buffer full or a pointer outside of it, and no character is sent from
\* outside: the assertions of the monitor hold, in a report too, so that no
\* report is cut short by one of its own.
AssertionsHold ==
    ~disturbed =>
        /\ at \in {"away", "write"} => PointersInside(m)
        /\ at = "away" => m.capacity > 0

\* "The UART must finish sending the last character ... Only then reset the
\* MCU" (bsp.c:73): when a report that ran with interrupts masked resets the
\* microcontroller, everything that was printed has left the UART, and the
\* message of the assertion ends it, broken at most by warnings that the
\* buffer was full.  (With interrupts enabled, handlers print between the
\* characters of the message, and after them.)
ReportIsComplete ==
    [][ NVIC_SystemReset /\ masked /\ ~disturbed =>
          /\ m.sent = m.written
          /\ onWire = Len(m.sent)
          /\ \E text \in BrokenMessages[Len(Message)] : IsSuffix(text, m.sent) ]_allVars

\* A failed assertion resets the microcontroller in the end, whether or not
\* interrupts were masked when it failed, also if the buffer was full to the
\* last character, or a handler interrupts the report and fails too - unless
\* an event came in the middle of a call: then the monitor's own assertions
\* may fail in every report, until the stack is full.
ReportsEndInReset == failed ~> (phase = "none" /\ ~failed) \/ disturbed

\* What was printed leaves the UART in the end: when the idle thread runs, or
\* before the reset, if an assertion fails meanwhile.  A report that does not
\* mask interrupts may reset the microcontroller before what a handler printed
\* was sent, and an event in the middle of a call may lose characters.
EverythingIsSent ==
    \A n \in 1 .. MaxWritten :
        Len(m.written) >= n
            ~> onWire >= n \/ disturbed \/ (phase # "none" /\ ~masked)
=============================================================================
