---------------------------- MODULE SerialMonitor ----------------------------
(***************************************************************************)
(* The serial monitor, src/jorgOS/jSerialMonitor.c: printf fills a cyclic  *)
(* buffer, the idle thread and the event handlers empty it over UART.  The *)
(* threads run it statement by statement.  An event handler runs it in a   *)
(* critical section: between two calls of the threads if those are in a    *)
(* critical section too, as the comment at line 73 demands of the          *)
(* transmission, or else between any two of their statements.  main.c      *)
(* makes both calls unprotected.                                           *)
(*                                                                         *)
(* capacity is one byte, and JSM_BUFFER_SIZE the largest value of it: here *)
(* the byte has Width bits.  Operators map the monitor's state m, which    *)
(* also holds what went to the UART and what printf was given.             *)
(***************************************************************************)
EXTENDS Naturals, Sequences, SequencesExt

CONSTANTS
    Width,       \* the bits of capacity (8 in the code)
    Chars,       \* the characters that are printed
    Warning,     \* "JSM buffer full!"
    Unprotected, \* the calls that threads make outside critical sections
    MaxWritten   \* bound: printing stops when this much was printed

JSM_BUFFER_SIZE == 2^Width - 1

ASSUME SerialMonitorAssumption ==
    /\ Width \in 1 .. 8
    /\ Unprotected \subseteq {"fputc", "JSM_transmit_buffer"}
    /\ Warning \in Seq(Chars) /\ Len(Warning) < JSM_BUFFER_SIZE
    /\ MaxWritten \in Nat

VARIABLES
    m,      \* buffer, head, tail, capacity, and the histories sent, written
    at,     \* the statement the thread is at
    char,   \* the character the thread prints
    failed  \* an assertion failed

vars == <<m, at, char, failed>>

TransmitPoints == {"while", "write", "++head", "++capacity", "wrap head"}
FputcPoints    == {"store", "++tail", "wrap tail", "--capacity"}

Slots == 0 .. JSM_BUFFER_SIZE - 1
Wrapped(pointer) == IF pointer >= JSM_BUFFER_SIZE THEN 0 ELSE pointer
Byte(n) == n % 2^Width

PointersInside(mon) == mon.head \in Slots /\ mon.tail \in Slots

-----------------------------------------------------------------------------
(* The statements of transmit_char, and of the first part of fputc.        *)

UART_write(mon)   == [mon EXCEPT !.sent = Append(@, mon.buffer[mon.head])]
AdvanceHead(mon)  == [mon EXCEPT !.head = @ + 1]
Free(mon)         == [mon EXCEPT !.capacity = Byte(@ + 1)]
\* (Faulty: the pointer is reset one character early.)
WrapHead_early(mon) ==
    [mon EXCEPT !.head = IF @ >= JSM_BUFFER_SIZE - 1 THEN 0 ELSE @]
WrapHead(mon)     == [mon EXCEPT !.head = Wrapped(@)]

Store(mon, c)     == [mon EXCEPT !.buffer[mon.tail] = c,
                                 !.written = Append(@, c)]
AdvanceTail(mon)  == [mon EXCEPT !.tail = @ + 1]
WrapTail(mon)     == [mon EXCEPT !.tail = Wrapped(@)]
Occupy(mon)       == [mon EXCEPT !.capacity = Byte(@ + 2^Width - 1)]

transmit_char(mon) == WrapHead(Free(AdvanceHead(UART_write(mon))))

\* The loop ends when capacity has counted up to the size of the buffer.
JSM_transmit_buffer(mon) ==
    LET after[n \in 0 .. JSM_BUFFER_SIZE] ==
            IF n = 0 THEN mon ELSE transmit_char(after[n - 1])
    IN  after[JSM_BUFFER_SIZE - mon.capacity]

Stored(mon, c) == Occupy(WrapTail(AdvanceTail(Store(mon, c))))

\* printf, while there is room for what it prints.
Printed(mon, chars) ==
    LET after[n \in 0 .. Len(chars)] ==
            IF n = 0 THEN mon ELSE Stored(after[n - 1], chars[n])
    IN  after[Len(chars)]

\* (Faulty: the full buffer is left for the idle thread.)
Overflow_ignored(mon) == mon

\* A buffer that became full is transmitted, and then the warning is.
Overflow(mon) ==
    IF mon.capacity = 0
    THEN JSM_transmit_buffer(Printed(JSM_transmit_buffer(mon), Warning))
    ELSE mon

fputc(mon, c) == Overflow(Stored(mon, c))

-----------------------------------------------------------------------------

\* The empty buffer.  JSM_init leaves its memory as it is: some character c.
Emptied(c) ==
    [buffer |-> [i \in Slots |-> c], head |-> 0, tail |-> 0,
     capacity |-> JSM_BUFFER_SIZE, sent |-> <<>>, written |-> <<>>]

JSM_init ==
    /\ \E c \in Chars : m = Emptied(c)
    /\ at = "away"
    /\ char \in Chars
    /\ failed = FALSE

MayPrint == Len(m.written) < MaxWritten

At(statement) == at = statement /\ ~failed

\* One statement of the thread, and the one that follows it.
Do(statement, mon, next) ==
    /\ At(statement)
    /\ m' = mon /\ at' = next
    /\ UNCHANGED <<char, failed>>

\* (Faulty: the idle thread leaves the buffer alone.)
OS_onIdle_no_transmit == Do("away", m, "away")

\* The idle thread calls JSM_transmit_buffer ...
OS_onIdle == Do("away", m, "while")

\* ... whose loop tests capacity,
WhileNotEmpty ==
    Do("while", m, IF m.capacity = JSM_BUFFER_SIZE THEN "away" ELSE "write")

\* and whose body asserts that the pointers are sane, and sends a character.
Write ==
    /\ At("write")
    /\ IF PointersInside(m)
       THEN m' = UART_write(m) /\ at' = "++head" /\ UNCHANGED failed
       ELSE failed' = TRUE /\ UNCHANGED <<m, at>>
    /\ UNCHANGED char

IncHead      == Do("++head", AdvanceHead(m), "++capacity")
IncCapacity  == Do("++capacity", Free(m), "wrap head")
WrapHeadStep == Do("wrap head", WrapHead(m), "while")

\* A call of fputc asserts that there is room.
Putc(c) ==
    /\ At("away")
    /\ char' = c
    /\ IF m.capacity > 0 /\ PointersInside(m)
       THEN at' = "store" /\ UNCHANGED failed
       ELSE failed' = TRUE /\ UNCHANGED at
    /\ UNCHANGED m

\* A thread prints a character.
Call == MayPrint /\ \E c \in Chars : Putc(c)

StoreStep    == Do("store", Store(m, char), "++tail")
IncTail      == Do("++tail", AdvanceTail(m), "wrap tail")
WrapTailStep == Do("wrap tail", WrapTail(m), "--capacity")
\* The rest of fputc, with the transmission of a full buffer, is one step.
DecCapacity  == Do("--capacity", Overflow(Occupy(m)), "away")

\* Interrupts are enabled: the thread is in no call, or in an unprotected one.
Preemptible ==
    \/ at = "away"
    \/ at \in TransmitPoints /\ "JSM_transmit_buffer" \in Unprotected
    \/ at \in FputcPoints /\ "fputc" \in Unprotected

\* An event handler, in a critical section: it empties the buffer and prints.
HandleEvent ==
    /\ ~failed /\ MayPrint
    /\ IF PointersInside(m)
       THEN /\ \E c \in Chars : m' = fputc(JSM_transmit_buffer(m), c)
            /\ UNCHANGED failed
       ELSE failed' = TRUE /\ UNCHANGED m
    /\ UNCHANGED <<at, char>>

bsp_event_handler == Preemptible /\ HandleEvent

Transmit == WhileNotEmpty \/ Write \/ IncHead \/ IncCapacity \/ WrapHeadStep
Fputc    == StoreStep \/ IncTail \/ WrapTailStep \/ DecCapacity

Next == OS_onIdle \/ Transmit \/ Call \/ Fputc \/ bsp_event_handler

\* A thread that runs goes on, and the idle thread runs again and again: the
\* threads of main.c that print also wait.
Fairness == WF_vars(Transmit \/ Fputc) /\ SF_vars(OS_onIdle)

Spec == JSM_init /\ [][Next]_vars /\ Fairness

-----------------------------------------------------------------------------

\* The characters the buffer holds, in the order of the pointers.
Contents ==
    [i \in 1 .. JSM_BUFFER_SIZE - m.capacity |->
        m.buffer[(m.head + i - 1) % JSM_BUFFER_SIZE]]

\* Between two calls, what was sent and what is buffered is what was printed:
\* no character is lost, none is sent twice, and none overtakes another.
NothingLostOrRepeated == at = "away" => m.sent \o Contents = m.written
=============================================================================
