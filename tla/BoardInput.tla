------------------------------ MODULE BoardInput ------------------------------
(***************************************************************************)
(* The inputs of the board, from the pins to the event handler: two        *)
(* switches, src/bsp/bsp_switch.c, a knob on a quadrature encoder,         *)
(* src/bsp/qei.c, and the event queue behind BSP_EQT_thread, which is that *)
(* of module EventQueue.  Each SysTick runs BSP_tick, in a critical        *)
(* section, which turns what it samples into events and posts them.        *)
(* Between two ticks the switches bounce, the knob turns, and the pump     *)
(* hands events to the handler, as many as it finds the time for.  Of what *)
(* the pins do between two ticks only the next samples matter: a tick      *)
(* finds any switches pressed, and the knob turned by any of Turns.        *)
(*                                                                         *)
(* An observer in the place of the handler, who sees the events and        *)
(* nothing else, keeps what they say about the switches and the knob.      *)
(***************************************************************************)
EXTENDS EventQueue, Sequences

CONSTANTS
    Half,                  \* half the positions of the encoder (2^31)
    StartPos,              \* the position at the start (0x8000000)
    J_EVENT_MAX_REPEATS,   \* the largest number in an event (65535)
    Turns                  \* bound: how far the knob turns between two ticks

ASSUME BoardInputAssumption ==
    /\ Half \in Nat \ {0}
    /\ StartPos \in 0 .. 2 * Half - 1
    /\ J_EVENT_MAX_REPEATS \in Nat
    /\ Turns \subseteq -(Half - 1) .. Half - 1

VARIABLES
    depressed, previous, \* the debounced state, and the last sample
    previous_QEI_0_pos,  \* the last position that was sampled
    turned,              \* how far the knob had turned when QEI_tick failed
    posts,               \* the events that are yet to be posted
    observed             \* what the observer of the events knows

queue_vars == vars
input_vars == <<depressed, previous, previous_QEI_0_pos>>
board_vars == <<queue_vars, input_vars, turned, posts, observed>>

Switches  == {"SWITCH_1", "SWITCH_2"}
Positions == 0 .. 2 * Half - 1

\* Unsigned and signed integers that wrap around as the positions do: of 32
\* bits in the code.  A signed difference that overflows wraps around, as the
\* target's instructions do.
Unsigned(x) == x % (2 * Half)
Signed(x)   == LET u == Unsigned(x) IN IF u < Half THEN u ELSE u - 2 * Half

abs(x) == IF x < 0 THEN -x ELSE x
JM_sign(x) == IF x > 0 THEN 1 ELSE IF x < 0 THEN -1 ELSE 0

EventOf(sig, of, repeats) == [sig |-> sig, of |-> of, repeats |-> repeats]
INIT_SIG == EventOf("INIT_SIG", "none", 0)

\* All that can be posted to the queue.
BoardEvent ==
    {INIT_SIG}
        \cup {EventOf(sig, s, 0) : sig \in {"DEPRESSED", "RELEASED"},
                                  s \in Switches}
        \cup {EventOf(sig, "KNOB_1", n) : sig \in {"CLOCKWISE", "ANTI_CLOCKWISE"},
                                         n \in 0 .. J_EVENT_MAX_REPEATS}

ASSUME EventAssumption == Event = BoardEvent

Nothing == [pressed |-> {}, position |-> StartPos]

\* OS_EventQueue_Thread_start posts INIT_SIG before the tick is enabled.  The
\* memory of the queue is that of a static variable.
BoardInit ==
    /\ J_EventQueue_init
    /\ \A p \in Places : buffer[p] = INIT_SIG
    /\ depressed = {} /\ previous = {}
    /\ previous_QEI_0_pos = StartPos   \* QEI_0_init
    /\ turned = 0
    /\ posts = <<INIT_SIG>>
    /\ observed = Nothing

-----------------------------------------------------------------------------
(* BSP_switch_tick: two equal samples in a row change the debounced state. *)

\* (Faulty: a press is never taken back.)
Debounced_sticky(current) ==
    (depressed \cup (previous \cap current)) \cap Switches

Debounced(current) ==
    (depressed \cup (previous \cap current)) \cap (previous \cup current)

\* The events of one switch, if its state changed.
SwitchEvents(s, now) ==
    IF s \in now <=> s \in depressed THEN <<>>
    ELSE <<EventOf(IF s \in now THEN "DEPRESSED" ELSE "RELEASED", s, 0)>>

BSP_switch_tick(current) ==
    SwitchEvents("SWITCH_1", Debounced(current))
        \o SwitchEvents("SWITCH_2", Debounced(current))

-----------------------------------------------------------------------------
(* QEI_tick: the difference of two samples, in one event.                  *)

\* (Faulty: the difference of the unsigned positions.)
delta_pos_unsigned(current) == abs(previous_QEI_0_pos - current)

delta_pos(current) ==
    abs(Signed(Signed(previous_QEI_0_pos) - Signed(current)))

delta_sign(current) == JM_sign(Signed(previous_QEI_0_pos - current))

\* (Faulty: the field holds all the turns.)
Repeats_all(current) == delta_pos(current) % (J_EVENT_MAX_REPEATS + 1)

\* The field holds one turn less than there were.
Repeats(current) == (delta_pos(current) - 1) % (J_EVENT_MAX_REPEATS + 1)

QEI_tick(current) ==
    IF delta_sign(current) = 0 THEN <<>>
    ELSE <<EventOf(IF delta_sign(current) > 0 THEN "CLOCKWISE"
                   ELSE "ANTI_CLOCKWISE", "KNOB_1", Repeats(current))>>

-----------------------------------------------------------------------------
(* What a reader of the events learns from one of them.                    *)

Observe(knows, e) ==
    CASE e.sig = "DEPRESSED" -> [knows EXCEPT !.pressed = @ \cup {e.of}]
      [] e.sig = "RELEASED"  -> [knows EXCEPT !.pressed = @ \ {e.of}]
      [] e.sig = "CLOCKWISE" ->
            [knows EXCEPT !.position = Unsigned(@ - (e.repeats + 1))]
      [] e.sig = "ANTI_CLOCKWISE" ->
            [knows EXCEPT !.position = Unsigned(@ + (e.repeats + 1))]
      [] OTHER -> knows   \* INIT_SIG

\* ... and from a sequence of them.
Learns(knows, events) ==
    LET after[n \in 0 .. Len(events)] ==
            IF n = 0 THEN knows ELSE Observe(after[n - 1], events[n])
    IN  after[Len(events)]

-----------------------------------------------------------------------------
(* The steps.                                                              *)

\* Nothing of the tick's critical section is left to do.
Between == fault = "none" /\ posts = <<>>

\* A tick that samples the pressed switches, and the knob turned by d.
BSP_tick(pressed, d) ==
    LET POS == Unsigned(previous_QEI_0_pos + d)
    IN  /\ Between
        /\ IF delta_pos(POS) <= J_EVENT_MAX_REPEATS
           THEN /\ depressed' = Debounced(pressed)
                /\ previous' = pressed
                /\ previous_QEI_0_pos' = POS
                /\ posts' = BSP_switch_tick(pressed) \o QEI_tick(POS)
                /\ UNCHANGED <<queue_vars, turned>>
           ELSE /\ FailsElsewhere
                /\ turned' = d
                /\ UNCHANGED <<input_vars, posts>>
        /\ UNCHANGED observed

SysTick_Handler ==
    \E pressed \in SUBSET Switches, d \in Turns :
        BSP_tick(pressed, d)

OS_EQT_post ==
    /\ posts # <<>>
    /\ J_EventQueue_put(Head(posts))
    /\ posts' = Tail(posts)
    /\ UNCHANGED <<input_vars, turned, observed>>

\* The thread is ready exactly when its queue holds an event.
OS_EventQueue_pump ==
    /\ Between /\ capacity < size
    /\ J_EventQueue_get
    /\ observed' = Observe(observed, taken')
    /\ UNCHANGED <<input_vars, turned, posts>>

\* An assertion that failed resets the board.
J_on_assert_failed ==
    /\ Reset
    /\ depressed' = {} /\ previous' = {}
    /\ previous_QEI_0_pos' = StartPos
    /\ turned' = 0
    /\ posts' = <<INIT_SIG>>
    /\ observed' = Nothing

BoardNext ==
    \/ SysTick_Handler
    \/ OS_EQT_post
    \/ OS_EventQueue_pump
    \/ J_on_assert_failed

\* The tick comes, its handler runs to its end, and the pump gets to run.
BoardSpec ==
    /\ BoardInit /\ [][BoardNext]_board_vars
    /\ WF_board_vars(SysTick_Handler) /\ WF_board_vars(OS_EQT_post)
    /\ WF_board_vars(OS_EventQueue_pump)

-----------------------------------------------------------------------------

\* The events tell all: with what still waits in the queue, the observer knows
\* the debounced switches and the sampled position, though each event is a
\* change, the counter wraps around, several events come in a tick and more
\* ticks before the handler runs, and an event that is missed or doubled would
\* never be corrected.
EventsTellAll ==
    fault = "none" =>
        Learns(observed, Contents \o posts)
            = [pressed |-> depressed, position |-> previous_QEI_0_pos]

\* The assertion in QEI_tick fails when the knob turned too far for one
\* event, and never because the counter, or its sign, wrapped around.
OnlyFastTurnsFail ==
    fault = "elsewhere" => abs(turned) > J_EVENT_MAX_REPEATS

\* A switch that every sample finds in the same state will be reported so,
\* unless the board fails again and again.
HeldSwitchIsReported ==
    \A s \in Switches :
        /\ <>[](s \in previous /\ fault = "none") => <>[](s \in observed.pressed)
        /\ <>[](s \notin previous /\ fault = "none") => <>[](s \notin observed.pressed)
=============================================================================
