----------------------------- MODULE LedManager -----------------------------
(***************************************************************************)
(* The LED manager, src/features/led_manager.c, with the colours and the   *)
(* PWM signals of src/bsp/bsp_led.c, as main.c uses it.  main() sets the   *)
(* LEDs to red and configures the manager; then the idle thread ticks it   *)
(* step by step, for LED_0 and LED_1, and the board's event handler        *)
(* changes the mode and the lightness of LED_0 in a critical section,      *)
(* between any two steps of the idle thread.                               *)
(*                                                                         *)
(* The steps of the idle thread are the reads of what the handler writes,  *)
(* and the writes to the comparators.  The asserts and the computation up  *)
(* to m read the colour in one step.                                       *)
(***************************************************************************)
EXTENDS HSL

CONSTANTS
    Config,      \* what main configures: see Configured
    MillisBits,  \* the bits of the time in milliseconds (32)
    Step,        \* the milliseconds that pass at once
    MaxMillis,   \* bound: the time stops there
    Turns,       \* how many turns of the knob an event can hold
    MaxEvents    \* bound: how many events there are

Modes == {"ALWAYS_ON", "BLINKING", "HUE_SHIFTING"}

\* LED_0 and LED_1.
LEDs == 0 .. 1

ASSUME LedManagerAssumption ==
    /\ Config.hsl \in [Modes -> ValidColour] /\ Config.led_1 \in ValidColour
    /\ Config.time_on \in Nat /\ Config.time_off \in Nat
    /\ Config.time_on + Config.time_off > 0
    /\ Config.period \in Nat /\ 0 < Config.period /\ Config.period < 2^16
    /\ MillisBits \in 1 .. 32 /\ 2^MillisBits > 0
    /\ Step \in Nat /\ MaxMillis \in Nat
    /\ \A n \in Turns : n \in Nat /\ 0 < n /\ n < 2^16
    /\ MaxEvents \in Nat

VARIABLES
    LM_state,   \* current_mode, hsl, t_start_millis and aux of each LED
    time,       \* the milliseconds since power on
    CMP,        \* the comparators of the PWM module
    at,         \* where main, and then the idle thread is
    idle,       \* the local variables of the idle thread
    failed,     \* an assertion failed
    events,     \* how many events were handled
    knob        \* the lightness that the turns of the knob ask for

vars == <<LM_state, time, CMP, at, idle, failed, events, knob>>

\* The timer counts in 32 bits, and starts over.
BSP_get_time_millis == time % 2^MillisBits

Black == [h |-> 0, s |-> 0, l |-> 0]

\* The local variables of a tick, before they are set and when no longer used.
Unset == [LED_idx |-> 0, now |-> 0, elapsed |-> 0, of |-> "none", chroma |-> 0,
          rgb_1 |-> <<0, 0, 0>>, rgb |-> <<0, 0, 0>>, channel |-> 1]

-----------------------------------------------------------------------------
(* The PWM signals.                                                        *)

\* (Faulty: two LEDs share a comparator.)
LED_PWM_CMP_addresses_shared ==
    [led \in LEDs |-> IF led = 0 THEN <<"_2_CMPB", "_3_CMPB", "_1_CMPA">>
                                 ELSE <<"_1_CMPB", "_0_CMPB", "_1_CMPA">>]

\* The comparators for red, green and blue.
LED_PWM_CMP_addresses ==
    [led \in LEDs |-> IF led = 0 THEN <<"_2_CMPB", "_3_CMPB", "_3_CMPA">>
                                 ELSE <<"_1_CMPB", "_0_CMPB", "_1_CMPA">>]

Comparators ==
    {"_0_CMPB", "_1_CMPA", "_1_CMPB", "_2_CMPB", "_3_CMPA", "_3_CMPB"}

BSP_LED_MAX_LOAD_VALUE == 255

Signal(byte) == (byte * (BSP_LED_MAX_LOAD_VALUE - 1)) \div 256

\* The comparators once rgb is written to those of the LED.
BSP_LED_set_PWM_signal(cmp, led, rgb) ==
    [c \in Comparators |->
        IF \E i \in 1 .. 3 : c = LED_PWM_CMP_addresses[led][i]
        THEN Signal(rgb[CHOOSE i \in 1 .. 3 : c = LED_PWM_CMP_addresses[led][i]])
        ELSE cmp[c]]

\* What LED shows: its three comparators.
Shows(led) == [i \in 1 .. 3 |-> CMP[LED_PWM_CMP_addresses[led][i]]]

\* What it shows when it has the given colour.
SignalsOf(hsl) == [i \in 1 .. 3 |-> Signal(BSP_LED_RGB_from_HSL(hsl)[i])]

-----------------------------------------------------------------------------
(* One tick of the manager.                                                *)

t_elapsed(now, t_start) == (now - t_start) % 2^MillisBits

\* LM_update_blinking_mode: the LED is off at first, and then on.
IsOn(lm, elapsed) ==
    elapsed % (lm.blinking_mode_time_on + lm.blinking_mode_time_off)
        > lm.blinking_mode_time_off

\* LM_update_hue_shifting_mode: the hue runs from 0 to 360 in one period.
new_hue(lm, elapsed) ==
    (((elapsed % lm.hue_shifting_mode_period) * 2^11)
        \div lm.hue_shifting_mode_period) * 2^9 * 360

\* The colours of an LED once the tick has updated the hue.
Updated(lm, elapsed) ==
    IF lm.current_mode = "HUE_SHIFTING"
    THEN [lm EXCEPT !.hsl["HUE_SHIFTING"].h = new_hue(lm, elapsed)]
    ELSE lm

\* The colour that the tick shows.
Colour(lm, elapsed) ==
    IF lm.current_mode = "BLINKING" /\ ~IsOn(lm, elapsed) THEN Black
    ELSE lm.hsl[lm.current_mode]

\* The colour that each LED should have now.
Expected(state) ==
    [led \in LEDs |->
        LET elapsed == t_elapsed(BSP_get_time_millis,
                                 state[led].t_start_millis)
        IN  Colour(Updated(state[led], elapsed), elapsed)]

\* The whole tick, for main and for a caller in a critical section.
LM_tick(state) ==
    \E hsl \in {Expected(state)} :
        /\ LM_state' = [led \in LEDs |->
                          Updated(state[led],
                                  t_elapsed(BSP_get_time_millis,
                                            state[led].t_start_millis))]
        /\ IF \A led \in LEDs : AssertsHold(hsl[led])
           THEN /\ CMP' = BSP_LED_set_PWM_signal(
                            BSP_LED_set_PWM_signal(CMP, 0,
                              BSP_LED_RGB_from_HSL(hsl[0])), 1,
                            BSP_LED_RGB_from_HSL(hsl[1]))
                /\ UNCHANGED failed
           ELSE failed' = TRUE /\ UNCHANGED CMP

-----------------------------------------------------------------------------
(* main.                                                                   *)

LM_MODE_STATE_INIT ==
    [current_mode |-> "ALWAYS_ON", hsl |-> [mode \in Modes |-> Black],
     t_start_millis |-> 0, blinking_mode_time_on |-> 2000,
     blinking_mode_time_off |-> 1000, hue_shifting_mode_period |-> 10000]

LM_config_always_on_mode(lm, hsl) == [lm EXCEPT !.hsl["ALWAYS_ON"] = hsl]

LM_config_blinking_mode(lm, hsl, t_on_millis, t_off_millis) ==
    [lm EXCEPT !.hsl["BLINKING"] = hsl,
               !.blinking_mode_time_on = t_on_millis,
               !.blinking_mode_time_off = t_off_millis]

LM_config_hue_shifting_mode(lm, hsl, period_millis) ==
    [lm EXCEPT !.hsl["HUE_SHIFTING"] = hsl,
               !.hue_shifting_mode_period = period_millis]

Red == [h |-> 0, s |-> SFP_11_20_ONE, l |-> SFP_11_20_ONE \div 2]

\* What main configures for the LEDs.
Configured ==
    [led \in LEDs |->
        IF led = 0
        THEN LM_config_hue_shifting_mode(
                 LM_config_blinking_mode(
                     LM_config_always_on_mode(LM_state[0],
                                              Config.hsl["ALWAYS_ON"]),
                     Config.hsl["BLINKING"], Config.time_on, Config.time_off),
                 Config.hsl["HUE_SHIFTING"], Config.period)
        ELSE LM_config_always_on_mode(LM_state[1], Config.led_1)]

Init ==
    /\ LM_state = [led \in LEDs |-> LM_MODE_STATE_INIT]
    /\ time = 0
    /\ CMP = [c \in Comparators |-> 0]
    /\ at = "main"
    /\ idle = Unset
    /\ failed = FALSE
    /\ events = 0
    /\ knob = Config.hsl["HUE_SHIFTING"].l

\* The loop of main starts at whatever its variable happens to hold: LED_0,
\* LED_1, or anything beyond.
main_red ==
    /\ at = "main"
    /\ \E LED_idx \in 0 .. 2 :
          CMP' = IF LED_idx = 2 THEN CMP
                 ELSE IF LED_idx = 1
                 THEN BSP_LED_set_PWM_signal(CMP, 1, BSP_LED_RGB_from_HSL(Red))
                 ELSE BSP_LED_set_PWM_signal(
                        BSP_LED_set_PWM_signal(CMP, 0,
                          BSP_LED_RGB_from_HSL(Red)), 1,
                        BSP_LED_RGB_from_HSL(Red))
    /\ at' = "LM_init"
    /\ UNCHANGED <<LM_state, time, idle, failed, events, knob>>

\* LM_init and each call of the configuration end with a tick, before
\* interrupts are on: the last one decides what the LEDs show.
LM_init ==
    /\ at = "LM_init"
    /\ LM_tick(Configured)
    /\ at' = "WFI"
    /\ UNCHANGED <<time, idle, events, knob>>

-----------------------------------------------------------------------------
(* The idle thread: OS_onIdle calls LM_tick, then waits for an interrupt.  *)

At(step) == at = step /\ ~failed

\* The LED of the loop in LM_tick, and the colour behind its pointer.
Led     == idle.LED_idx
Pointed == IF idle.of = "none" THEN Black ELSE LM_state[Led].hsl[idle.of]
For     == [Unset EXCEPT !.LED_idx = Led]

\* The interrupt came, and the loop starts.
Idle_time ==
    /\ At("WFI")
    /\ idle' = [idle EXCEPT !.now = BSP_get_time_millis]
    /\ at' = "elapsed"
    /\ UNCHANGED <<LM_state, time, CMP, failed, events, knob>>

Idle_elapsed ==
    /\ At("elapsed")
    /\ idle' = [For EXCEPT !.elapsed =
                    t_elapsed(idle.now, LM_state[Led].t_start_millis)]
    /\ at' = "switch"
    /\ UNCHANGED <<LM_state, time, CMP, failed, events, knob>>

Idle_switch ==
    /\ At("switch")
    /\ \E lm \in {LM_state[Led]} :
          CASE lm.current_mode = "HUE_SHIFTING" ->
                 /\ at' = "hue" /\ idle' = [idle EXCEPT !.of = "HUE_SHIFTING"]
            [] lm.current_mode = "BLINKING" /\ ~IsOn(lm, idle.elapsed) ->
                 at' = "colour" /\ idle' = For
            [] OTHER ->
                 /\ at' = "colour"
                 /\ idle' = [For EXCEPT !.of = lm.current_mode]
    /\ UNCHANGED <<LM_state, time, CMP, failed, events, knob>>

\* (Faulty: the whole colour is written back, as it was configured.)
Idle_hue_all ==
    /\ At("hue")
    /\ LM_state' = [LM_state EXCEPT ![Led].hsl["HUE_SHIFTING"] =
                        [Config.hsl["HUE_SHIFTING"] EXCEPT
                            !.h = new_hue(LM_state[Led], idle.elapsed)]]
    /\ at' = "colour"
    /\ UNCHANGED <<time, CMP, idle, failed, events, knob>>

\* The hue alone is written: saturation and lightness stay the handler's.
Idle_hue ==
    /\ At("hue")
    /\ LM_state' = [LM_state EXCEPT ![Led].hsl["HUE_SHIFTING"].h =
                        new_hue(LM_state[Led], idle.elapsed)]
    /\ at' = "colour"
    /\ idle' = [For EXCEPT !.of = "HUE_SHIFTING"]
    /\ UNCHANGED <<time, CMP, failed, events, knob>>

\* The asserts, chroma, X, and red, green and blue before m is added ...
Idle_colour ==
    /\ At("colour")
    /\ IF AssertsHold(Pointed)
       THEN /\ idle' = [idle EXCEPT !.chroma = chroma(Pointed),
                                    !.rgb_1 = RGB_1(Pointed)]
            /\ at' = "m" /\ UNCHANGED failed
       ELSE failed' = TRUE /\ UNCHANGED <<idle, at>>
    /\ UNCHANGED <<LM_state, time, CMP, events, knob>>

\* ... which reads the lightness again.
ScaledColour == Scaled(idle.rgb_1, m(Pointed, idle.chroma))

Idle_m ==
    /\ At("m")
    /\ idle' = [For EXCEPT !.rgb = Bytes(ScaledColour)]
    /\ at' = "signal"
    /\ UNCHANGED <<LM_state, time, CMP, failed, events, knob>>

\* After the last comparator comes the next LED, or the end of the loop.
NextChannel ==
    IF idle.channel < 3
    THEN idle' = [idle EXCEPT !.channel = @ + 1] /\ UNCHANGED at
    ELSE IF Led = 0
    THEN /\ idle' = [Unset EXCEPT !.LED_idx = 1, !.now = BSP_get_time_millis]
         /\ at' = "elapsed"
    ELSE idle' = Unset /\ at' = "WFI"

\* (Faulty: the comparators are not written.)
Idle_signal_not_shown ==
    /\ At("signal")
    /\ NextChannel
    /\ UNCHANGED <<LM_state, time, CMP, failed, events, knob>>

\* The comparators are written one by one.
Idle_signal ==
    /\ At("signal")
    /\ CMP' = [CMP EXCEPT ![LED_PWM_CMP_addresses[Led][idle.channel]] =
                   Signal(idle.rgb[idle.channel])]
    /\ NextChannel
    /\ UNCHANGED <<LM_state, time, failed, events, knob>>

-----------------------------------------------------------------------------
(* The event handler, and the time.                                        *)

Booted == at \notin {"main", "LM_init"}

MayHandle ==
    Booted /\ ~failed /\ events < MaxEvents /\ events' = events + 1

\* A button: LM_set_active_mode, with a reset of the time.
LM_set_active_mode(mode) ==
    /\ MayHandle
    /\ LM_tick([LM_state EXCEPT ![0].current_mode = mode,
                                ![0].t_start_millis = BSP_get_time_millis])
    /\ UNCHANGED <<time, at, idle, knob>>

Clamped(l) ==
    IF l > SFP_11_20_ONE THEN SFP_11_20_ONE ELSE IF l < 0 THEN 0 ELSE l

\* (Faulty: a lightness above one is kept.)
Brightened_beyond_one(l, n) == LET new == l + n * (SFP_11_20_ONE \div 100)
                               IN  IF new < 0 THEN 0 ELSE new

Brightened(l, n) == Clamped(l + n * (SFP_11_20_ONE \div 100))

LM_get_HSL(mode) == LM_state[0].hsl[mode]
LM_set_HSL(mode, hsl) == LM_tick([LM_state EXCEPT ![0].hsl[mode] = hsl])

\* The knob: a copy of the colour is given a new lightness.
Knob(n) ==
    /\ MayHandle
    /\ \E hsl \in {LM_get_HSL("HUE_SHIFTING")} :
          LM_set_HSL("HUE_SHIFTING", [hsl EXCEPT !.l = Brightened(@, n)])
    /\ knob' = Clamped(knob + n * (SFP_11_20_ONE \div 100))
    /\ UNCHANGED <<time, at, idle>>

bsp_event_handler ==
    \/ \E mode \in Modes : LM_set_active_mode(mode)
    \/ \E n \in Turns : Knob(n) \/ Knob(-n)

Pass ==
    /\ ~failed
    /\ time + Step <= MaxMillis
    /\ time' = time + Step
    /\ UNCHANGED <<LM_state, CMP, at, idle, failed, events, knob>>

OS_onIdle ==
    \/ Idle_time \/ Idle_elapsed \/ Idle_switch \/ Idle_hue
    \/ Idle_colour \/ Idle_m \/ Idle_signal

Next == main_red \/ LM_init \/ OS_onIdle \/ bsp_event_handler \/ Pass

\* main runs on its own, and each SysTick wakes the idle thread from its WFI.
Spec == Init /\ [][Next]_vars /\ WF_vars(main_red \/ LM_init \/ OS_onIdle)

-----------------------------------------------------------------------------

\* Every colour that the manager shows passes the assertions of the
\* conversion, also when the handler changes it while the idle thread is in
\* the middle of a tick, turns the clock back, or the time starts over.
AssertionsHold == ~failed

\* No turn of the knob is lost: the idle thread, which writes the hue of the
\* same colour, never undoes what the handler did to its lightness.
LightnessFollowsKnob ==
    Booted => LM_state[0].hsl["HUE_SHIFTING"].l = knob

\* Whatever is done to LED_0, and however the two writers of the comparators
\* interleave, LED_1 shows its own colour: the LEDs share no comparator, and
\* no tick writes a colour of one to the other.
LEDsAreIndependent == Booted => Shows(1) = SignalsOf(Config.led_1)

\* Once the events have stopped and the time stands still, the LEDs show the
\* colours of their active modes, and keep them: what a preempted tick got
\* wrong is made good by a later one.
ActiveModeIsShown ==
    <>[](\A led \in LEDs : Shows(led) = SignalsOf(Expected(LM_state)[led]))

\* Red, green and blue are in the range from 0 to 255 before they are stored
\* in a byte each, as the comment on the last step of the conversion says.
FinalResultInRange == at = "m" => \A i \in 1 .. 3 : ScaledColour[i] \in 0 .. 255
=============================================================================
