-------------------------- MODULE LedManagerProofs --------------------------
(***************************************************************************)
(* The LED manager, for every configuration of colours, periods and        *)
(* times: whatever the handler does in the middle of a tick, no colour     *)
(* that is converted fails an assertion, and no turn of the knob is lost.  *)
(* And what it computes with: every colour is converted to the right one,  *)
(* and every product of the format SFP_10_5 is near the exact one.         *)
(***************************************************************************)
EXTENDS LedManager, Calculations, ArithmeticProofs

Period == {n \in Nat : 0 < n /\ n =< 65535}

\* What the manager keeps for one LED.
State ==
    [current_mode : Modes, hsl : [Modes -> ValidColour],
     t_start_millis : Nat, blinking_mode_time_on : Nat,
     blinking_mode_time_off : Nat, hue_shifting_mode_period : Period]

Good(lm) ==
    lm \in State /\ lm.blinking_mode_time_on + lm.blinking_mode_time_off > 0

\* The time wraps around at a positive number.
LEMMA Millis == 2^MillisBits \in Nat \ {0}
<1>1. \A n \in Nat : 2^n \in Int
  BY SMT
<1>2. MillisBits \in Nat
  BY LedManagerAssumption, SMT
<1>3. 2^MillisBits \in Int /\ 2^MillisBits > 0
  BY <1>1, <1>2, LedManagerAssumption
<1> QED
  BY <1>3

\* The elapsed time is not negative, over a wrap-around too.
LEMMA Elapsed ==
    ASSUME NEW now \in Nat, NEW t_start \in Nat
    PROVE  t_elapsed(now, t_start) \in Nat
<1>1. now - t_start \in Int
  OBVIOUS
<1> DEFINE n == 2^MillisBits
<1>2. n \in Nat \ {0}
  BY Millis
<1> HIDE DEF n
<1>3. \A x \in Int : x % n \in Nat
  BY <1>2, SMT
<1> QED
  BY <1>1, <1>3 DEF t_elapsed, n

\* The time is not negative.
LEMMA TimeIsNat == time \in Nat => BSP_get_time_millis \in Nat
<1> DEFINE n == 2^MillisBits
<1>1. n \in Nat \ {0}
  BY Millis
<1> HIDE DEF n
<1>2. \A x \in Nat : x % n \in Nat
  BY <1>1, SMT
<1> QED
  BY <1>2 DEF BSP_get_time_millis, n

\* Black can be converted.
LEMMA BlackIsValid == Black \in ValidColour
  BY One, SMT DEF Black, ValidColour, HueRange, Unit

\* The hue is below 360 at every moment of every period.
LEMMA HueShifts ==
    ASSUME NEW lm, Good(lm), NEW elapsed \in Nat
    PROVE  new_hue(lm, elapsed) \in HueRange
<1> DEFINE p == lm.hue_shifting_mode_period  r == elapsed % p
           q == (r * 2048) \div p
<1>1. p \in Nat /\ p > 0
  BY SMT DEF Good, State, Period
<1>2. 2^11 = 2048 /\ 2^9 = 512
  BY SMT
<1>3. new_hue(lm, elapsed) = q * 512 * 360
  BY <1>2 DEF new_hue
<1> HIDE DEF p
<1>4. r \in Nat /\ r < p
  BY <1>1, SMT
<1> HIDE DEF r
<1>5. q \in Nat /\ q < 2048
  BY <1>1, <1>4, SMT
<1> HIDE DEF q
<1> QED
  BY <1>3, <1>5, One, SMT DEF HueRange

-----------------------------------------------------------------------------
(* A tick, on states that are good.                                        *)

\* A tick of the hue-shifting mode keeps the state good, and its lightness.
LEMMA UpdatedIsGood ==
    ASSUME NEW lm, Good(lm), NEW elapsed \in Nat
    PROVE  /\ Good(Updated(lm, elapsed))
           /\ Updated(lm, elapsed).hsl["HUE_SHIFTING"].l = lm.hsl["HUE_SHIFTING"].l
           /\ Updated(lm, elapsed).hsl["ALWAYS_ON"] = lm.hsl["ALWAYS_ON"]
           /\ Updated(lm, elapsed).current_mode = lm.current_mode
<1> DEFINE hue == new_hue(lm, elapsed)
<1>1. hue \in HueRange
  BY HueShifts
<1> HIDE DEF hue
<1>2. CASE lm.current_mode = "HUE_SHIFTING"
  <2>1. Updated(lm, elapsed) = [lm EXCEPT !.hsl["HUE_SHIFTING"].h = hue]
    BY <1>2 DEF Updated, hue
  <2> DEFINE c == lm.hsl["HUE_SHIFTING"]  d == [c EXCEPT !.h = hue]
             f == [lm.hsl EXCEPT !["HUE_SHIFTING"] = d]
  <2>2. lm.hsl \in [Modes -> ValidColour] /\ c \in ValidColour /\ "HUE_SHIFTING" \in Modes
    BY DEF Good, State, Modes
  <2>3. d \in ValidColour /\ d.l = c.l
    BY <2>2, <1>1 DEF ValidColour
  <2>4. f \in [Modes -> ValidColour] /\ f["HUE_SHIFTING"] = d
          /\ f["ALWAYS_ON"] = lm.hsl["ALWAYS_ON"]
    <3> HIDE DEF d
    <3> QED
      BY <2>2, <2>3 DEF Modes
  <2>5. Updated(lm, elapsed) = [lm EXCEPT !.hsl = f]
    BY <2>1
  <2> HIDE DEF d, f
  <2>6. Updated(lm, elapsed).hsl = f
    BY <2>5 DEF Good, State
  <2>7. Good(Updated(lm, elapsed))
          /\ Updated(lm, elapsed).current_mode = lm.current_mode
    BY <2>4, <2>5 DEF Good, State
  <2> QED
    BY <2>3, <2>4, <2>6, <2>7
<1>3. CASE lm.current_mode # "HUE_SHIFTING"
  BY <1>3 DEF Updated
<1> QED
  BY <1>2, <1>3

\* The colour that LM_tick shows in a good state can be converted.
LEMMA ColourIsValid ==
    ASSUME NEW lm, Good(lm), NEW elapsed \in Nat
    PROVE  Colour(lm, elapsed) \in ValidColour
  BY BlackIsValid DEF Colour, Good, State

\* All LEDs are good, and the lightness of LED_0's hue-shifting colour and
\* the colour of LED_1 are as given.
AllGood(state) == state \in [LEDs -> State] /\ \A led \in LEDs : Good(state[led])

SameChoices(state, new) ==
    /\ new[0].hsl["HUE_SHIFTING"].l = state[0].hsl["HUE_SHIFTING"].l
    /\ new[1].hsl["ALWAYS_ON"] = state[1].hsl["ALWAYS_ON"]
    /\ new[1].current_mode = state[1].current_mode

\* A tick keeps all LEDs good, and fails no assertion.
LEMMA TickIsGood ==
    ASSUME NEW state, AllGood(state), time \in Nat, failed = FALSE, LM_tick(state)
    PROVE  AllGood(LM_state') /\ failed' = FALSE /\ SameChoices(state, LM_state')
<1> DEFINE elapsed(led) == t_elapsed(BSP_get_time_millis, state[led].t_start_millis)
<1>1. ASSUME NEW led \in LEDs
      PROVE  elapsed(led) \in Nat /\ Good(state[led])
  <2>1. state[led].t_start_millis \in Nat /\ Good(state[led])
    BY DEF AllGood, Good, State
  <2> QED
    BY <2>1, TimeIsNat, Elapsed
<1> HIDE DEF elapsed
<1>2. LM_state' = [led \in LEDs |-> Updated(state[led], elapsed(led))]
  BY DEF LM_tick, elapsed
<1>3. \A led \in LEDs : AssertsHold(Expected(state)[led])
  <2> TAKE led \in LEDs
  <2>1. Expected(state)[led] = Colour(Updated(state[led], elapsed(led)), elapsed(led))
    BY DEF Expected, elapsed
  <2>2. Good(Updated(state[led], elapsed(led)))
    BY <1>1, UpdatedIsGood
  <2> QED
    BY <1>1, <2>1, <2>2, ColourIsValid, AssertionsPass
<1>4. failed' = FALSE
  BY <1>3 DEF LM_tick
<1>5. \A led \in LEDs : LM_state'[led] = Updated(state[led], elapsed(led))
  BY <1>2
<1>6. AllGood(LM_state')
  <2>1. \A led \in LEDs : Good(LM_state'[led])
    BY <1>1, <1>5, UpdatedIsGood
  <2>2. LM_state' \in [LEDs -> State]
    BY <1>2, <1>1, UpdatedIsGood DEF Good
  <2> QED
    BY <2>1, <2>2 DEF AllGood
<1>7. SameChoices(state, LM_state')
  <2>1. 0 \in LEDs /\ 1 \in LEDs
    BY DEF LEDs
  <2>2. LM_state'[0].hsl["HUE_SHIFTING"].l = state[0].hsl["HUE_SHIFTING"].l
    BY <1>1, <1>5, <2>1, UpdatedIsGood
  <2>3. /\ LM_state'[1].hsl["ALWAYS_ON"] = state[1].hsl["ALWAYS_ON"]
        /\ LM_state'[1].current_mode = state[1].current_mode
    <3>1. /\ elapsed(1) \in Nat /\ Good(state[1])
          /\ LM_state'[1] = Updated(state[1], elapsed(1))
      BY <1>1, <1>5, <2>1
    <3>2. /\ Updated(state[1], elapsed(1)).hsl["ALWAYS_ON"] = state[1].hsl["ALWAYS_ON"]
          /\ Updated(state[1], elapsed(1)).current_mode = state[1].current_mode
      BY <3>1, UpdatedIsGood
    <3> QED
      BY <3>1, <3>2
  <2> QED
    BY <2>2, <2>3 DEF SameChoices
<1> QED
  BY <1>4, <1>6, <1>7

-----------------------------------------------------------------------------
(* The inductive invariant.                                                *)

Triple == [1 .. 3 -> Nat]

\* The local variables of the idle thread.
Local ==
    [LED_idx : LEDs, now : Nat, elapsed : Nat, of : Modes \cup {"none"},
     chroma : Nat, rgb_1 : Triple, rgb : Triple, channel : 1 .. 3]

\* Before the configuration, the states are the initial ones.
BeforeConfig ==
    ~Booted => /\ LM_state = [led \in LEDs |-> LM_MODE_STATE_INIT]
               /\ knob = Config.hsl["HUE_SHIFTING"].l
               /\ idle = Unset

\* The handler leaves LED_1 alone, ...
LED_1_kept ==
    Booted => /\ LM_state[1].current_mode = "ALWAYS_ON"
              /\ LM_state[1].hsl["ALWAYS_ON"] = Config.led_1

\* ... so that a tick, at LED_1, is on its way to the configured colour.
LED_1_ticked ==
    Booted /\ Led = 1 =>
        /\ at # "hue"
        /\ at = "colour" => idle.of = "ALWAYS_ON"
        /\ at = "m" => /\ idle.of = "ALWAYS_ON"
                       /\ idle.chroma = chroma(Config.led_1)
                       /\ idle.rgb_1 = RGB_1(Config.led_1)
        /\ at = "signal" => idle.rgb = BSP_LED_RGB_from_HSL(Config.led_1)

Typed ==
    /\ AllGood(LM_state)
    /\ time \in Nat
    /\ failed = FALSE
    /\ idle \in Local
    /\ knob \in Int

Inv ==
    /\ Typed
    /\ BeforeConfig
    /\ LightnessFollowsKnob
    /\ LED_1_kept
    /\ LED_1_ticked
    /\ CMP \in [Comparators -> Nat]
    /\ LEDsAreIndependent

-----------------------------------------------------------------------------
(* The comparators, and what is written to them.                           *)

\* A PWM signal is a number.
LEMMA SignalIsNat == \A b \in Nat : Signal(b) \in Nat
  BY SMT DEF Signal, BSP_LED_MAX_LOAD_VALUE

\* Three numbers give three bytes.
LEMMA BytesAreTriple ==
    ASSUME NEW scaled, \A i \in 1 .. 3 : scaled[i] \in Int
    PROVE  Bytes(scaled) \in Triple
<1>1. \A x \in Int : x % 256 \in Nat
  BY SMT
<1> QED
  BY <1>1 DEF Bytes, Triple

\* A colour that can be converted gives three bytes.
LEMMA RGBIsTriple ==
    ASSUME NEW c \in ValidColour
    PROVE  BSP_LED_RGB_from_HSL(c) \in Triple
<1> DEFINE scaled == Scaled(RGB_1(c), m(c, chroma(c)))
<1>1. \A i \in 1 .. 3 : scaled[i] \in Int
  BY ResultsInRange
<1> HIDE DEF scaled
<1>2. Bytes(scaled) \in Triple
  BY <1>1, BytesAreTriple
<1> QED
  BY <1>2 DEF BSP_LED_RGB_from_HSL, scaled

\* The comparators of an LED are different ones, and the LEDs share none.
LEMMA ComparatorsDiffer ==
    ASSUME NEW i \in 1 .. 3, NEW led \in LEDs, NEW k \in 1 .. 3, NEW other \in LEDs
    PROVE  /\ LED_PWM_CMP_addresses[led][i] \in Comparators
           /\ LED_PWM_CMP_addresses[led][i] = LED_PWM_CMP_addresses[other][k]
                => led = other /\ i = k
<1>1. (i = 1 \/ i = 2 \/ i = 3) /\ (k = 1 \/ k = 2 \/ k = 3)
  BY SMT
<1>2. (led = 0 \/ led = 1) /\ (other = 0 \/ other = 1)
  BY SMT DEF LEDs
<1>3. /\ LED_PWM_CMP_addresses[0] = <<"_2_CMPB", "_3_CMPB", "_3_CMPA">>
      /\ LED_PWM_CMP_addresses[1] = <<"_1_CMPB", "_0_CMPB", "_1_CMPA">>
  BY DEF LED_PWM_CMP_addresses, LEDs
<1> QED
  BY <1>1, <1>2, <1>3, SMT DEF Comparators

\* Setting the signals of one LED sets its comparators.
LEMMA SetSignal ==
    ASSUME NEW cmp \in [Comparators -> Nat], NEW led \in LEDs, NEW rgb \in Triple
    PROVE  LET new == BSP_LED_set_PWM_signal(cmp, led, rgb)
           IN  /\ new \in [Comparators -> Nat]
               /\ \A i \in 1 .. 3 :
                     new[LED_PWM_CMP_addresses[led][i]] = Signal(rgb[i])
<1> DEFINE new == BSP_LED_set_PWM_signal(cmp, led, rgb)
           A == LED_PWM_CMP_addresses[led]
           P(c) == CHOOSE i \in 1 .. 3 : c = A[i]
<1>1. new = [c \in Comparators |-> IF \E i \in 1 .. 3 : c = A[i]
                                   THEN Signal(rgb[P(c)]) ELSE cmp[c]]
  BY DEF BSP_LED_set_PWM_signal
<1>2. \A i \in 1 .. 3 : rgb[i] \in Nat
  BY DEF Triple
<1>3. ASSUME NEW i \in 1 .. 3
      PROVE  P(A[i]) = i /\ A[i] \in Comparators
  <2>1. P(A[i]) \in 1 .. 3 /\ A[i] = A[P(A[i])]
    <3> HIDE DEF A
    <3> QED
      OBVIOUS
  <2> HIDE DEF P
  <2> QED
    BY <2>1, ComparatorsDiffer
<1> HIDE DEF P, A, new
<1>4. \A i \in 1 .. 3 : new[A[i]] = Signal(rgb[i])
  BY <1>1, <1>3
<1>5. ASSUME NEW c \in Comparators
      PROVE  new[c] \in Nat
  <2>1. CASE \E i \in 1 .. 3 : c = A[i]
    BY <1>2, <1>4, <2>1, SignalIsNat
  <2>2. CASE ~ \E i \in 1 .. 3 : c = A[i]
    BY <1>1, <2>2
  <2> QED
    BY <2>1, <2>2
<1>6. new \in [Comparators -> Nat]
  BY <1>1, <1>5
<1> QED
  BY <1>4, <1>6 DEF A, new

-----------------------------------------------------------------------------
(* What a whole tick writes.                                               *)

\* A tick shows both LEDs; LED_1 in its configured colour.
LEMMA TickShows ==
    ASSUME NEW state, AllGood(state), time \in Nat, failed = FALSE,
           CMP \in [Comparators -> Nat], LM_tick(state),
           state[1].current_mode = "ALWAYS_ON",
           state[1].hsl["ALWAYS_ON"] = Config.led_1
    PROVE  /\ CMP' \in [Comparators -> Nat]
           /\ Shows(1)' = SignalsOf(Config.led_1)
<1> DEFINE elapsed(led) == t_elapsed(BSP_get_time_millis, state[led].t_start_millis)
           hsl(led) == Expected(state)[led]
           cmp0 == BSP_LED_set_PWM_signal(CMP, 0, BSP_LED_RGB_from_HSL(hsl(0)))
<1>1. ASSUME NEW led \in LEDs
      PROVE  hsl(led) \in ValidColour
                /\ hsl(led) = Colour(Updated(state[led], elapsed(led)), elapsed(led))
  <2>1. state[led].t_start_millis \in Nat /\ Good(state[led])
    BY DEF AllGood, Good, State
  <2>2. elapsed(led) \in Nat
    BY <2>1, TimeIsNat, Elapsed
  <2>3. hsl(led) = Colour(Updated(state[led], elapsed(led)), elapsed(led))
    BY DEF Expected
  <2> HIDE DEF elapsed, hsl
  <2>4. Good(Updated(state[led], elapsed(led)))
    BY <2>1, <2>2, UpdatedIsGood
  <2> QED
    BY <2>2, <2>3, <2>4, ColourIsValid
<1>2. 0 \in LEDs /\ 1 \in LEDs
  BY DEF LEDs
<1>3. hsl(1) = Config.led_1
  BY <1>1, <1>2 DEF Colour, Updated
<1>4. CMP' = BSP_LED_set_PWM_signal(cmp0, 1, BSP_LED_RGB_from_HSL(hsl(1)))
  <2>1. \A led \in LEDs : AssertsHold(Expected(state)[led])
    BY <1>1, AssertionsPass
  <2> QED
    BY <2>1 DEF LM_tick
<1> HIDE DEF hsl, elapsed
<1>5. /\ BSP_LED_RGB_from_HSL(hsl(0)) \in Triple
      /\ BSP_LED_RGB_from_HSL(hsl(1)) \in Triple
  BY <1>1, <1>2, RGBIsTriple
<1>6. cmp0 \in [Comparators -> Nat]
  BY <1>2, <1>5, SetSignal
<1> HIDE DEF cmp0
<1>7. /\ CMP' \in [Comparators -> Nat]
      /\ \A i \in 1 .. 3 : CMP'[LED_PWM_CMP_addresses[1][i]]
                              = Signal(BSP_LED_RGB_from_HSL(hsl(1))[i])
  BY <1>2, <1>4, <1>5, <1>6, SetSignal
<1> QED
  BY <1>3, <1>7 DEF Shows, SignalsOf

\* A tick by the handler, after it changed LED_0.
LEMMA HandlerTicks ==
    ASSUME Inv, Booted, NEW state, LM_tick(state), AllGood(state),
           state[1] = LM_state[1], UNCHANGED <<time, at, idle>>,
           knob' \in Int, knob' = state[0].hsl["HUE_SHIFTING"].l
    PROVE  Inv'
<1>1. /\ AllGood(LM_state') /\ failed' = FALSE /\ SameChoices(state, LM_state')
  BY TickIsGood DEF Inv, Typed
<1>2. /\ state[1].current_mode = "ALWAYS_ON"
      /\ state[1].hsl["ALWAYS_ON"] = Config.led_1
  BY DEF Inv, LED_1_kept
<1>3. CMP' \in [Comparators -> Nat] /\ Shows(1)' = SignalsOf(Config.led_1)
  BY <1>2, TickShows DEF Inv, Typed
<1>4. Booted'
  BY DEF Booted
<1>5. Typed'
  BY <1>1 DEF Inv, Typed
<1>6. BeforeConfig' /\ LightnessFollowsKnob' /\ LED_1_kept'
  BY <1>1, <1>2, <1>4 DEF BeforeConfig, LightnessFollowsKnob, LED_1_kept, SameChoices
<1>7. LED_1_ticked'
  BY DEF Inv, LED_1_ticked, Booted, Led
<1>8. LEDsAreIndependent'
  BY <1>3 DEF LEDsAreIndependent
<1> QED
  BY <1>3, <1>5, <1>6, <1>7, <1>8 DEF Inv

\* LM_set_active_mode, from the event handler.
LEMMA SetsMode ==
    ASSUME Inv, NEW mode \in Modes, LM_set_active_mode(mode)
    PROVE  Inv'
<1> DEFINE t == BSP_get_time_millis
           lm == [LM_state[0] EXCEPT !.current_mode = mode, !.t_start_millis = t]
           state == [LM_state EXCEPT ![0].current_mode = mode,
                                     ![0].t_start_millis = t]
<1>1. t \in Nat
  BY TimeIsNat DEF Inv, Typed
<1> HIDE DEF t
<1>2. 0 \in LEDs /\ 1 \in LEDs /\ LM_state \in [LEDs -> State] /\ Good(LM_state[0])
  BY DEF LEDs, Inv, Typed, AllGood
<1>3. lm \in State /\ lm.hsl = LM_state[0].hsl
        /\ lm.blinking_mode_time_on = LM_state[0].blinking_mode_time_on
        /\ lm.blinking_mode_time_off = LM_state[0].blinking_mode_time_off
  BY <1>1, <1>2 DEF State
<1>4. state = [LM_state EXCEPT ![0] = lm]
  BY <1>2
<1>5. Good(lm)
  BY <1>2, <1>3 DEF Good
<1> HIDE DEF lm
<1>6. AllGood(state) /\ state[0] = lm /\ state[1] = LM_state[1]
  BY <1>2, <1>4, <1>5 DEF AllGood, Inv, Typed, Good
<1>7. LM_tick(state) /\ Booted /\ UNCHANGED <<time, at, idle, knob>>
  BY DEF LM_set_active_mode, MayHandle, t
<1>8. knob' \in Int /\ knob' = state[0].hsl["HUE_SHIFTING"].l
  BY <1>3, <1>6, <1>7 DEF Inv, Typed, LightnessFollowsKnob
<1> HIDE DEF state
<1> QED
  BY <1>6, <1>7, <1>8, HandlerTicks

\* The lightness stays between 0 and 1, however far the knob turns.
LEMMA Brightens ==
    ASSUME NEW l \in Unit, NEW n \in Int
    PROVE  Brightened(l, n) \in Unit
<1> DEFINE k == n * (SFP_11_20_ONE \div 100)
<1>1. SFP_11_20_ONE \div 100 \in Int
  BY One, SMT
<1>2. k \in Int
  BY <1>1, SMT
<1> HIDE DEF k
<1>3. l + k \in Int
  BY <1>2 DEF Unit
<1>4. Clamped(l + k) \in Unit
  BY <1>3, One, SMT DEF Clamped, Unit
<1> QED
  BY <1>4 DEF Brightened, k

\* A turn of the knob, from the event handler.
LEMMA TurnsKnob ==
    ASSUME Inv, NEW n \in Int, Knob(n)
    PROVE  Inv'
<1> DEFINE c == LM_get_HSL("HUE_SHIFTING")
           d == [c EXCEPT !.l = Brightened(@, n)]
           f == [LM_state[0].hsl EXCEPT !["HUE_SHIFTING"] = d]
           lm == [LM_state[0] EXCEPT !.hsl = f]
           state == [LM_state EXCEPT ![0].hsl["HUE_SHIFTING"] = d]
<1>1. 0 \in LEDs /\ 1 \in LEDs /\ LM_state \in [LEDs -> State] /\ Good(LM_state[0])
  BY DEF LEDs, Inv, Typed, AllGood
<1>2. /\ c = LM_state[0].hsl["HUE_SHIFTING"] /\ c \in ValidColour
      /\ LM_state[0].hsl \in [Modes -> ValidColour] /\ "HUE_SHIFTING" \in Modes
  BY <1>1 DEF LM_get_HSL, Good, State, Modes
<1>3. d \in ValidColour /\ d.l = Brightened(c.l, n)
  <2> HIDE DEF c
  <2>1. c.l \in Unit
    BY <1>2 DEF ValidColour
  <2>2. Brightened(c.l, n) \in Unit
    BY <2>1, Brightens
  <2> QED
    BY <1>2, <2>2 DEF ValidColour
<1>4. LM_tick(state) /\ Booted /\ UNCHANGED <<time, at, idle>>
        /\ knob' = Clamped(knob + n * (SFP_11_20_ONE \div 100))
  BY DEF Knob, LM_set_HSL, MayHandle
<1> HIDE DEF c, d
<1>5. f \in [Modes -> ValidColour] /\ f["HUE_SHIFTING"] = d
  BY <1>2, <1>3
<1>6. state = [LM_state EXCEPT ![0] = lm]
  BY <1>1
<1> HIDE DEF f
<1>7. lm \in State /\ lm.hsl = f /\ Good(lm)
  BY <1>1, <1>5 DEF State, Good
<1> HIDE DEF lm
<1>8. AllGood(state) /\ state[0] = lm /\ state[1] = LM_state[1]
  BY <1>1, <1>6, <1>7 DEF AllGood, Inv, Typed, Good
<1> HIDE DEF state
<1>9. knob' \in Int /\ knob' = state[0].hsl["HUE_SHIFTING"].l
  <2>1. knob = c.l
    BY <1>2, <1>4 DEF Inv, LightnessFollowsKnob
  <2>2. knob' = d.l
    BY <1>3, <1>4, <2>1 DEF Brightened
  <2>3. d.l \in Int
    BY <1>3 DEF ValidColour, Unit
  <2> QED
    BY <1>5, <1>7, <1>8, <2>2, <2>3
<1> QED
  BY <1>4, <1>8, <1>9, HandlerTicks

-----------------------------------------------------------------------------
(* The boot.                                                               *)

\* Red can be converted.
LEMMA RedIsValid == Red \in ValidColour
  BY One, SMT DEF Red, ValidColour, HueRange, Unit

\* The loop of main() that sets LEDs to red.
LEMMA BootsRed ==
    ASSUME Inv, main_red
    PROVE  Inv'
<1>1. /\ UNCHANGED <<LM_state, time, idle, failed, events, knob>>
      /\ at = "main" /\ at' = "LM_init"
  BY DEF main_red
<1>2. ~Booted /\ ~Booted'
  BY <1>1 DEF Booted
<1>3. CMP' \in [Comparators -> Nat]
  <2>1. 0 \in LEDs /\ 1 \in LEDs /\ CMP \in [Comparators -> Nat]
          /\ BSP_LED_RGB_from_HSL(Red) \in Triple
    BY RedIsValid, RGBIsTriple DEF LEDs, Inv
  <2>2. BSP_LED_set_PWM_signal(CMP, 0, BSP_LED_RGB_from_HSL(Red))
            \in [Comparators -> Nat]
    BY <2>1, SetSignal
  <2>3. /\ BSP_LED_set_PWM_signal(CMP, 1, BSP_LED_RGB_from_HSL(Red))
               \in [Comparators -> Nat]
        /\ BSP_LED_set_PWM_signal(
               BSP_LED_set_PWM_signal(CMP, 0, BSP_LED_RGB_from_HSL(Red)),
               1, BSP_LED_RGB_from_HSL(Red)) \in [Comparators -> Nat]
    BY <2>1, <2>2, SetSignal
  <2> QED
    BY <2>1, <2>3 DEF main_red
<1>4. Typed' /\ BeforeConfig'
  BY <1>1, <1>2 DEF Inv, Typed, BeforeConfig
<1>5. LightnessFollowsKnob' /\ LED_1_kept' /\ LED_1_ticked' /\ LEDsAreIndependent'
  BY <1>2 DEF LightnessFollowsKnob, LED_1_kept, LED_1_ticked, LEDsAreIndependent
<1> QED
  BY <1>3, <1>4, <1>5 DEF Inv

\* The state of an LED before its configuration.
LEMMA InitialStateIsGood == Good(LM_MODE_STATE_INIT)
  BY BlackIsValid, SMT DEF Good, State, LM_MODE_STATE_INIT, Modes, Period

\* The configuration of main() makes the state of each LED good.
LEMMA ConfiguredIsGood ==
    ASSUME LM_state = [led \in LEDs |-> LM_MODE_STATE_INIT]
    PROVE  /\ AllGood(Configured)
           /\ Configured[0].hsl["HUE_SHIFTING"].l = Config.hsl["HUE_SHIFTING"].l
           /\ Configured[1].current_mode = "ALWAYS_ON"
           /\ Configured[1].hsl["ALWAYS_ON"] = Config.led_1
<1> DEFINE init == LM_MODE_STATE_INIT
           one == LM_config_always_on_mode(init, Config.hsl["ALWAYS_ON"])
           two == LM_config_blinking_mode(one, Config.hsl["BLINKING"],
                                          Config.time_on, Config.time_off)
           three == LM_config_hue_shifting_mode(two, Config.hsl["HUE_SHIFTING"],
                                                Config.period)
           led_1 == LM_config_always_on_mode(init, Config.led_1)
<1>1. Config.hsl \in [Modes -> ValidColour] /\ Config.led_1 \in ValidColour
        /\ Config.time_on \in Nat /\ Config.time_off \in Nat
        /\ Config.time_on + Config.time_off > 0
  BY LedManagerAssumption
<1>2. Config.period \in Period
  BY LedManagerAssumption, SMT DEF Period
<1>3. /\ "ALWAYS_ON" \in Modes /\ "BLINKING" \in Modes /\ "HUE_SHIFTING" \in Modes
      /\ Good(init) /\ init.current_mode = "ALWAYS_ON"
  BY InitialStateIsGood DEF Modes, LM_MODE_STATE_INIT
<1> HIDE DEF init
<1>4. Good(one)
  BY <1>1, <1>3 DEF Good, State, LM_config_always_on_mode
<1>5. Good(led_1) /\ led_1.current_mode = "ALWAYS_ON"
        /\ led_1.hsl["ALWAYS_ON"] = Config.led_1
  BY <1>1, <1>3 DEF Good, State, LM_config_always_on_mode
<1> HIDE DEF one, led_1
<1>6. Good(two)
  BY <1>1, <1>3, <1>4 DEF Good, State, LM_config_blinking_mode
<1> HIDE DEF two
<1>7. Good(three) /\ three.hsl["HUE_SHIFTING"] = Config.hsl["HUE_SHIFTING"]
  BY <1>1, <1>2, <1>3, <1>6 DEF Good, State, LM_config_hue_shifting_mode
<1> HIDE DEF three
<1>8. Configured = [led \in LEDs |-> IF led = 0 THEN three ELSE led_1]
  BY DEF Configured, one, two, three, led_1, init, LEDs
<1>9. 0 \in LEDs /\ 1 \in LEDs
  BY DEF LEDs
<1> QED
  BY <1>5, <1>7, <1>8, <1>9 DEF AllGood, Good

\* LM_init, with the configuration that main() has made.
LEMMA Configures ==
    ASSUME Inv, LM_init
    PROVE  Inv'
<1>1. /\ at = "LM_init" /\ at' = "WFI" /\ LM_tick(Configured)
      /\ UNCHANGED <<time, idle, events, knob>>
  BY DEF LM_init
<1>2. ~Booted /\ Booted'
  BY <1>1 DEF Booted
<1>3. /\ LM_state = [led \in LEDs |-> LM_MODE_STATE_INIT]
      /\ knob = Config.hsl["HUE_SHIFTING"].l /\ idle = Unset
  BY <1>2 DEF Inv, BeforeConfig
<1>4. /\ AllGood(Configured)
      /\ Configured[0].hsl["HUE_SHIFTING"].l = Config.hsl["HUE_SHIFTING"].l
      /\ Configured[1].current_mode = "ALWAYS_ON"
      /\ Configured[1].hsl["ALWAYS_ON"] = Config.led_1
  BY <1>3, ConfiguredIsGood
<1>5. /\ AllGood(LM_state') /\ failed' = FALSE
      /\ SameChoices(Configured, LM_state')
  BY <1>1, <1>4, TickIsGood DEF Inv, Typed
<1>6. CMP' \in [Comparators -> Nat] /\ Shows(1)' = SignalsOf(Config.led_1)
  BY <1>1, <1>4, TickShows DEF Inv, Typed
<1>7. Typed' /\ BeforeConfig'
  BY <1>1, <1>2, <1>5 DEF Inv, Typed, BeforeConfig
<1>8. LightnessFollowsKnob' /\ LED_1_kept' /\ LEDsAreIndependent'
  BY <1>1, <1>3, <1>4, <1>5, <1>6
     DEF LightnessFollowsKnob, LED_1_kept, LEDsAreIndependent, SameChoices
<1>9. LED_1_ticked'
  BY <1>1 DEF LED_1_ticked
<1> QED
  BY <1>6, <1>7, <1>8, <1>9 DEF Inv

-----------------------------------------------------------------------------
(* The idle thread.                                                        *)

\* A step that reads: only the local variables change.
LEMMA IdleReads ==
    ASSUME Inv, Booted, Booted', idle' \in Local, LED_1_ticked',
           UNCHANGED <<LM_state, time, CMP, failed, knob>>
    PROVE  Inv'
  BY DEF Inv, Typed, BeforeConfig, LightnessFollowsKnob, LED_1_kept,
         LEDsAreIndependent, Shows

\* The local variables of a tick belong to an LED.
LEMMA LocalsOfLed ==
    ASSUME idle \in Local
    PROVE  /\ Led \in LEDs
           /\ For \in Local /\ For.LED_idx = Led /\ For.of = "none"
           /\ Unset \in Local /\ Unset.LED_idx = 0
<1>1. <<0, 0, 0>> \in Triple
  BY DEF Triple
<1>2. 0 \in LEDs /\ Led \in LEDs
  BY DEF LEDs, Led, Local
<1> QED
  BY <1>1, <1>2, SMT DEF For, Unset, Local, LEDs

\* What the pointer of LM_tick points to can be converted.
LEMMA PointedIsValid == Inv => Pointed \in ValidColour
<1> SUFFICES ASSUME Inv PROVE Pointed \in ValidColour
  OBVIOUS
<1>1. Led \in LEDs /\ idle.of \in Modes \cup {"none"}
  BY LocalsOfLed DEF Inv, Typed, Local
<1>2. LM_state[Led].hsl \in [Modes -> ValidColour]
  BY <1>1 DEF Inv, Typed, AllGood, State
<1> QED
  BY <1>1, <1>2, BlackIsValid DEF Pointed

\* At LED_1 and in its mode, the pointer is to the configured colour.
LEMMA PointedOfLED_1 ==
    ASSUME Inv, Booted, Led = 1, idle.of = "ALWAYS_ON"
    PROVE  Pointed = Config.led_1
  BY DEF Inv, LED_1_kept, Pointed

\* The idle thread reads the time.
LEMMA ReadsTime == Inv /\ Idle_time => Inv'
<1> SUFFICES ASSUME Inv, Idle_time PROVE Inv'
  OBVIOUS
<1>1. /\ at = "WFI" /\ at' = "elapsed"
      /\ idle' = [idle EXCEPT !.now = BSP_get_time_millis]
      /\ UNCHANGED <<LM_state, time, CMP, failed, knob>>
  BY DEF Idle_time, At
<1>2. Booted /\ Booted'
  BY <1>1 DEF Booted
<1>3. idle' \in Local
  BY <1>1, TimeIsNat DEF Inv, Typed, Local
<1>4. LED_1_ticked'
  BY <1>1 DEF LED_1_ticked
<1> QED
  BY <1>1, <1>2, <1>3, <1>4, IdleReads

\* LM_tick computes the elapsed time.
LEMMA ReadsElapsed == Inv /\ Idle_elapsed => Inv'
<1> SUFFICES ASSUME Inv, Idle_elapsed PROVE Inv'
  OBVIOUS
<1> DEFINE e == t_elapsed(idle.now, LM_state[Led].t_start_millis)
<1>1. /\ at = "elapsed" /\ at' = "switch"
      /\ idle' = [For EXCEPT !.elapsed = e]
      /\ UNCHANGED <<LM_state, time, CMP, failed, knob>>
  BY DEF Idle_elapsed, At
<1>2. Booted /\ Booted'
  BY <1>1 DEF Booted
<1>3. idle' \in Local
  <2>1. Led \in LEDs /\ For \in Local /\ idle.now \in Nat
    BY LocalsOfLed DEF Inv, Typed, Local
  <2>2. LM_state[Led].t_start_millis \in Nat
    BY <2>1 DEF Inv, Typed, AllGood, State
  <2>3. e \in Nat
    BY <2>1, <2>2, Elapsed
  <2> HIDE DEF e
  <2> QED
    BY <1>1, <2>1, <2>3 DEF Local
<1>4. LED_1_ticked'
  BY <1>1 DEF LED_1_ticked
<1> QED
  BY <1>1, <1>2, <1>3, <1>4, IdleReads

\* LM_tick reads the active mode.
LEMMA ReadsMode == Inv /\ Idle_switch => Inv'
<1> SUFFICES ASSUME Inv, Idle_switch PROVE Inv'
  OBVIOUS
<1> DEFINE lm == LM_state[Led]
<1>1. at = "switch" /\ UNCHANGED <<LM_state, time, CMP, failed, knob>>
  BY DEF Idle_switch, At
<1>2. Led \in LEDs /\ For \in Local /\ For.LED_idx = Led /\ idle \in Local
        /\ lm.current_mode \in Modes
  BY LocalsOfLed DEF Inv, Typed, AllGood, State
<1>3. Booted
  BY <1>1 DEF Booted
<1>4. Led = 1 => lm.current_mode = "ALWAYS_ON"
  BY <1>3 DEF Inv, LED_1_kept
<1>5. \/ /\ lm.current_mode = "HUE_SHIFTING"
         /\ at' = "hue" /\ idle' = [idle EXCEPT !.of = "HUE_SHIFTING"]
      \/ lm.current_mode = "BLINKING" /\ at' = "colour" /\ idle' = For
      \/ at' = "colour" /\ idle' = [For EXCEPT !.of = lm.current_mode]
  BY DEF Idle_switch
<1> HIDE DEF lm
<1>6. Booted'
  BY <1>5 DEF Booted
<1>7. idle' \in Local /\ Led' = Led
  BY <1>2, <1>5 DEF Local, Led, Modes
<1>8. LED_1_ticked'
  BY <1>2, <1>4, <1>5, <1>7 DEF LED_1_ticked, Local
<1> QED
  BY <1>1, <1>3, <1>6, <1>7, <1>8, IdleReads

\* LM_tick shifts the hue.
LEMMA ShiftsHue == Inv /\ Idle_hue => Inv'
<1> SUFFICES ASSUME Inv, Idle_hue PROVE Inv'
  OBVIOUS
<1> DEFINE hue == new_hue(LM_state[Led], idle.elapsed)
           c == LM_state[Led].hsl["HUE_SHIFTING"]  d == [c EXCEPT !.h = hue]
           f == [LM_state[Led].hsl EXCEPT !["HUE_SHIFTING"] = d]
           lm == [LM_state[Led] EXCEPT !.hsl = f]
<1>1. /\ at = "hue" /\ at' = "colour"
      /\ LM_state' = [LM_state EXCEPT ![Led].hsl["HUE_SHIFTING"].h = hue]
      /\ idle' = [For EXCEPT !.of = "HUE_SHIFTING"]
      /\ UNCHANGED <<time, CMP, failed, knob>>
  BY DEF Idle_hue, At
<1>2. Booted /\ Booted'
  BY <1>1 DEF Booted
<1>3. Led \in LEDs /\ Led # 1 /\ For \in Local /\ For.LED_idx = Led
  BY <1>1, <1>2, LocalsOfLed DEF Inv, Typed, LED_1_ticked
<1>4. LM_state \in [LEDs -> State] /\ Good(LM_state[Led]) /\ idle.elapsed \in Nat
  BY <1>3 DEF Inv, Typed, AllGood, Local
<1>5. hue \in HueRange
  BY <1>4, HueShifts
<1> HIDE DEF hue
<1>6. LM_state[Led].hsl \in [Modes -> ValidColour] /\ "HUE_SHIFTING" \in Modes
        /\ c \in ValidColour
  BY <1>4 DEF Good, State, Modes
<1>7. d \in ValidColour /\ d.l = c.l
  BY <1>5, <1>6 DEF ValidColour
<1>8. LM_state' = [LM_state EXCEPT ![Led] = lm]
  BY <1>1, <1>3, <1>4
<1> HIDE DEF d
<1>9. f \in [Modes -> ValidColour] /\ f["HUE_SHIFTING"] = d
  BY <1>6, <1>7
<1> HIDE DEF f
<1>10. lm \in State /\ lm.hsl = f /\ Good(lm)
  BY <1>4, <1>9 DEF State, Good
<1> HIDE DEF lm
<1>11. LM_state'[Led] = lm /\ \A led \in LEDs \ {Led} : LM_state'[led] = LM_state[led]
  BY <1>3, <1>4, <1>8
<1>12. AllGood(LM_state')
  BY <1>3, <1>4, <1>8, <1>10 DEF AllGood, Inv, Typed
<1>13. idle' \in Local /\ Led' = Led
  BY <1>1, <1>3 DEF Local, Led, Modes
<1>14. Typed' /\ BeforeConfig'
  BY <1>1, <1>2, <1>12, <1>13 DEF Inv, Typed, BeforeConfig
<1>15. LM_state'[0].hsl["HUE_SHIFTING"].l = LM_state[0].hsl["HUE_SHIFTING"].l
  <2>1. Led = 0
    BY <1>3, SMT DEF LEDs
  <2> QED
    BY <1>7, <1>9, <1>10, <1>11, <2>1
<1>16. LM_state'[1] = LM_state[1]
  BY <1>3, <1>11, SMT DEF LEDs
<1>17. LightnessFollowsKnob' /\ LED_1_kept'
  BY <1>1, <1>2, <1>15, <1>16 DEF Inv, LightnessFollowsKnob, LED_1_kept
<1>18. LED_1_ticked'
  BY <1>3, <1>13 DEF LED_1_ticked
<1>19. CMP' \in [Comparators -> Nat] /\ LEDsAreIndependent'
  BY <1>1, <1>2 DEF Inv, LEDsAreIndependent, Shows
<1> QED
  BY <1>14, <1>17, <1>18, <1>19 DEF Inv

\* Three numbers are a triple.
LEMMA TripleOfThree == \A x, y, z \in Nat : <<x, y, z>> \in Triple
  BY DEF Triple

\* The components before the lightness is added are numbers.
LEMMA ComponentsAreTriple ==
    ASSUME NEW c \in ValidColour
    PROVE  RGB_1(c) \in Triple
<1>1. chroma(c) \in Nat /\ X(c) \in Nat /\ 0 \in Nat
  BY Chroma, Intermediate DEF Unit
<1> QED
  BY <1>1, TripleOfThree DEF RGB_1

\* The conversion begins: it reads the colour.
LEMMA Converts == Inv /\ Idle_colour => Inv'
<1> SUFFICES ASSUME Inv, Idle_colour PROVE Inv'
  OBVIOUS
<1> DEFINE c == Pointed  C == chroma(c)  rgb == RGB_1(c)
<1>1. c \in ValidColour /\ AssertsHold(c)
  BY PointedIsValid, AssertionsPass
<1>2. /\ at = "colour" /\ at' = "m"
      /\ idle' = [idle EXCEPT !.chroma = C, !.rgb_1 = rgb]
      /\ UNCHANGED <<LM_state, time, CMP, failed, knob>>
  BY <1>1 DEF Idle_colour, At
<1>3. C \in Nat /\ rgb \in Triple
  BY <1>1, Chroma, ComponentsAreTriple DEF Unit
<1>4. Booted /\ Booted' /\ idle \in Local
  BY <1>2 DEF Booted, Inv, Typed
<1>5. Led = 1 => idle.of = "ALWAYS_ON" /\ c = Config.led_1
  BY <1>2, <1>4, PointedOfLED_1 DEF Inv, LED_1_ticked
<1>6. Led = 1 => idle.of = "ALWAYS_ON" /\ C = chroma(Config.led_1)
                    /\ rgb = RGB_1(Config.led_1)
  BY <1>5
<1> HIDE DEF c, C, rgb
<1>7. idle' \in Local
  BY <1>2, <1>3, <1>4 DEF Local
<1>8. /\ Led' = Led /\ idle'.of = idle.of /\ idle'.chroma = C
      /\ idle'.rgb_1 = rgb
  BY <1>2, <1>4 DEF Local, Led
<1>9. LED_1_ticked'
  BY <1>2, <1>6, <1>8 DEF LED_1_ticked
<1> QED
  BY <1>2, <1>4, <1>7, <1>9, IdleReads

\* The lightness may have changed since: the bytes are bytes all the same.
LEMMA ScalesToBytes ==
    ASSUME NEW rgb \in Triple, NEW C \in Nat, NEW c \in ValidColour
    PROVE  Bytes(Scaled(rgb, m(c, C))) \in Triple
<1> DEFINE lift == m(c, C)
<1>1. lift \in Int
  BY ColourFields, SMT DEF m
<1> HIDE DEF lift
<1>2. \A i \in 1 .. 3 : (rgb[i] + lift) * 255 \in Int
  BY <1>1, SMT DEF Triple
<1>3. \A i \in 1 .. 3 : Scaled(rgb, lift)[i] \in Int
  BY <1>2, Integer DEF Scaled
<1> QED
  BY <1>3, BytesAreTriple DEF lift

\* The conversion adds what it reads of the lightness.
LEMMA AddsM == Inv /\ Idle_m => Inv'
<1> SUFFICES ASSUME Inv, Idle_m PROVE Inv'
  OBVIOUS
<1> DEFINE rgb == Bytes(ScaledColour)
<1>1. /\ at = "m" /\ at' = "signal"
      /\ idle' = [For EXCEPT !.rgb = rgb]
      /\ UNCHANGED <<LM_state, time, CMP, failed, knob>>
  BY DEF Idle_m, At
<1>2. Booted /\ Booted' /\ idle \in Local
  BY <1>1 DEF Booted, Inv, Typed
<1>3. rgb \in Triple
  <2>1. idle.rgb_1 \in Triple /\ idle.chroma \in Nat /\ Pointed \in ValidColour
    BY <1>2, PointedIsValid DEF Local
  <2> QED
    BY <2>1, ScalesToBytes DEF ScaledColour
<1>4. Led = 1 => rgb = BSP_LED_RGB_from_HSL(Config.led_1)
  <2>1. SUFFICES ASSUME Led = 1
                 PROVE  rgb = BSP_LED_RGB_from_HSL(Config.led_1)
    OBVIOUS
  <2>2. /\ idle.of = "ALWAYS_ON" /\ idle.chroma = chroma(Config.led_1)
        /\ idle.rgb_1 = RGB_1(Config.led_1)
    BY <1>1, <1>2, <2>1 DEF Inv, LED_1_ticked
  <2>3. Pointed = Config.led_1
    BY <1>2, <2>1, <2>2, PointedOfLED_1
  <2> QED
    BY <2>2, <2>3 DEF ScaledColour, BSP_LED_RGB_from_HSL
<1> HIDE DEF rgb
<1>5. For \in Local /\ For.LED_idx = Led
  BY <1>2, LocalsOfLed
<1>6. idle' \in Local /\ Led' = Led /\ idle'.rgb = rgb
  BY <1>1, <1>3, <1>5 DEF Local, Led
<1>7. LED_1_ticked'
  BY <1>1, <1>4, <1>6 DEF LED_1_ticked
<1> QED
  BY <1>1, <1>2, <1>6, <1>7, IdleReads

\* The signals are written to the comparators.
LEMMA WritesSignal == Inv /\ Idle_signal => Inv'
<1> SUFFICES ASSUME Inv, Idle_signal PROVE Inv'
  OBVIOUS
<1> DEFINE ch == idle.channel  A(led, i) == LED_PWM_CMP_addresses[led][i]
           s == Signal(idle.rgb[ch])
<1>1. /\ at = "signal" /\ NextChannel
      /\ CMP' = [CMP EXCEPT ![A(Led, ch)] = s]
      /\ UNCHANGED <<LM_state, time, failed, knob>>
  BY DEF Idle_signal, At
<1>2. /\ Booted /\ idle \in Local /\ CMP \in [Comparators -> Nat]
      /\ ch \in 1 .. 3 /\ Led \in LEDs /\ 1 \in LEDs
  BY <1>1, LocalsOfLed DEF Booted, Inv, Typed, Local, LEDs
<1>3. s \in Nat
  BY <1>2, SignalIsNat DEF Local, Triple
<1>4. /\ at' \in {"signal", "elapsed", "WFI"} /\ idle' \in Local
      /\ at' = "signal" => Led' = Led /\ idle'.rgb = idle.rgb
  <2>1. Unset \in Local
    BY <1>2, LocalsOfLed
  <2>2. CASE ch < 3
    <3>1. idle' = [idle EXCEPT !.channel = ch + 1] /\ at' = "signal"
      BY <1>1, <2>2 DEF NextChannel
    <3>2. ch + 1 \in 1 .. 3
      BY <1>2, <2>2, SMT
    <3> HIDE DEF ch
    <3> QED
      BY <1>2, <3>1, <3>2 DEF Local, Led
  <2>3. CASE ~(ch < 3) /\ Led = 0
    <3>1. /\ idle' = [Unset EXCEPT !.LED_idx = 1, !.now = BSP_get_time_millis]
          /\ at' = "elapsed"
      BY <1>1, <2>3 DEF NextChannel
    <3>2. BSP_get_time_millis \in Nat
      BY TimeIsNat DEF Inv, Typed
    <3> QED
      BY <1>2, <2>1, <3>1, <3>2 DEF Local
  <2>4. CASE ~(ch < 3) /\ Led # 0
    BY <1>1, <2>1, <2>4 DEF NextChannel
  <2> QED
    BY <2>2, <2>3, <2>4
<1>5. Booted'
  BY <1>4 DEF Booted
<1>6. LED_1_ticked'
  BY <1>1, <1>2, <1>4 DEF Inv, LED_1_ticked
<1>7. Typed' /\ BeforeConfig' /\ LightnessFollowsKnob' /\ LED_1_kept'
  BY <1>1, <1>2, <1>4, <1>5
     DEF Inv, Typed, BeforeConfig, LightnessFollowsKnob, LED_1_kept
<1>8. CMP' \in [Comparators -> Nat]
  BY <1>1, <1>2, <1>3
<1>9. LEDsAreIndependent'
  <2>1. \A i \in 1 .. 3 : CMP[A(1, i)] = Signal(BSP_LED_RGB_from_HSL(Config.led_1)[i])
    BY <1>2 DEF Inv, LEDsAreIndependent, Shows, SignalsOf
  <2>2. Led = 1 => s = Signal(BSP_LED_RGB_from_HSL(Config.led_1)[ch])
    BY <1>1, <1>2 DEF Inv, LED_1_ticked
  <2>3. \A i \in 1 .. 3 : A(1, i) \in Comparators
                            /\ (A(1, i) = A(Led, ch) => Led = 1 /\ i = ch)
    BY <1>2, ComparatorsDiffer
  <2> HIDE DEF A, s
  <2>4. \A i \in 1 .. 3 : CMP'[A(1, i)] = Signal(BSP_LED_RGB_from_HSL(Config.led_1)[i])
    BY <1>1, <1>2, <2>1, <2>2, <2>3
  <2> QED
    BY <2>4 DEF LEDsAreIndependent, Shows, SignalsOf, A
<1> QED
  BY <1>6, <1>7, <1>8, <1>9 DEF Inv

-----------------------------------------------------------------------------
(* The theorems.                                                           *)

\* The invariant holds at first.
LEMMA Starts == Init => Inv
<1> SUFFICES ASSUME Init PROVE Inv
  OBVIOUS
<1>1. ~Booted
  BY DEF Init, Booted
<1>2. AllGood(LM_state)
  BY InitialStateIsGood DEF Init, AllGood, Good
<1>3. idle \in Local
  <2>1. <<0, 0, 0>> \in Triple
    BY TripleOfThree
  <2> QED
    BY <2>1 DEF Init, Unset, Local, LEDs
<1>4. knob \in Int
  <2>1. Config.hsl["HUE_SHIFTING"] \in ValidColour
    BY LedManagerAssumption DEF Modes
  <2> QED
    BY <2>1 DEF Init, ValidColour, Unit
<1>5. CMP \in [Comparators -> Nat]
  BY DEF Init
<1> QED
  BY <1>1, <1>2, <1>3, <1>4, <1>5
     DEF Init, Inv, Typed, BeforeConfig, LightnessFollowsKnob, LED_1_kept,
         LED_1_ticked, LEDsAreIndependent

\* Every step keeps the invariant.
LEMMA StepsKeepInv == Inv /\ [Next]_vars => Inv'
<1> SUFFICES ASSUME Inv, [Next]_vars PROVE Inv'
  OBVIOUS
<1>1. CASE main_red
  BY <1>1, BootsRed
<1>2. CASE LM_init
  BY <1>2, Configures
<1>3. CASE OS_onIdle
  BY <1>3, ReadsTime, ReadsElapsed, ReadsMode, ShiftsHue, Converts, AddsM,
     WritesSignal DEF OS_onIdle
<1>4. CASE bsp_event_handler
  <2>1. \A n \in Turns : n \in Int /\ -n \in Int
    BY LedManagerAssumption
  <2>2. CASE \E mode \in Modes : LM_set_active_mode(mode)
    BY <2>2, SetsMode
  <2>3. CASE \E n \in Turns : Knob(n) \/ Knob(-n)
    BY <2>1, <2>3, TurnsKnob
  <2> QED
    BY <1>4, <2>2, <2>3 DEF bsp_event_handler
<1>5. CASE Pass
  <2>1. time' \in Nat
    BY <1>5, LedManagerAssumption DEF Pass, Inv, Typed
  <2> QED
    BY <1>5, <2>1
       DEF Pass, Inv, Typed, BeforeConfig, LightnessFollowsKnob, LED_1_kept,
           LED_1_ticked, LEDsAreIndependent, Shows, Booted, Led
<1>6. CASE UNCHANGED vars
  BY <1>6 DEF vars, Inv, Typed, BeforeConfig, LightnessFollowsKnob, LED_1_kept,
              LED_1_ticked, LEDsAreIndependent, Shows, Booted, Led
<1> QED
  BY <1>1, <1>2, <1>3, <1>4, <1>5, <1>6 DEF Next

\* The invariant of the LED manager.
LEMMA AlwaysInv == Spec => []Inv
<1>1. Init => Inv
  BY Starts
<1>2. Inv /\ [Next]_vars => Inv'
  BY StepsKeepInv
<1> QED
  BY <1>1, <1>2, PTL DEF Spec

\* No assertion of the conversion fails, whatever colours, times and period
\* are configured and however the handler interrupts the idle thread.
THEOREM NoAssertionFails == Spec => []AssertionsHold
<1>1. Inv => AssertionsHold
  BY DEF Inv, Typed, AssertionsHold
<1> QED
  BY <1>1, AlwaysInv, PTL

\* The lightness is what the turns of the knob add up to: the hue, which is
\* written beside it in the middle of a preempted tick, undoes none of them.
THEOREM NoTurnIsLost == Spec => []LightnessFollowsKnob
<1>1. Inv => LightnessFollowsKnob
  BY DEF Inv
<1> QED
  BY <1>1, AlwaysInv, PTL

\* Nothing that is done to LED_0, by either writer of the comparators,
\* disturbs LED_1.
THEOREM LEDsStayIndependent == Spec => []LEDsAreIndependent
<1>1. Inv => LEDsAreIndependent
  BY DEF Inv
<1> QED
  BY <1>1, AlwaysInv, PTL

-----------------------------------------------------------------------------
(* Products of SFP_10_5.                                                   *)

\* The powers of two that SFP_10_5 is shifted by.
LEMMA SmallPowers ==
    ASSUME NEW i \in 0 .. 5
    PROVE  2^i = IF i = 0 THEN 1 ELSE IF i = 1 THEN 2 ELSE IF i = 2 THEN 4
                 ELSE IF i = 3 THEN 8 ELSE IF i = 4 THEN 16 ELSE 32
<1>1. CASE i = 0
  BY <1>1, SMT
<1>2. CASE i = 1
  BY <1>2, SMT
<1>3. CASE i = 2
  BY <1>3, SMT
<1>4. CASE i = 3
  BY <1>4, SMT
<1>5. CASE i = 4
  BY <1>5, SMT
<1>6. CASE i = 5
  BY <1>6, SMT
<1> QED
  BY <1>1, <1>2, <1>3, <1>4, <1>5, <1>6, SMT

\* The three shifts of a product are five together.
LEMMA ShiftsAddUp ==
    ASSUME NEW i \in 0 .. 5, NEW j \in 0 .. 5, i + j <= 5
    PROVE  /\ 2^i \in Nat /\ 2^j \in Nat /\ 2^(5 - i - j) \in Nat
           /\ 2^i > 0 /\ 2^j > 0 /\ 2^(5 - i - j) > 0
           /\ 2^i * 2^j * 2^(5 - i - j) = 32
<1>1. 5 - i - j \in 0 .. 5
  OBVIOUS
<1> DEFINE P(k) == IF k = 0 THEN 1 ELSE IF k = 1 THEN 2 ELSE IF k = 2 THEN 4
                   ELSE IF k = 3 THEN 8 ELSE IF k = 4 THEN 16 ELSE 32
<1>2. 2^i = P(i) /\ 2^j = P(j) /\ 2^(5 - i - j) = P(5 - i - j)
  BY <1>1, SmallPowers
<1>3. /\ P(i) \in Nat /\ P(j) \in Nat /\ P(5 - i - j) \in Nat
      /\ P(i) > 0 /\ P(j) > 0 /\ P(5 - i - j) > 0
  OBVIOUS
<1>4. P(i) * P(j) * P(5 - i - j) = 32
  <2>1. i = 0 \/ i = 1 \/ i = 2 \/ i = 3 \/ i = 4 \/ i = 5
    OBVIOUS
  <2>2. j = 0 \/ j = 1 \/ j = 2 \/ j = 3 \/ j = 4 \/ j = 5
    OBVIOUS
  <2> QED
    BY <2>1, <2>2, SMT
<1> HIDE DEF P
<1> QED
  BY <1>2, <1>3, <1>4

\* Whatever is multiplied, with whatever pre-shifts, the product is near.
LEMMA ProductIsAlwaysNear ==
    ASSUME NEW x \in Int, NEW y \in Int, NEW i \in 0 .. 5, NEW j \in 0 .. 5,
           i + j <= 5
    PROVE  SFP_10_5!ProductIsNear(x, y, i, j)
<1> DEFINE P == 2^i  Q == 2^j  R == 2^(5 - i - j)
           z == ((x \div P) * (y \div Q)) \div R
<1>1. P \in Nat /\ Q \in Nat /\ R \in Nat /\ P > 0 /\ Q > 0 /\ R > 0
        /\ P * Q * R = 32
  BY ShiftsAddUp
<1>2. SFP_10_5!ONE = 32
  BY SMT DEF SFP_10_5!ONE
<1>3. SFP_10_5!MULT(x, y, i, j) = z
  BY DEF SFP_10_5!MULT, SFP_10_5!ShiftedRight
<1>4. LosesLittle(x, y, P, Q, R)
  <2> HIDE DEF P, Q, R
  <2> QED
    BY <1>1, ShiftedProduct
<1>5. z \in Int
  <2>1. x \div P \in Int /\ y \div Q \in Int
    <3> HIDE DEF P, Q
    <3> QED
      BY <1>1, RoundedDown
  <2>2. (x \div P) * (y \div Q) \in Int
    BY <2>1
  <2> DEFINE n == (x \div P) * (y \div Q)
  <2> HIDE DEF n, R
  <2>3. n \in Int
    BY <2>2 DEF n
  <2>4. n \div R \in Int
    BY <1>1, <2>3, RoundedDown
  <2> QED
    BY <2>4 DEF n
<1>6. Distance(x * y, 32 * z) <= Distance(x, 0) * (Q - 1) + Distance(y, 0) * (P - 1)
                                   + (P - 1) * (Q - 1) + 32
  <2>1. LosesLittle(x, y, P, Q, R) =
          (Distance(x * y, (P * Q * R) * z)
             <= Distance(x, 0) * (Q - 1) + Distance(y, 0) * (P - 1)
                   + (P - 1) * (Q - 1) + P * Q * R)
    BY DEF LosesLittle
  <2> HIDE DEF P, Q, R, z
  <2> QED
    BY <1>1, <1>4, <2>1
<1>7. \A u \in Int : SFP_10_5!Magnitude(u) = Distance(u, 0)
  BY SMT DEF SFP_10_5!Magnitude, Distance
<1>8. \A u, v \in Int : SFP_10_5!Magnitude(u - v) = Distance(u, v)
  BY SMT DEF SFP_10_5!Magnitude, Distance
<1>9. SFP_10_5!ProductIsNear(x, y, i, j) =
        (SFP_10_5!Magnitude(x * y - 32 * z)
           <= SFP_10_5!Magnitude(x) * (Q - 1) + SFP_10_5!Magnitude(y) * (P - 1)
                 + (P - 1) * (Q - 1) + 32)
  BY <1>2, <1>3 DEF SFP_10_5!ProductIsNear, SFP_10_5!Loss
<1> HIDE DEF P, Q, R, z
<1>10. x * y \in Int /\ 32 * z \in Int
  BY <1>5
<1> QED
  BY <1>6, <1>7, <1>8, <1>9, <1>10

-----------------------------------------------------------------------------
(* Every colour and every product that a caller may ask for.               *)

\* What is computed: a valid colour, or a product that needs no left shift.
Arguments ==
    /\ converted \in ValidColour
    /\ factors.x \in Int /\ factors.y \in Int
    /\ factors.x_pre_shift \in 0 .. 5 /\ factors.y_pre_shift \in 0 .. 5
    /\ factors.x_pre_shift + factors.y_pre_shift <= 5

\* The arguments are valid, and they stay.
LEMMA ArgumentsAreValid == CalculationSpec => []Arguments
<1>1. CalculationInit => Arguments
  <2>1. 0 \in HueRange /\ 0 \in Unit
    BY One, SMT DEF HueRange, Unit
  <2>2. converted = NoColour => converted \in ValidColour
    BY <2>1 DEF NoColour, ValidColour
  <2>3. converted \in [h : Hues, s : Saturations, l : Lightnesses]
          => converted \in ValidColour
    BY ColoursAssumption DEF ValidColour
  <2>4. \A x \in Operands : x \in Int
    BY OperandsAssumption
  <2>5. factors = NoFactors => /\ factors.x = 0 /\ factors.y = 0
                               /\ factors.x_pre_shift = 0
                               /\ factors.y_pre_shift = 0
    BY DEF NoFactors
  <2> QED
    BY <2>2, <2>3, <2>4, <2>5 DEF CalculationInit, Arguments
<1>2. Arguments /\ [UNCHANGED calculation_vars]_calculation_vars => Arguments'
  BY DEF Arguments, calculation_vars
<1> QED
  BY <1>1, <1>2, PTL DEF CalculationSpec

\* A colour in the asserted ranges passes all later assertions of
\* BSP_LED_RGB_from_HSL, and red, green and blue fit in their bytes.
THEOREM ConversionAlwaysSucceeds == CalculationSpec => []ConversionSucceeds
<1>1. Arguments => ConversionSucceeds
  BY AssertionsPass, ResultsInRange DEF Arguments, ConversionSucceeds, Results
<1> QED
  BY <1>1, ArgumentsAreValid, PTL

\* The colour that BSP_LED_RGB_from_HSL computes, with its shifts and
\* roundings, differs by at most one of 255 from that of the other formula.
THEOREM ColoursAreAlwaysAccurate == CalculationSpec => []ColoursAreAccurate
<1>1. Arguments => ColoursAreAccurate
  BY EveryColourIsAccurate DEF Arguments, ColoursAreAccurate
<1> QED
  BY <1>1, ArgumentsAreValid, PTL

\* The products of SFP_10_5_MULT lose no more than what the shifts drop.
THEOREM ProductsAreAlwaysNear == CalculationSpec => []ProductsAreNear
<1>1. Arguments => ProductsAreNear
  BY ProductIsAlwaysNear DEF Arguments, ProductsAreNear
<1> QED
  BY <1>1, ArgumentsAreValid, PTL
=============================================================================
