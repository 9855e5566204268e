--------------------------------- MODULE HSL ---------------------------------
(***************************************************************************)
(* The colours of the LEDs: from hue, saturation and lightness in the      *)
(* fixed-point format of src/jlib/jfp.h, SFP_11_20, to red, green and blue *)
(* in one byte each, src/bsp/bsp_led.c.  A colour hsl is a record of       *)
(* fixed-point numbers, h from 0 to 360, s and l from 0 to 1.              *)
(***************************************************************************)
EXTENDS Integers

SFP_11_20 == INSTANCE FixedPoint WITH SHIFT <- 20

SFP_11_20_ONE == SFP_11_20!ONE

Distance(x, y) == IF x >= y THEN x - y ELSE y - x

InUnit(x) == 0 <= x /\ x <= SFP_11_20_ONE

\* The colours in the asserted ranges.  A hue is above 360 only by less than
\* the division by 360 can tell.
HueRange    == {h \in Nat : h <= 360 * SFP_11_20_ONE + 359}
Unit        == {x \in Nat : x <= SFP_11_20_ONE}
ValidColour == [h : HueRange, s : Unit, l : Unit]

chroma(hsl) ==
    SFP_11_20!MULT(SFP_11_20_ONE - Distance(2 * hsl.l, SFP_11_20_ONE),
                   hsl.s, 5, 5)

\* (Faulty: rounded up.)
reciprocal_of_60_up == SFP_11_20!new_F(1, 60) + 1

reciprocal_of_60 == SFP_11_20!new_F(1, 60)

hue_dash(hsl) == SFP_11_20!MULT(hsl.h, reciprocal_of_60, 15, 0)

X(hsl) ==
    SFP_11_20!MULT(chroma(hsl),
                   SFP_11_20_ONE - Distance(SFP_11_20!MOD_2(hue_dash(hsl)),
                                            SFP_11_20_ONE), 5, 5)

\* The sextant of the hue.
hdi(hsl) == SFP_11_20!TO_INT(hue_dash(hsl))

\* What BSP_LED_RGB_from_HSL asserts before it computes a colour.
AssertsHold(hsl) ==
    /\ 0 <= hsl.h /\ SFP_11_20!Truncated(hsl.h, 360) <= SFP_11_20_ONE
    /\ InUnit(hsl.s) /\ InUnit(hsl.l)
    /\ InUnit(chroma(hsl))
    /\ 0 <= hue_dash(hsl) /\ hue_dash(hsl) <= 6 * SFP_11_20_ONE
    /\ InUnit(X(hsl))
    /\ hdi(hsl) \in 0 .. 5

\* (Faulty: two sextants are swapped.)
RGB_1_swapped(hsl) ==
    LET C == chroma(hsl)
    IN  CASE hdi(hsl) = 0 -> <<C, X(hsl), 0>>
          [] hdi(hsl) = 1 -> <<X(hsl), C, 0>>
          [] hdi(hsl) = 2 -> <<0, C, X(hsl)>>
          [] hdi(hsl) = 3 -> <<0, X(hsl), C>>
          [] hdi(hsl) = 4 -> <<C, 0, X(hsl)>>
          [] OTHER        -> <<X(hsl), 0, C>>

\* Red, green and blue before m is added, as multiples of chroma and X.
RGB_1(hsl) ==
    LET C == chroma(hsl)
    IN  CASE hdi(hsl) = 0 -> <<C, X(hsl), 0>>
          [] hdi(hsl) = 1 -> <<X(hsl), C, 0>>
          [] hdi(hsl) = 2 -> <<0, C, X(hsl)>>
          [] hdi(hsl) = 3 -> <<0, X(hsl), C>>
          [] hdi(hsl) = 4 -> <<X(hsl), 0, C>>
          [] OTHER        -> <<C, 0, X(hsl)>>

\* m, from the lightness as it is now, and chroma as it was computed.
m(hsl, C) == hsl.l - C \div 2

\* The values from 0 to 255, before they are stored in a byte.
Scaled(rgb_1, lift) ==
    [i \in 1 .. 3 |-> SFP_11_20!TO_INT((rgb_1[i] + lift) * 255)]

Bytes(scaled) == [i \in 1 .. 3 |-> scaled[i] % 256]

BSP_LED_RGB_from_HSL(hsl) == Bytes(Scaled(RGB_1(hsl), m(hsl, chroma(hsl))))

-----------------------------------------------------------------------------
(* A reference: the other formula for the same colour, without sextants.   *)
(* Lightness and saturation are in 4096ths, the hue, k, in sectors of 30   *)
(* degrees and 1024 parts each; n is 0 for red, 8 for green, 4 for blue.   *)

Least(x, y) == IF x <= y THEN x ELSE y

\* How far a component is from the lightness, in either direction.
Amplitude(hsl) ==
    LET l == hsl.l \div 256
        s == hsl.s \div 256
    IN  (s * Least(l, 4096 - l)) \div 4096

\* Where it is between them: from -1024, the brightest, to 1024.
Slope(h, n) ==
    LET k   == (n * 1024 + h \div (30 * 1024)) % (12 * 1024)
        top == Least(Least(k - 3 * 1024, 9 * 1024 - k), 1024)
    IN  IF top < -1024 THEN -1024 ELSE top

Reference(hsl, n) ==
    (((hsl.l \div 256) * 1024 - Amplitude(hsl) * Slope(hsl.h, n)) * 255)
        \div (4096 * 1024)

\* The colour is the reference's, within the given difference.
NearReference(hsl, difference) ==
    LET rgb == BSP_LED_RGB_from_HSL(hsl)
    IN  /\ Distance(rgb[1], Reference(hsl, 0)) <= difference
        /\ Distance(rgb[2], Reference(hsl, 8)) <= difference
        /\ Distance(rgb[3], Reference(hsl, 4)) <= difference
=============================================================================
