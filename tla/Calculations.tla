---------------------------- MODULE Calculations ----------------------------
(***************************************************************************)
(* What a caller may have computed: a colour, by BSP_LED_RGB_from_HSL      *)
(* (src/bsp/bsp_led.c), or a product of two numbers of the format SFP_10_5 *)
(* (src/jlib/jfp.h), which are stored in 16 bits; and what the results     *)
(* promise.                                                                *)
(***************************************************************************)
EXTENDS HSL

SFP_10_5 == INSTANCE FixedPoint WITH SHIFT <- 5

CONSTANTS
    Hues, Saturations, Lightnesses, \* those that are converted
    Operands                        \* those that are multiplied

ASSUME ColoursAssumption ==
    /\ \A h \in Hues : h \in HueRange
    /\ \A x \in Saturations \cup Lightnesses : x \in Unit

ASSUME OperandsAssumption == \A x \in Operands : x \in -(2^15) .. 2^15 - 1

VARIABLES
    converted, \* the colour
    factors    \* the operands, and how much they are shifted before

calculation_vars == <<converted, factors>>

NoColour  == [h |-> 0, s |-> 0, l |-> 0]
NoFactors == [x |-> 0, y |-> 0, x_pre_shift |-> 0, y_pre_shift |-> 0]

CalculationInit ==
    \/ /\ converted \in [h : Hues, s : Saturations, l : Lightnesses]
       /\ factors = NoFactors
    \/ /\ converted = NoColour
       /\ factors \in [x : Operands, y : Operands,
                       x_pre_shift : 0 .. 5, y_pre_shift : 0 .. 5]
       /\ factors.x_pre_shift + factors.y_pre_shift <= 5

\* Neither a conversion nor a product changes its arguments.
CalculationSpec ==
    CalculationInit /\ [][UNCHANGED calculation_vars]_calculation_vars

\* The scaled values are written out: what is stored in a byte each.
Results == Scaled(RGB_1(converted), m(converted, chroma(converted)))

-----------------------------------------------------------------------------

\* A colour in the asserted ranges passes all later assertions: chroma, hue
\* and X are not rounded out of their ranges, the hue reaches no sextant 6,
\* whose J_ERROR would reset the board (bsp_led.c:170), and red, green and
\* blue fit in their bytes.
ConversionSucceeds ==
    /\ AssertsHold(converted)
    /\ \A i \in 1 .. 3 : 0 <= Results[i] /\ Results[i] <= 255

\* Colours are converted to what the textbook's other formula gives, within
\* one of 255: the rainbow of tests_bsp_led.c and every colour between.
ColoursAreAccurate == NearReference(converted, 1)

\* "By requiring the user to set how much values must be pre-shifted before
\* multiplication, one can avoid losing precision" (jfp.h:38): a product, of
\* operands of any sign and with any pre-shifts, is the exact one up to what
\* the shifts of each operand, and of the product, drop.
ProductsAreNear ==
    SFP_10_5!ProductIsNear(factors.x, factors.y,
                           factors.x_pre_shift, factors.y_pre_shift)
=============================================================================
