-------------------------------- MODULE JMath --------------------------------
(***************************************************************************)
(* The saturating arithmetic of src/jlib/jmath.c.  It is computed with     *)
(* wrap-around in unsigned integers of 8 or 32 bits, and the wrap-around   *)
(* is noticed afterwards, by comparing the result with an operand.         *)
(***************************************************************************)
EXTENDS Integers

UINT8_MAX  == 255
UINT32_MAX == 65536 * 65536 - 1

\* The type of words up to max: 0 follows max, and max precedes 0.
Word(max)    == 0 .. max
Wrap(max, n) == n % (max + 1)

saturating_add(max, x, y) ==
    LET sum == Wrap(max, x + y) IN IF sum < x THEN max ELSE sum

saturating_subtract(max, x, y) ==
    LET diff == Wrap(max, x - y) IN IF diff > x THEN 0 ELSE diff

saturating_add_uint8_t(x, y)       == saturating_add(UINT8_MAX, x, y)
saturating_subtract_uint8_t(x, y)  == saturating_subtract(UINT8_MAX, x, y)
saturating_add_uint32_t(x, y)      == saturating_add(UINT32_MAX, x, y)
saturating_subtract_uint32_t(x, y) == saturating_subtract(UINT32_MAX, x, y)

-----------------------------------------------------------------------------

\* What an addition that saturates at the top is to compute, and a
\* subtraction that saturates at zero.
SaturatedSum(max, x, y)   == IF x + y > max THEN max ELSE x + y
SaturatedDifference(x, y) == IF x < y THEN 0 ELSE x - y
=============================================================================
