----------------------------- MODULE FixedPoint -----------------------------
(***************************************************************************)
(* The signed fixed-point formats of src/jlib/jfp.h and src/jlib/jfp.c.    *)
(* SFP_10_5, SFP_5_10 and SFP_11_20 have the same macros and functions,    *)
(* with a SHIFT of 5, 10 and 20: the number n stands for n / 2^SHIFT.  A   *)
(* floating-point number is a fraction n/d here, d > 0: what the rounding  *)
(* of floating-point arithmetic itself does is left out.                   *)
(***************************************************************************)
EXTENDS Integers

CONSTANT SHIFT \* the digits after the point

ONE == 2^SHIFT

\* The shift of a negative number keeps its sign: it rounds down.
ShiftedRight(x, n) == x \div 2^n

\* The division of C, and its conversion to an integer, round towards zero.
Truncated(n, d) == IF n >= 0 THEN n \div d ELSE -((-n) \div d)

\* (Faulty: the product is shifted as if there were no pre-shifts.)
MULT_shifted_twice(x, y, x_pre_shift, y_pre_shift) ==
    ShiftedRight(ShiftedRight(x, x_pre_shift) * ShiftedRight(y, y_pre_shift),
                 SHIFT)

\* The product of two numbers, that are shifted right before they are
\* multiplied so that the product fits, and after that by what is left.
MULT(x, y, x_pre_shift, y_pre_shift) ==
    ShiftedRight(ShiftedRight(x, x_pre_shift) * ShiftedRight(y, y_pre_shift),
                 SHIFT - x_pre_shift - y_pre_shift)

\* The remainder of C has the sign of the dividend.
MOD_2(x) == x - Truncated(x, 2 * ONE) * (2 * ONE)

TO_INT(x) == Truncated(x, ONE)

\* The functions new_F and new_D: of n/d.
new_F(n, d) == Truncated(ONE * n, d)

-----------------------------------------------------------------------------

Magnitude(x) == IF x >= 0 THEN x ELSE -x

\* What a product may lose: to the pre-shift of x, to that of y, and to the
\* shift afterwards.
Loss(x, y, p, q) ==
    Magnitude(x) * (q - 1) + Magnitude(y) * (p - 1) + (p - 1) * (q - 1) + ONE

\* The product is what the exact product would be, but for the loss.
ProductIsNear(x, y, xs, ys) ==
    Magnitude(x * y - ONE * MULT(x, y, xs, ys)) <= Loss(x, y, 2^xs, 2^ys)
=============================================================================
