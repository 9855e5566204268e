---------------------------- MODULE MCArithmetic ----------------------------
(* Hues around the ends of the sextants and in their middles; saturations   *)
(* and lightnesses around zero, the half and one, and in between; operands  *)
(* around the powers of two of both signs, and around zero.                 *)
EXTENDS Calculations

Near(x, range) == {x - 1, x, x + 1} \cap range

MCHues ==
    UNION {Near(30 * k * SFP_11_20_ONE, HueRange) : k \in 0 .. 12}
        \cup {7 * k * SFP_11_20_ONE : k \in 0 .. 51}
        \cup {360 * SFP_11_20_ONE + 359}

MCUnit ==
    UNION {Near(k * (SFP_11_20_ONE \div 2), Unit) : k \in 0 .. 2}
        \cup {k * (SFP_11_20_ONE \div 7) : k \in 1 .. 6}

MCOperands ==
    UNION {Near(2^k, -(2^15) .. 2^15 - 1) \cup Near(-(2^k), -(2^15) .. 2^15 - 1) :
              k \in 0 .. 15}
=============================================================================
