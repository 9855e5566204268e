-------------------------- MODULE ArithmeticProofs --------------------------
(***************************************************************************)
(* Induction, and what the arithmetic of the program computes: the         *)
(* saturating operations of jmath.c, for words of any width, and the       *)
(* conversion of colours, for each of the 4 * 10^20 colours in the         *)
(* asserted ranges.                                                        *)
(***************************************************************************)
EXTENDS HSL, JMath, TLAPS, WellFoundedInduction

-----------------------------------------------------------------------------
(* Induction over the natural numbers, about a set instead of a predicate, *)
(* which can then be instantiated.                                         *)

\* A set that holds zero, and the successor of each number it holds, holds
\* every natural number: else there were a least one that it does not hold.
LEMMA Induction ==
    ASSUME NEW S, 0 \in S, \A n \in Nat : n \in S => n + 1 \in S
    PROVE  \A n \in Nat : n \in S
<1>1. SUFFICES ASSUME NEW n \in Nat, n \notin S PROVE FALSE
  OBVIOUS
<1> DEFINE T == Nat \ S
<1>2. \E x \in T : \A y \in T : ~ (<<y, x>> \in OpToRel(<, Nat))
  BY <1>1, NatLessThanWellFounded, WFMin, Zenon
<1>3. \A x, y \in Nat : y < x => <<y, x>> \in OpToRel(<, Nat)
  BY DEF OpToRel
<1>4. PICK x \in T : \A y \in T : ~ (y < x)
  BY <1>2, <1>3, Zenon
<1>5. x # 0 /\ x - 1 \in Nat
  BY <1>4
<1>6. x - 1 \in T
  BY <1>5
<1> QED
  BY <1>4, <1>6

\* g is what a recursion from b makes, by the given steps, up to N.
IsRecursion(g, N, S, b, step) ==
    /\ g \in [0 .. N -> S]
    /\ g[0] = b
    /\ \A n \in 1 .. N : g[n] = step[n][g[n - 1]]

Steps(N, S) == [1 .. N -> [S -> S]]

\* Every recursion makes something: a recursive function that is defined by
\* such steps is more than a name.
LEMMA RecursionMakesFunction ==
    ASSUME NEW N \in Nat, NEW S, NEW b \in S, NEW step \in Steps(N, S)
    PROVE  \E g : IsRecursion(g, N, S, b, step)
<1> DEFINE Z == {n \in Nat : n =< N => \E g : IsRecursion(g, n, S, b, step)}
<1>1. 0 \in Z
  <2>1. IsRecursion([n \in 0 .. 0 |-> b], 0, S, b, step)
    BY DEF IsRecursion
  <2> QED
    BY <2>1
<1>2. ASSUME NEW n \in Nat, n \in Z PROVE n + 1 \in Z
  <2>1. SUFFICES ASSUME n + 1 =< N
                 PROVE  \E g : IsRecursion(g, n + 1, S, b, step)
    OBVIOUS
  <2>2. PICK g : IsRecursion(g, n, S, b, step)
    BY <1>2, <2>1
  <2>3. g \in [0 .. n -> S] /\ g[0] = b
          /\ \A i \in 1 .. n : g[i] = step[i][g[i - 1]]
    BY <2>2 DEF IsRecursion
  <2> DEFINE v == step[n + 1][g[n]]
             h == [i \in 0 .. n + 1 |-> IF i = n + 1 THEN v ELSE g[i]]
  <2>4. v \in S
    BY <2>1, <2>3 DEF Steps
  <2>5. h \in [0 .. n + 1 -> S] /\ h[n + 1] = v /\ \A i \in 0 .. n : h[i] = g[i]
    BY <2>3, <2>4
  <2> HIDE DEF h
  <2>6. h[n + 1] = step[n + 1][h[n + 1 - 1]]
    BY <2>5
  <2>7. ASSUME NEW i \in 1 .. n PROVE h[i] = step[i][h[i - 1]]
    BY <2>3, <2>5
  <2>8. h[0] = b
    BY <2>3, <2>5
  <2>9. \A i \in 1 .. n + 1 : h[i] = step[i][h[i - 1]]
    BY <2>6, <2>7
  <2> QED
    BY <2>5, <2>8, <2>9 DEF IsRecursion
<1> HIDE DEF Z
<1>3. \A n \in Nat : n \in Z
  BY <1>1, <1>2, Induction
<1> QED
  BY <1>3 DEF Z

-----------------------------------------------------------------------------
(* Remainders, for any modulus.                                            *)

\* Remainders of numbers that wrap around once at most.
LEMMA SmallRemainders ==
    ASSUME NEW K \in Nat, K > 0
    PROVE  /\ \A n \in 0 .. K - 1 : n % K = n
           /\ \A n \in K .. 2 * K - 1 : n % K = n - K
           /\ \A n \in Int : n % K \in 0 .. K - 1
<1>1. ASSUME NEW n \in 0 .. K - 1 PROVE n % K = n
  BY SMT
<1>2. ASSUME NEW n \in K .. 2 * K - 1 PROVE n % K = n - K
  BY SMT
<1>3. ASSUME NEW n \in Int PROVE n % K \in 0 .. K - 1
  BY SMT
<1> QED
  BY <1>1, <1>2, <1>3

\* Division rounds down.
LEMMA RoundedDown ==
    ASSUME NEW x \in Int, NEW P \in Nat, P > 0
    PROVE  /\ x \div P \in Int
           /\ x - P * (x \div P) \in 0 .. P - 1
  BY SMT

\* The product with a small number is bounded by the largest one.
LEMMA BoundedProduct ==
    ASSUME NEW s \in Nat, NEW t \in Nat, s <= t, NEW x \in Int
    PROVE  /\ Distance(x, 0) \in Nat
           /\ s * x <= t * Distance(x, 0)
           /\ -(t * Distance(x, 0)) <= s * x
  BY SMT DEF Distance

\* What is lost of a product when its operands are divided by P and Q before
\* they are multiplied, and the product by R.
LosesLittle(x, y, P, Q, R) ==
    Distance(x * y, (P * Q * R) * (((x \div P) * (y \div Q)) \div R))
        <= Distance(x, 0) * (Q - 1) + Distance(y, 0) * (P - 1)
              + (P - 1) * (Q - 1) + P * Q * R

\* Each division drops less than its divisor.
LEMMA ShiftedProduct ==
    ASSUME NEW P \in Nat, NEW Q \in Nat, NEW R \in Nat, P > 0, Q > 0, R > 0,
           NEW x \in Int, NEW y \in Int
    PROVE  LosesLittle(x, y, P, Q, R)
<1> DEFINE a == x \div P
           b == y \div Q
           z == (a * b) \div R
           r == x - P * a
           s == y - Q * b
           t == a * b - R * z
<1>1. a \in Int /\ r \in 0 .. P - 1
  BY RoundedDown
<1>2. b \in Int /\ s \in 0 .. Q - 1
  BY RoundedDown
<1>3. z \in Int /\ t \in 0 .. R - 1
  <2>1. a * b \in Int
    BY <1>1, <1>2
  <2> HIDE DEF a, b
  <2> QED
    BY <2>1, RoundedDown
<1>4. x = P * a + r /\ y = Q * b + s /\ a * b = R * z + t
  <2>1. P * a \in Int /\ Q * b \in Int /\ R * z \in Int /\ a * b \in Int
    BY <1>1, <1>2, <1>3
  <2> HIDE DEF a, b, z
  <2> QED
    BY <2>1
<1> HIDE DEF a, b, z, r, s, t
<1>5. x * y - (P * Q * R) * z = P * Q * t + s * x + r * y - r * s
  <2>1. x * y = P * Q * (a * b) + (P * a) * s + r * (Q * b) + r * s
    BY <1>1, <1>2, <1>4, SMT
  <2>2. (P * a) * s = s * x - r * s /\ r * (Q * b) = r * y - r * s
    BY <1>1, <1>2, <1>4, SMT
  <2>3. P * Q * (a * b) = P * Q * R * z + P * Q * t
    BY <1>3, <1>4, SMT
  <2> QED
    BY <1>1, <1>2, <1>3, <2>1, <2>2, <2>3, SMT
<1>6. /\ s * x <= (Q - 1) * Distance(x, 0) /\ -((Q - 1) * Distance(x, 0)) <= s * x
      /\ r * y <= (P - 1) * Distance(y, 0) /\ -((P - 1) * Distance(y, 0)) <= r * y
      /\ Distance(x, 0) \in Nat /\ Distance(y, 0) \in Nat
  <2>1. /\ s \in Nat /\ Q - 1 \in Nat /\ s <= Q - 1
        /\ r \in Nat /\ P - 1 \in Nat /\ r <= P - 1
    BY <1>1, <1>2
  <2> QED
    BY <2>1, BoundedProduct, Zenon
<1>7. 0 <= r * s /\ r * s <= (P - 1) * (Q - 1)
  BY <1>1, <1>2, SMT
<1>8. 0 <= P * Q * t /\ P * Q * t <= P * Q * R
  <2>1. P * Q \in Nat
    OBVIOUS
  <2> QED
    BY <1>3, <2>1, SMT
<1> QED
  <2>1. \A u, v, w, e, f, g, i, j \in Int :
           /\ 0 <= u /\ u <= e
           /\ v <= f /\ -f <= v
           /\ w <= g /\ -g <= w
           /\ 0 <= i /\ i <= j
           => Distance(u + v + w - i, 0) <= f + g + j + e
    BY SMT DEF Distance
  <2>2. /\ P * Q * t \in Int /\ s * x \in Int /\ r * y \in Int /\ r * s \in Int
        /\ P * Q * R \in Int /\ (Q - 1) * Distance(x, 0) \in Int
        /\ (P - 1) * Distance(y, 0) \in Int /\ (P - 1) * (Q - 1) \in Int
    BY <1>1, <1>2, <1>3, <1>6
  <2>3. Distance(P * Q * t + s * x + r * y - r * s, 0)
          <= (Q - 1) * Distance(x, 0) + (P - 1) * Distance(y, 0)
               + (P - 1) * (Q - 1) + P * Q * R
    BY <2>1, <2>2, <1>6, <1>7, <1>8
  <2>4. /\ (Q - 1) * Distance(x, 0) = Distance(x, 0) * (Q - 1)
        /\ (P - 1) * Distance(y, 0) = Distance(y, 0) * (P - 1)
    BY <1>6
  <2>5. \A u, v, w \in Int : u - v = w => Distance(u, v) = Distance(w, 0)
    BY SMT DEF Distance
  <2>6. Distance(x * y, (P * Q * R) * z)
          = Distance(P * Q * t + s * x + r * y - r * s, 0)
    BY <1>3, <1>5, <2>2, <2>5
  <2> QED
    BY <2>3, <2>4, <2>6 DEF LosesLittle, a, b, z

\* The number of values that up to eight bits have.
LEMMA PowersOfTwo ==
    ASSUME NEW w \in 1 .. 8
    PROVE  2^w \in 2 .. 256
<1>1. CASE w = 1
  BY <1>1, SMT
<1>2. CASE w = 2
  BY <1>2, SMT
<1>3. CASE w = 3
  BY <1>3, SMT
<1>4. CASE w = 4
  BY <1>4, SMT
<1>5. CASE w = 5
  BY <1>5, SMT
<1>6. CASE w = 6
  BY <1>6, SMT
<1>7. CASE w = 7
  BY <1>7, SMT
<1>8. CASE w = 8
  BY <1>8, SMT
<1> QED
  BY <1>1, <1>2, <1>3, <1>4, <1>5, <1>6, <1>7, <1>8

-----------------------------------------------------------------------------
(* The saturating arithmetic.                                              *)

\* In words of any width, the sum that wrapped is the one below an operand.
LEMMA AddSaturates ==
    ASSUME NEW max \in Nat, NEW x \in Word(max), NEW y \in Word(max)
    PROVE  saturating_add(max, x, y) = SaturatedSum(max, x, y)
<1>1. x \in 0 .. max /\ y \in 0 .. max
  BY DEF Word
<1>2. CASE x + y =< max
  <2>1. Wrap(max, x + y) = x + y
    BY <1>1, <1>2 DEF Wrap
  <2> QED
    BY <1>1, <1>2, <2>1 DEF saturating_add, SaturatedSum
<1>3. CASE x + y > max
  <2>1. Wrap(max, x + y) = x + y - (max + 1)
    BY <1>1, <1>3 DEF Wrap
  <2> QED
    BY <1>1, <1>3, <2>1 DEF saturating_add, SaturatedSum
<1> QED
  BY <1>1, <1>2, <1>3

\* In words of any width, the difference that wrapped is the one above the
\* first operand.
LEMMA SubtractSaturates ==
    ASSUME NEW max \in Nat, NEW x \in Word(max), NEW y \in Word(max)
    PROVE  saturating_subtract(max, x, y) = SaturatedDifference(x, y)
<1>1. x \in 0 .. max /\ y \in 0 .. max
  BY DEF Word
<1>2. CASE x >= y
  <2>1. Wrap(max, x - y) = x - y
    BY <1>1, <1>2 DEF Wrap
  <2> QED
    BY <1>1, <1>2, <2>1 DEF saturating_subtract, SaturatedDifference
<1>3. CASE x < y
  <2>1. Wrap(max, x - y) = x - y + (max + 1)
    BY <1>1, <1>3 DEF Wrap
  <2> QED
    BY <1>1, <1>3, <2>1 DEF saturating_subtract, SaturatedDifference
<1> QED
  BY <1>1, <1>2, <1>3

\* The largest words are natural numbers.
LEMMA Widths == UINT8_MAX \in Nat /\ UINT32_MAX \in Nat
  BY DEF UINT8_MAX, UINT32_MAX

\* The additions of 8 and of 32 bits saturate at the largest word.
\* (saturating_add_uint8_t, saturating_add_uint32_t)
THEOREM AdditionsSaturate ==
    /\ \A x, y \in Word(UINT8_MAX) :
           saturating_add_uint8_t(x, y) = SaturatedSum(UINT8_MAX, x, y)
    /\ \A x, y \in Word(UINT32_MAX) :
           saturating_add_uint32_t(x, y) = SaturatedSum(UINT32_MAX, x, y)
  BY Widths, AddSaturates DEF saturating_add_uint8_t, saturating_add_uint32_t

\* The subtractions of 8 and of 32 bits saturate at zero.
\* (saturating_subtract_uint8_t, saturating_subtract_uint32_t)
THEOREM SubtractionsSaturate ==
    /\ \A x, y \in Word(UINT8_MAX) :
           saturating_subtract_uint8_t(x, y) = SaturatedDifference(x, y)
    /\ \A x, y \in Word(UINT32_MAX) :
           saturating_subtract_uint32_t(x, y) = SaturatedDifference(x, y)
  BY Widths, SubtractSaturates
     DEF saturating_subtract_uint8_t, saturating_subtract_uint32_t
-----------------------------------------------------------------------------
(* The conversion of colours.                                              *)

\* The powers of two of the formats.
LEMMA Powers ==
    /\ 2^20 = 1048576 /\ 2^15 = 32768 /\ 2^10 = 1024 /\ 2^5 = 32 /\ 2^0 = 1
    /\ 20 - 5 - 5 = 10 /\ 20 - 15 - 0 = 5
  BY SMT

\* 1 in the format SFP_11_20.
LEMMA One == SFP_11_20_ONE = 1048576
  BY Powers, SMT DEF SFP_11_20_ONE, SFP_11_20!ONE

\* A product grows with its factors.
LEMMA Monotonic == \A a, b, c \in Nat : b =< c => a * b =< a * c
  BY SMT

\* The product of two numbers from 0 to 1 is at most the smaller of them.
LEMMA UnitProduct ==
    ASSUME NEW a \in Unit, NEW b \in Unit
    PROVE  LET p == SFP_11_20!MULT(a, b, 5, 5) IN p \in Nat /\ p =< a /\ p =< b
<1> DEFINE a1 == a \div 32  b1 == b \div 32
<1>1. SFP_11_20!MULT(a, b, 5, 5) = (a1 * b1) \div 1024
  BY Powers DEF SFP_11_20!MULT, SFP_11_20!ShiftedRight
<1>2. /\ a \in Nat /\ b \in Nat /\ a =< 1048576 /\ b =< 1048576
  BY One DEF Unit
<1>3. a1 \in Nat /\ b1 \in Nat /\ a1 =< 32768 /\ b1 =< 32768
        /\ a1 * 32 =< a /\ b1 * 32 =< b
  BY <1>2, SMT
<1> HIDE DEF a1, b1
<1>4. a1 * b1 \in Nat /\ a1 * b1 =< a1 * 32768 /\ b1 * a1 =< b1 * 32768
        /\ a1 * b1 = b1 * a1
  BY <1>3, Monotonic, SMT
<1>5. \A n, c \in Nat : n =< c * 32768 => n \div 1024 \in Nat /\ n \div 1024 =< c * 32
  BY SMT
<1>6. (a1 * b1) \div 1024 \in Nat /\ (a1 * b1) \div 1024 =< a1 * 32
        /\ (a1 * b1) \div 1024 =< b1 * 32
  BY <1>3, <1>4, <1>5, SMT
<1> QED
  BY <1>1, <1>2, <1>3, <1>6, SMT

-----------------------------------------------------------------------------

\* The ranges that BSP_LED_RGB_from_HSL asserts.
LEMMA ColourFields ==
    ASSUME NEW c \in ValidColour
    PROVE  /\ c.h \in Nat /\ c.h =< 377487719
           /\ c.s \in Unit /\ c.s \in Nat /\ c.s =< 1048576
           /\ c.l \in Unit /\ c.l \in Nat /\ c.l =< 1048576
  BY One, SMT DEF ValidColour, HueRange, Unit

\* The lightness has a distance from black and from white, and the chroma is
\* at most twice the smaller one.
LEMMA Chroma ==
    ASSUME NEW c \in ValidColour
    PROVE  /\ chroma(c) \in Unit
           /\ chroma(c) =< 2 * c.l
           /\ chroma(c) =< 2 * (1048576 - c.l)
<1> DEFINE v == SFP_11_20_ONE - Distance(2 * c.l, SFP_11_20_ONE)
<1>1. v \in Nat /\ v =< 1048576 /\ v =< 2 * c.l /\ v =< 2 * (1048576 - c.l)
  BY ColourFields, One, SMT DEF Distance
<1>2. v \in Unit
  BY <1>1, One DEF Unit
<1> HIDE DEF v
<1>3. chroma(c) = SFP_11_20!MULT(v, c.s, 5, 5)
  BY DEF chroma, v
<1>4. chroma(c) \in Nat /\ chroma(c) =< v
  BY <1>2, <1>3, ColourFields, UnitProduct
<1> QED
  BY <1>1, <1>4, ColourFields, One, SMT DEF Unit

\* 1/60 in the format SFP_11_20, rounded down.
LEMMA Reciprocal == reciprocal_of_60 = 17476
<1>1. SFP_11_20!ONE = 1048576
  BY One DEF SFP_11_20_ONE
<1> QED
  BY <1>1, SMT DEF reciprocal_of_60, SFP_11_20!new_F, SFP_11_20!Truncated

\* A hue is rounded down on its way to the sextant: the largest one stays
\* below six.
LEMMA HueDash ==
    ASSUME NEW c \in ValidColour
    PROVE  hue_dash(c) \in Nat /\ hue_dash(c) =< 6291360
<1> DEFINE h1 == c.h \div 32768
<1>1. hue_dash(c) = (h1 * 17476) \div 32
  <2>1. 17476 \div 1 = 17476
    BY SMT
  <2> QED
    BY <2>1, Powers, Reciprocal DEF hue_dash, SFP_11_20!MULT, SFP_11_20!ShiftedRight
<1>2. h1 \in Nat /\ h1 =< 11520
  BY ColourFields, SMT
<1> HIDE DEF h1
<1> QED
  BY <1>1, <1>2, SMT

\* The remainder of a sum of two sextants.
LEMMA Remainder ==
    ASSUME NEW x \in Nat
    PROVE  SFP_11_20!MOD_2(x) \in Nat /\ SFP_11_20!MOD_2(x) < 2097152
<1>1. SFP_11_20!ONE = 1048576
  BY One DEF SFP_11_20_ONE
<1>2. SFP_11_20!MOD_2(x) = x - (x \div 2097152) * 2097152
  BY <1>1, SMT DEF SFP_11_20!MOD_2, SFP_11_20!Truncated
<1> QED
  BY <1>2, SMT

\* X, as the code calls it, is not greater than chroma.
LEMMA Intermediate ==
    ASSUME NEW c \in ValidColour
    PROVE  X(c) \in Nat /\ X(c) =< chroma(c)
<1> DEFINE r == SFP_11_20!MOD_2(hue_dash(c))
           v == SFP_11_20_ONE - Distance(r, SFP_11_20_ONE)
<1>1. r \in Nat /\ r < 2097152
  BY HueDash, Remainder
<1>2. v \in Unit
  <2> HIDE DEF r
  <2> QED
    BY <1>1, One, SMT DEF Distance, Unit
<1> HIDE DEF v
<1>3. X(c) = SFP_11_20!MULT(chroma(c), v, 5, 5)
  BY DEF X, v
<1> QED
  BY <1>2, <1>3, Chroma, UnitProduct

\* The hue divided by 60, rounded down, is one of six sextants.
LEMMA Sextant ==
    ASSUME NEW c \in ValidColour
    PROVE  hdi(c) \in 0 .. 5
<1>1. SFP_11_20!ONE = 1048576
  BY One DEF SFP_11_20_ONE
<1>2. hdi(c) = hue_dash(c) \div 1048576
  BY <1>1, HueDash, SMT DEF hdi, SFP_11_20!TO_INT, SFP_11_20!Truncated
<1> QED
  BY <1>2, HueDash, SMT

\* A colour in the asserted ranges passes all later assertions.
LEMMA AssertionsPass ==
    ASSUME NEW c \in ValidColour
    PROVE  AssertsHold(c)
<1>1. 0 =< c.h /\ SFP_11_20!Truncated(c.h, 360) =< SFP_11_20_ONE
  BY ColourFields, One, SMT DEF SFP_11_20!Truncated
<1>2. InUnit(c.s) /\ InUnit(c.l)
  BY ColourFields, One, SMT DEF InUnit
<1>3. InUnit(chroma(c)) /\ InUnit(X(c))
  BY Chroma, Intermediate, One, SMT DEF InUnit, Unit
<1>4. 0 =< hue_dash(c) /\ hue_dash(c) =< 6 * SFP_11_20_ONE
  BY HueDash, One, SMT
<1> QED
  BY <1>1, <1>2, <1>3, <1>4, Sextant DEF AssertsHold

-----------------------------------------------------------------------------

\* Red, green and blue before m is added are at most the chroma.
LEMMA Components ==
    ASSUME NEW c \in ValidColour, NEW i \in 1 .. 3
    PROVE  RGB_1(c)[i] \in Nat /\ RGB_1(c)[i] =< chroma(c)
<1> DEFINE Bounded(n) == n \in Nat /\ n =< chroma(c)
<1>1. Bounded(0) /\ Bounded(chroma(c)) /\ Bounded(X(c))
  BY Chroma, Intermediate, SMT DEF Unit
<1> HIDE DEF Bounded
<1>2. Bounded(RGB_1(c)[i])
  <2>1. i = 1 \/ i = 2 \/ i = 3
    BY SMT
  <2> QED
    BY <1>1, <2>1 DEF RGB_1
<1> QED
  BY <1>2 DEF Bounded

\* The digits before the point are an integer.
LEMMA Integer == \A n \in Int : SFP_11_20!TO_INT(n) \in Int
<1>1. SFP_11_20!ONE = 1048576
  BY One DEF SFP_11_20_ONE
<1> QED
  BY <1>1, SMT DEF SFP_11_20!TO_INT, SFP_11_20!Truncated

\* What is added brings them to at least 0, and at most 1.
LEMMA ResultsInRange ==
    ASSUME NEW c \in ValidColour, NEW i \in 1 .. 3
    PROVE  LET r == Scaled(RGB_1(c), m(c, chroma(c)))[i]
           IN  r \in Nat /\ r =< 255
<1> DEFINE C == chroma(c)  k == RGB_1(c)[i]  lift == m(c, chroma(c))
<1>1. k \in Nat /\ k =< C /\ C \in Nat /\ C =< 2 * c.l
        /\ C =< 2 * (1048576 - c.l) /\ c.l \in Nat
  BY Components, Chroma, ColourFields DEF Unit
<1>2. lift = c.l - C \div 2
  BY DEF m
<1> HIDE DEF C, k, lift
<1>3. k + lift \in Nat /\ k + lift =< 1048576
  BY <1>1, <1>2, SMT
<1>4. SFP_11_20!ONE = 1048576
  BY One DEF SFP_11_20_ONE
<1> DEFINE n == (k + lift) * 255
<1>5. n \in Nat /\ n =< 267386880
  BY <1>3, SMT
<1> HIDE DEF n
<1>6. SFP_11_20!TO_INT(n) = n \div 1048576
  BY <1>4, <1>5, SMT DEF SFP_11_20!TO_INT, SFP_11_20!Truncated
<1>7. Scaled(RGB_1(c), m(c, chroma(c)))[i] = SFP_11_20!TO_INT(n)
  BY DEF Scaled, k, lift, n
<1> QED
  BY <1>5, <1>6, <1>7, SMT

-----------------------------------------------------------------------------
(* The accuracy of the conversion: an error bound for each step of it, in   *)
(* units of 1/1048576, and for the reference.                               *)

\* A product of two numbers from 0 to 1, as the colours are computed with, is
\* exact up to what the shifts drop.
LEMMA UnitProductIsNear ==
    ASSUME NEW a \in Unit, NEW b \in Unit
    PROVE  Distance(a * b, 1048576 * SFP_11_20!MULT(a, b, 5, 5)) <= 64 * 1048576
<1> DEFINE q == ((a \div 32) * (b \div 32)) \div 1024
<1>1. SFP_11_20!MULT(a, b, 5, 5) = q
  BY Powers DEF SFP_11_20!MULT, SFP_11_20!ShiftedRight
<1>2. a \in Nat /\ b \in Nat /\ a =< 1048576 /\ b =< 1048576
  BY One, SMT DEF Unit
<1>3. q \in Int
  BY <1>2, SMT
<1>4. Distance(a * b, 1048576 * q)
        <= Distance(a, 0) * 31 + Distance(b, 0) * 31 + 31 * 31 + 1048576
  <2>1. LosesLittle(a, b, 32, 32, 1024)
    <3>1. a \in Int /\ b \in Int
      BY <1>2
    <3>2. 32 \in Nat /\ 1024 \in Nat /\ 32 > 0 /\ 1024 > 0
      OBVIOUS
    <3>3. ASSUME NEW P \in Nat, NEW R \in Nat, P = 32, R = 1024
          PROVE  LosesLittle(a, b, P, P, R)
      <4>1. P > 0 /\ R > 0
        BY <3>3
      <4> QED
        BY <3>1, <4>1, ShiftedProduct, Zenon
    <3> QED
      BY <3>2, <3>3
  <2> HIDE DEF q
  <2> QED
    BY <1>2, <1>3, <2>1, SMT DEF LosesLittle, Distance, q
<1>5. Distance(a, 0) = a /\ Distance(b, 0) = b
  BY <1>2, SMT DEF Distance
<1> HIDE DEF q
<1> DEFINE d == Distance(a * b, 1048576 * q)
<1>6. d <= a * 31 + b * 31 + 31 * 31 + 1048576
  BY <1>4, <1>5
<1> HIDE DEF d
<1>7. a * 31 + b * 31 + 31 * 31 + 1048576 <= 64 * 1048576
  BY <1>2, SMT
<1>8. d \in Int
  <2>1. q \in Int
    BY <1>2, SMT DEF q
  <2> QED
    BY <1>2, <2>1 DEF d, Distance
<1>9. d <= 64 * 1048576
  BY <1>2, <1>6, <1>7, <1>8, SMT
<1> QED
  BY <1>1, <1>9 DEF d

\* The hue in sextants is near the one in the parts of the reference, of which
\* 2048 make a sextant.
HueNear(hd, K) == hd - 512 * K <= 1200 /\ 512 * K - hd <= 1200

\* The hue is rounded, twice, by less than that.
LEMMA HueParts ==
    ASSUME NEW c \in ValidColour
    PROVE  /\ c.h \div 30720 \in Nat /\ c.h \div 30720 <= 12288
           /\ HueNear(hue_dash(c), c.h \div 30720)
<1> DEFINE h1 == c.h \div 32768
           K == c.h \div 30720
           hd == (h1 * 17476) \div 32
<1>1. hue_dash(c) = hd
  <2>1. 17476 \div 1 = 17476
    BY SMT
  <2> QED
    BY <2>1, Powers, Reciprocal DEF hue_dash, SFP_11_20!MULT, SFP_11_20!ShiftedRight
<1>2. c.h \in Nat /\ c.h =< 377487719
  BY ColourFields
<1>3. /\ h1 \in Nat /\ 32768 * h1 <= c.h /\ c.h < 32768 * (h1 + 1)
      /\ K \in Nat /\ 30720 * K <= c.h /\ c.h < 30720 * (K + 1)
  BY <1>2, SMT
<1> HIDE DEF h1, K
<1>4. hd \in Nat /\ 32 * hd <= 17476 * h1 /\ 17476 * h1 < 32 * hd + 32
  BY <1>3, SMT
<1> HIDE DEF hd
<1>5. K <= 12288
  BY <1>2, <1>3, SMT
<1>6. hd - 512 * K <= 1200 /\ 512 * K - hd <= 1200
  BY <1>2, <1>3, <1>4, SMT
<1> QED
  BY <1>1, <1>3, <1>5, <1>6, SMT DEF HueNear, K

\* The part of chroma that a component has, by the sextant of the hue.
RedShare(hd) ==
    IF hd < 1048576 \/ 5242880 <= hd THEN 1048576
    ELSE IF hd < 2097152 THEN 2097152 - hd
    ELSE IF 4194304 <= hd THEN hd - 4194304
    ELSE 0

GreenShare(hd) ==
    IF hd < 1048576 THEN hd
    ELSE IF hd < 3145728 THEN 1048576
    ELSE IF hd < 4194304 THEN 4194304 - hd
    ELSE 0

BlueShare(hd) ==
    IF hd < 2097152 THEN 0
    ELSE IF hd < 3145728 THEN hd - 2097152
    ELSE IF hd < 5242880 THEN 1048576
    ELSE 6291456 - hd

Share(hd, i) == IF i = 1 THEN RedShare(hd)
                ELSE IF i = 2 THEN GreenShare(hd) ELSE BlueShare(hd)

\* What number the reference gives to red, green and blue.
Sector(i) == IF i = 1 THEN 0 ELSE IF i = 2 THEN 8 ELSE 4

\* The slope where the hue is in part k, of 1024 to a sector.
Top(k) ==
    IF k <= 2048 THEN -1024
    ELSE IF k <= 4096 THEN k - 3072
    ELSE IF k <= 8192 THEN 1024
    ELSE IF k <= 10240 THEN 9216 - k
    ELSE -1024

\* The slopes of red, green and blue, for a hue in part K.
SlopesAre(h, K) ==
    /\ Slope(h, 0) = Top(IF K = 12288 THEN 0 ELSE K)
    /\ Slope(h, 8) = Top(IF K < 4096 THEN K + 8192 ELSE K - 4096)
    /\ Slope(h, 4) = Top(IF K < 8192 THEN K + 4096 ELSE K - 8192)

\* The hue of the reference starts again at green, and at blue.
LEMMA SlopeOfParts ==
    ASSUME NEW h \in Nat, NEW K \in Nat, K <= 12288, K = h \div 30720
    PROVE  SlopesAre(h, K)
<1> DEFINE SlopeAt(k) ==
               LET top == Least(Least(k - 3 * 1024, 9 * 1024 - k), 1024)
               IN  IF top < -1024 THEN -1024 ELSE top
<1>1. ASSUME NEW k \in Nat, k < 12288 PROVE SlopeAt(k) = Top(k)
  BY SMT DEF Least, Top
<1>2. \A n : Slope(h, n) = SlopeAt((n * 1024 + h \div (30 * 1024)) % (12 * 1024))
  BY DEF Slope
<1> HIDE DEF SlopeAt
<1>3. h \div (30 * 1024) = K /\ 12 * 1024 = 12288
  BY SMT
<1>4. ASSUME NEW n \in {0, 4, 8}, NEW k \in Nat, k < 12288,
             (n * 1024 + K) % 12288 = k
      PROVE  Slope(h, n) = Top(k)
  <2>1. Slope(h, n) = SlopeAt((n * 1024 + K) % 12288)
    BY <1>2, <1>3
  <2> QED
    BY <1>1, <1>4, <2>1
<1>5. /\ (0 * 1024 + K) % 12288 = IF K = 12288 THEN 0 ELSE K
      /\ (8 * 1024 + K) % 12288 = IF K < 4096 THEN K + 8192 ELSE K - 4096
      /\ (4 * 1024 + K) % 12288 = IF K < 8192 THEN K + 4096 ELSE K - 8192
  <2>1. \A x \in Nat : x < 24576 => x % 12288 = IF x < 12288 THEN x ELSE x - 12288
    BY SMT
  <2>2. /\ 0 * 1024 + K = K
        /\ 8 * 1024 + K = 8192 + K
        /\ 4 * 1024 + K = 4096 + K
    BY SMT
  <2> QED
    BY <2>1, <2>2, SMT
<1>6. ASSUME NEW n \in {0, 4, 8}, NEW k, k = (n * 1024 + K) % 12288,
             k = IF n = 0 THEN (IF K = 12288 THEN 0 ELSE K)
                 ELSE IF n = 8 THEN (IF K < 4096 THEN K + 8192 ELSE K - 4096)
                 ELSE (IF K < 8192 THEN K + 4096 ELSE K - 8192)
      PROVE  Slope(h, n) = Top(k)
  <2>1. k \in Nat /\ k < 12288
    BY <1>6, SMT
  <2> QED
    BY <1>4, <1>6, <2>1
<1> QED
  BY <1>5, <1>6 DEF SlopesAre

\* A component has the share that the slope says it should have, but for the
\* rounding of the hue: it is what the share falls short of the half, doubled.
Follows(share, top) ==
    /\ share \in Nat /\ share <= 1048576
    /\ top \in Int /\ -1024 <= top /\ top <= 1024
    /\ Distance(2 * share - 1048576, -(1024 * top)) <= 2400

\* This holds of red, ...
LEMMA RedFollows ==
    ASSUME NEW hd \in Nat, hd <= 6291360, NEW K \in Nat, K <= 12288,
           HueNear(hd, K)
    PROVE  Follows(RedShare(hd), Top(IF K = 12288 THEN 0 ELSE K))
<1> DEFINE share == RedShare(hd)
           top == Top(IF K = 12288 THEN 0 ELSE K)
<1>1. \/ share = 1048576 /\ hd < 1048576
      \/ share = 2097152 - hd /\ 1048576 <= hd /\ hd < 2097152
      \/ share = 0 /\ 2097152 <= hd /\ hd < 4194304
      \/ share = hd - 4194304 /\ 4194304 <= hd /\ hd < 5242880
      \/ share = 1048576 /\ 5242880 <= hd
  BY SMT DEF RedShare
<1>2. \/ top = -1024 /\ K <= 2048
      \/ top = K - 3072 /\ 2048 < K /\ K <= 4096
      \/ top = 1024 /\ 4096 < K /\ K <= 8192
      \/ top = 9216 - K /\ 8192 < K /\ K <= 10240
      \/ top = -1024 /\ 10240 < K
  BY SMT DEF Top
<1> HIDE DEF share, top
<1>3. share \in Nat /\ share <= 1048576 /\ top \in Int /\ -1024 <= top /\ top <= 1024
  BY <1>1, <1>2, SMT
<1>4. /\ 2 * share - 1048576 + 1024 * top <= 2400
      /\ -(2 * share - 1048576 + 1024 * top) <= 2400
  BY <1>1, <1>2, SMT DEF HueNear
<1>5. Follows(share, top)
  BY <1>3, <1>4, SMT DEF Follows, Distance
<1> QED
  BY <1>5 DEF share, top

\* ... of green ...
LEMMA GreenFollows ==
    ASSUME NEW hd \in Nat, hd <= 6291360, NEW K \in Nat, K <= 12288,
           HueNear(hd, K)
    PROVE  Follows(GreenShare(hd), Top(IF K < 4096 THEN K + 8192 ELSE K - 4096))
<1> DEFINE share == GreenShare(hd)
           top == Top(IF K < 4096 THEN K + 8192 ELSE K - 4096)
<1>1. \/ share = hd /\ hd < 1048576
      \/ share = 1048576 /\ 1048576 <= hd /\ hd < 3145728
      \/ share = 4194304 - hd /\ 3145728 <= hd /\ hd < 4194304
      \/ share = 0 /\ 4194304 <= hd
  BY SMT DEF GreenShare
<1>2. \/ top = 1024 - K /\ K <= 2048
      \/ top = -1024 /\ 2048 < K /\ K <= 6144
      \/ top = K - 7168 /\ 6144 < K /\ K <= 8192
      \/ top = 1024 /\ 8192 < K
  BY SMT DEF Top
<1> HIDE DEF share, top
<1>3. share \in Nat /\ share <= 1048576 /\ top \in Int /\ -1024 <= top /\ top <= 1024
  BY <1>1, <1>2, SMT
<1>4. /\ 2 * share - 1048576 + 1024 * top <= 2400
      /\ -(2 * share - 1048576 + 1024 * top) <= 2400
  BY <1>1, <1>2, SMT DEF HueNear
<1>5. Follows(share, top)
  BY <1>3, <1>4, SMT DEF Follows, Distance
<1> QED
  BY <1>5 DEF share, top

\* ... and of blue.
LEMMA BlueFollows ==
    ASSUME NEW hd \in Nat, hd <= 6291360, NEW K \in Nat, K <= 12288,
           HueNear(hd, K)
    PROVE  Follows(BlueShare(hd), Top(IF K < 8192 THEN K + 4096 ELSE K - 8192))
<1> DEFINE share == BlueShare(hd)
           top == Top(IF K < 8192 THEN K + 4096 ELSE K - 8192)
<1>1. \/ share = 0 /\ hd < 2097152
      \/ share = hd - 2097152 /\ 2097152 <= hd /\ hd < 3145728
      \/ share = 1048576 /\ 3145728 <= hd /\ hd < 5242880
      \/ share = 6291456 - hd /\ 5242880 <= hd
  BY SMT DEF BlueShare
<1>2. \/ top = 1024 /\ K <= 4096
      \/ top = 5120 - K /\ 4096 < K /\ K <= 6144
      \/ top = -1024 /\ 6144 < K /\ K <= 10240
      \/ top = K - 11264 /\ 10240 < K
  BY SMT DEF Top
<1> HIDE DEF share, top
<1>3. share \in Nat /\ share <= 1048576 /\ top \in Int /\ -1024 <= top /\ top <= 1024
  BY <1>1, <1>2, SMT
<1>4. /\ 2 * share - 1048576 + 1024 * top <= 2400
      /\ -(2 * share - 1048576 + 1024 * top) <= 2400
  BY <1>1, <1>2, SMT DEF HueNear
<1>5. Follows(share, top)
  BY <1>3, <1>4, SMT DEF Follows, Distance
<1> QED
  BY <1>5 DEF share, top

\* Each component of a colour follows the slope.
LEMMA SharesFollowSlopes ==
    ASSUME NEW c \in ValidColour, NEW i \in 1 .. 3
    PROVE  Follows(Share(hue_dash(c), i), Slope(c.h, Sector(i)))
<1> DEFINE hd == hue_dash(c)
           K == c.h \div 30720
<1>1. K \in Nat /\ K <= 12288 /\ HueNear(hd, K)
  BY HueParts
<1>2. SlopesAre(c.h, K)
  BY <1>1, ColourFields, SlopeOfParts
<1>3. hd \in Nat /\ hd <= 6291360
  BY HueDash, SMT
<1> HIDE DEF K, hd
<1>4. /\ Follows(RedShare(hd), Slope(c.h, 0))
      /\ Follows(GreenShare(hd), Slope(c.h, 8))
      /\ Follows(BlueShare(hd), Slope(c.h, 4))
  BY <1>1, <1>2, <1>3, RedFollows, GreenFollows, BlueFollows DEF SlopesAre
<1>5. Follows(Share(hd, i), Slope(c.h, Sector(i)))
  BY <1>4 DEF Share, Sector
<1> QED
  BY <1>5 DEF hd

\* Each component is its share of chroma: all of it, what X is of it, or none.
LEMMA ComponentsAreShares ==
    ASSUME NEW c \in ValidColour, NEW i \in 1 .. 3
    PROVE  Distance(chroma(c) * Share(hue_dash(c), i), 1048576 * RGB_1(c)[i])
             <= 64 * 1048576
<1> DEFINE hd == hue_dash(c)
           C == chroma(c)
           w == SFP_11_20_ONE - Distance(SFP_11_20!MOD_2(hd), SFP_11_20_ONE)
           Near(share, r) == Distance(C * share, 1048576 * r) <= 64 * 1048576
<1>1. C \in Unit /\ C \in Nat
  BY Chroma DEF Unit
<1>2. hd \in Nat /\ hd <= 6291360
  BY HueDash
<1>3. Near(0, 0) /\ Near(1048576, C)
  <2> HIDE DEF C
  <2> QED
    BY <1>1, SMT DEF Distance
<1>4. w \in Unit /\ Near(w, X(c))
  <2>1. w \in Unit
    <3>1. SFP_11_20!MOD_2(hd) \in Nat /\ SFP_11_20!MOD_2(hd) < 2097152
      BY <1>2, Remainder
    <3> QED
      BY <3>1, One, SMT DEF Distance, Unit
  <2>2. X(c) = SFP_11_20!MULT(C, w, 5, 5)
    BY DEF X
  <2> HIDE DEF w, C
  <2> QED
    BY <1>1, <2>1, <2>2, UnitProductIsNear
<1>5. hdi(c) = hd \div 1048576
  <2>1. SFP_11_20!ONE = 1048576
    BY One DEF SFP_11_20_ONE
  <2> QED
    BY <1>2, <2>1, SMT DEF hdi, SFP_11_20!TO_INT, SFP_11_20!Truncated
<1>6. SFP_11_20!MOD_2(hd) = hd - (hd \div 2097152) * 2097152
  <2>1. SFP_11_20!ONE = 1048576
    BY One DEF SFP_11_20_ONE
  <2> HIDE DEF hd
  <2> QED
    BY <1>2, <2>1, SMT DEF SFP_11_20!MOD_2, SFP_11_20!Truncated
<1>7. \/ hdi(c) = 0 /\ w = hd /\ hd < 1048576
      \/ hdi(c) = 1 /\ w = 2097152 - hd /\ 1048576 <= hd /\ hd < 2097152
      \/ hdi(c) = 2 /\ w = hd - 2097152 /\ 2097152 <= hd /\ hd < 3145728
      \/ hdi(c) = 3 /\ w = 4194304 - hd /\ 3145728 <= hd /\ hd < 4194304
      \/ hdi(c) = 4 /\ w = hd - 4194304 /\ 4194304 <= hd /\ hd < 5242880
      \/ hdi(c) = 5 /\ w = 6291456 - hd /\ 5242880 <= hd
  <2> HIDE DEF hd
  <2> QED
    BY <1>2, <1>5, <1>6, One, SMT DEF Distance
<1>8. RGB_1(c) = CASE hdi(c) = 0 -> <<C, X(c), 0>>
                   [] hdi(c) = 1 -> <<X(c), C, 0>>
                   [] hdi(c) = 2 -> <<0, C, X(c)>>
                   [] hdi(c) = 3 -> <<0, X(c), C>>
                   [] hdi(c) = 4 -> <<X(c), 0, C>>
                   [] OTHER      -> <<C, 0, X(c)>>
  BY DEF RGB_1
<1>9. i = 1 \/ i = 2 \/ i = 3
  OBVIOUS
<1> DEFINE r == RGB_1(c)[i]
           share == Share(hd, i)
<1>10. \/ r = 0 /\ share = 0
       \/ r = C /\ share = 1048576
       \/ r = X(c) /\ share = w
  <2> HIDE DEF hd, C, w
  <2>1. CASE hdi(c) = 0
    <3>1. RGB_1(c) = <<C, X(c), 0>>
      BY <1>8, <2>1
    <3>2. w = hd /\ hd < 1048576
      BY <1>7, <2>1
    <3> QED
      BY <1>2, <1>9, <3>1, <3>2 DEF Share, RedShare, GreenShare, BlueShare
  <2>2. CASE hdi(c) = 1
    <3>1. RGB_1(c) = <<X(c), C, 0>>
      BY <1>8, <2>2
    <3>2. w = 2097152 - hd /\ 1048576 <= hd /\ hd < 2097152
      BY <1>7, <2>2
    <3> QED
      BY <1>2, <1>9, <3>1, <3>2 DEF Share, RedShare, GreenShare, BlueShare
  <2>3. CASE hdi(c) = 2
    <3>1. RGB_1(c) = <<0, C, X(c)>>
      BY <1>8, <2>3
    <3>2. w = hd - 2097152 /\ 2097152 <= hd /\ hd < 3145728
      BY <1>7, <2>3
    <3> QED
      BY <1>2, <1>9, <3>1, <3>2 DEF Share, RedShare, GreenShare, BlueShare
  <2>4. CASE hdi(c) = 3
    <3>1. RGB_1(c) = <<0, X(c), C>>
      BY <1>8, <2>4
    <3>2. w = 4194304 - hd /\ 3145728 <= hd /\ hd < 4194304
      BY <1>7, <2>4
    <3> QED
      BY <1>2, <1>9, <3>1, <3>2 DEF Share, RedShare, GreenShare, BlueShare
  <2>5. CASE hdi(c) = 4
    <3>1. RGB_1(c) = <<X(c), 0, C>>
      BY <1>8, <2>5
    <3>2. w = hd - 4194304 /\ 4194304 <= hd /\ hd < 5242880
      BY <1>7, <2>5
    <3> QED
      BY <1>2, <1>9, <3>1, <3>2 DEF Share, RedShare, GreenShare, BlueShare
  <2>6. CASE hdi(c) = 5
    <3>1. RGB_1(c) = <<C, 0, X(c)>>
      BY <1>8, <2>6
    <3>2. w = 6291456 - hd /\ 5242880 <= hd
      BY <1>7, <2>6
    <3> QED
      BY <1>2, <1>9, <3>1, <3>2 DEF Share, RedShare, GreenShare, BlueShare
  <2> QED
    BY <1>7, <2>1, <2>2, <2>3, <2>4, <2>5, <2>6
<1> HIDE DEF hd, C, w, share, Near
<1>11. Near(share, r)
  BY <1>3, <1>4, <1>10
<1> QED
  BY <1>11 DEF Near, share, C, hd

\* Chroma is twice the amplitude of the reference, in other units.
LEMMA AmplitudeIsHalfOfChroma ==
    ASSUME NEW c \in ValidColour
    PROVE  /\ Amplitude(c) \in Nat
           /\ Distance(chroma(c), 512 * Amplitude(c)) <= 1400
<1> DEFINE S == c.s
           s == c.s \div 256
           v == SFP_11_20_ONE - Distance(2 * c.l, SFP_11_20_ONE)
           q == Least(c.l \div 256, 4096 - c.l \div 256)
           a == (s * q) \div 4096
           C == chroma(c)
<1>1. c.s \in Unit /\ c.s \in Nat /\ c.s <= 1048576 /\ c.l \in Nat /\ c.l <= 1048576
  BY ColourFields
<1>2. /\ v \in Unit /\ v \in Nat
      /\ q \in Nat /\ q <= 2048 /\ v - 512 * q <= 512 /\ 512 * q - v <= 512
  BY <1>1, One, SMT DEF Distance, Unit, Least
<1>3. S \in Nat /\ S <= 1048576 /\ s \in Nat /\ s <= 4096
      /\ 0 <= S - 256 * s /\ S - 256 * s <= 255
  BY <1>1, SMT
<1>4. Amplitude(c) = a
  BY DEF Amplitude
<1>5. C = SFP_11_20!MULT(v, S, 5, 5)
  BY DEF chroma
<1>6. C \in Nat
  BY Chroma DEF Unit
<1>7. S \in Unit
  BY <1>1
<1> HIDE DEF S, s, v, q, C
<1>8. v * S - 1048576 * C <= 64 * 1048576 /\ 1048576 * C - v * S <= 64 * 1048576
  <2>1. Distance(v * S, 1048576 * C) <= 64 * 1048576
    BY <1>2, <1>5, <1>7, UnitProductIsNear
  <2>2. v * S \in Int
    BY <1>2, <1>3
  <2> QED
    BY <1>6, <2>1, <2>2, SMT DEF Distance
<1>9. a \in Nat /\ 0 <= s * q - 4096 * a /\ s * q - 4096 * a <= 4095
  <2>1. s * q \in Nat
    BY <1>2, <1>3, SMT
  <2> DEFINE n == s * q
  <2> HIDE DEF n
  <2>2. n \in Nat
    BY <2>1 DEF n
  <2>3. n \div 4096 \in Nat /\ 0 <= n - 4096 * (n \div 4096)
        /\ n - 4096 * (n \div 4096) <= 4095
    BY <2>2, SMT
  <2> QED
    BY <2>3 DEF n
<1> HIDE DEF a
<1> DEFINE dv == v - 512 * q
           ds == S - 256 * s
           da == s * q - 4096 * a
<1>10. /\ dv \in Int /\ -512 <= dv /\ dv <= 512
       /\ ds \in Nat /\ ds <= 255 /\ da \in Nat /\ da <= 4095
  BY <1>2, <1>3, <1>9
<1>11. v * S = dv * S + 512 * (q * ds) + 131072 * da + 536870912 * a
  <2>1. v * S = dv * S + (512 * q) * S
    BY <1>2, <1>3, <1>10, SMT
  <2>2. (512 * q) * S = 512 * (q * ds) + (512 * 256) * (q * s)
    BY <1>2, <1>3, <1>10, SMT
  <2>3. q * s = da + 4096 * a
    BY <1>2, <1>3, <1>9, SMT
  <2>4. q * s \in Int /\ dv * S \in Int /\ q * ds \in Int
    BY <1>2, <1>3, <1>10
  <2> HIDE DEF dv, ds, da
  <2> QED
    BY <1>9, <1>10, <2>1, <2>2, <2>3, <2>4, SMT
<1> HIDE DEF dv, ds, da
<1>12. dv * S <= 512 * 1048576 /\ -(512 * 1048576) <= dv * S
  <2>1. dv * S <= 512 * S /\ -(512 * S) <= dv * S
    BY <1>3, <1>10, SMT
  <2> QED
    BY <1>3, <1>10, <2>1, SMT
<1>13. 0 <= q * ds /\ q * ds <= 2048 * 255
  <2>1. 0 <= q * ds /\ q * ds <= q * 255
    BY <1>2, <1>10, SMT
  <2> QED
    BY <1>2, <1>10, <2>1, SMT
<1>14. dv * S \in Int /\ q * ds \in Int /\ v * S \in Int
  BY <1>2, <1>3, <1>10
<1>15. C - 512 * a <= 1400 /\ 512 * a - C <= 1400
  <2> DEFINE x == dv * S
             y == q * ds
             z == v * S
  <2>1. /\ x \in Int /\ y \in Int /\ z \in Int
        /\ x <= 512 * 1048576 /\ -(512 * 1048576) <= x
        /\ 0 <= y /\ y <= 2048 * 255
        /\ z = x + 512 * y + 131072 * da + 536870912 * a
        /\ z - 1048576 * C <= 64 * 1048576 /\ 1048576 * C - z <= 64 * 1048576
    BY <1>8, <1>11, <1>12, <1>13, <1>14
  <2> HIDE DEF x, y, z
  <2> QED
    BY <1>6, <1>9, <1>10, <2>1, SMT
<1> QED
  BY <1>4, <1>6, <1>9, <1>15, SMT DEF Distance, C

\* The product of bounded factors.
LEMMA BoundedFactors ==
    ASSUME NEW x \in Int, NEW y \in Int, NEW a \in Nat, NEW b \in Nat,
           -a <= x, x <= a, -b <= y, y <= b
    PROVE  x * y <= a * b /\ -(a * b) <= x * y
<1>1. /\ (a - x) * (b + y) >= 0 /\ (a + x) * (b - y) >= 0
      /\ (a - x) * (b - y) >= 0 /\ (a + x) * (b + y) >= 0
  <2>1. \A u, v \in Int : u >= 0 /\ v >= 0 => u * v >= 0
    BY SMT
  <2> QED
    BY <2>1, SMT
<1> QED
  BY <1>1, SMT

\* A component, before it is scaled to a byte, is close to the reference's:
\* by a good half of what makes a difference of one.
LEMMA ComponentsAreNear ==
    ASSUME NEW c \in ValidColour, NEW i \in 1 .. 3
    PROVE  /\ RGB_1(c)[i] + m(c, chroma(c)) \in Nat
           /\ RGB_1(c)[i] + m(c, chroma(c)) <= 1048576
           /\ Amplitude(c) * Slope(c.h, Sector(i)) \in Int
           /\ Distance(4 * (RGB_1(c)[i] + m(c, chroma(c))),
                       (c.l \div 256) * 1024
                          - Amplitude(c) * Slope(c.h, Sector(i))) <= 16000
<1> DEFINE C == chroma(c)
           r == RGB_1(c)[i]
           a == Amplitude(c)
           top == Slope(c.h, Sector(i))
           share == Share(hue_dash(c), i)
           V == r + m(c, C)
           e == 2 * share - 1048576 + 1024 * top
           d == C - 512 * a
           z == 1048576 * r - C * share
<1>1. /\ c.l \in Nat /\ c.l <= 1048576
      /\ C \in Nat /\ C <= 2 * c.l /\ C <= 2 * (1048576 - c.l) /\ C <= 1048576
      /\ r \in Nat /\ r <= C
  BY Chroma, ColourFields, Components, One DEF Unit
<1>2. /\ share \in Nat /\ share <= 1048576
      /\ top \in Int /\ -1024 <= top /\ top <= 1024
      /\ e \in Int /\ -2400 <= e /\ e <= 2400
  <2>1. Follows(share, top)
    BY SharesFollowSlopes
  <2> HIDE DEF share, top
  <2> QED
    BY <2>1, SMT DEF Follows, Distance
<1>3. a \in Nat /\ d \in Int /\ -1400 <= d /\ d <= 1400
  <2>1. a \in Nat /\ Distance(C, 512 * a) <= 1400
    BY AmplitudeIsHalfOfChroma
  <2> HIDE DEF a, C
  <2> QED
    BY <1>1, <2>1, SMT DEF Distance
<1>4. z <= 64 * 1048576 /\ -(64 * 1048576) <= z
  <2>1. Distance(C * share, 1048576 * r) <= 64 * 1048576
    BY ComponentsAreShares
  <2>2. C * share \in Int
    BY <1>1, <1>2
  <2> HIDE DEF C, share, r
  <2> QED
    BY <1>1, <2>1, <2>2, SMT DEF Distance
<1>5. V = r + c.l - C \div 2
  <2>1. m(c, C) = c.l - C \div 2
    BY DEF m
  <2> HIDE DEF C, r
  <2> QED
    BY <1>1, <2>1
<1> HIDE DEF C, r, a, top, share, V
<1>6. a * top \in Int /\ C * share \in Int /\ C * e \in Int /\ d * top \in Int
  BY <1>1, <1>2, <1>3
\* 4 r - 2 C + a * top, in units of one.
<1>7. 1048576 * (4 * r - 2 * C + a * top) = 4 * z + 2 * (C * e) - 2048 * (d * top)
  <2>1. 1048576 * r = z + C * share
    BY <1>1, <1>6
  <2>2. 2 * (C * share) = C * e + 1048576 * C - 1024 * (C * top)
    BY <1>1, <1>2, SMT
  <2>3. C * top = d * top + 512 * (a * top)
    BY <1>1, <1>2, <1>3, SMT
  <2>4. z \in Int /\ C * top \in Int
    BY <1>1, <1>2, <1>6
  <2> HIDE DEF z, e, d
  <2> QED
    BY <1>1, <1>6, <2>1, <2>2, <2>3, <2>4, SMT
<1>8. C * e <= 2400 * 1048576 /\ -(2400 * 1048576) <= C * e
  <2> HIDE DEF e
  <2> QED
    BY <1>1, <1>2, BoundedFactors
<1>9. d * top <= 1400 * 1024 /\ -(1400 * 1024) <= d * top
  <2> HIDE DEF d
  <2> QED
    BY <1>2, <1>3, BoundedFactors
<1>10. z \in Int
  BY <1>1, <1>6
<1> HIDE DEF z, e, d
<1>11. 4 * r - 2 * C + a * top <= 8000 /\ -8000 <= 4 * r - 2 * C + a * top
  <2> DEFINE u == a * top
             v == C * e
             w == d * top
  <2>1. /\ u \in Int /\ v \in Int /\ w \in Int
        /\ 1048576 * (4 * r - 2 * C + u) = 4 * z + 2 * v - 2048 * w
        /\ v <= 2400 * 1048576 /\ -(2400 * 1048576) <= v
        /\ w <= 1400 * 1024 /\ -(1400 * 1024) <= w
    BY <1>6, <1>7, <1>8, <1>9
  <2> HIDE DEF u, v, w
  <2>2. 4 * r - 2 * C + u <= 8000 /\ -8000 <= 4 * r - 2 * C + u
    BY <1>1, <1>4, <1>10, <2>1, SMT
  <2> QED
    BY <2>2 DEF u
<1>12. V \in Nat /\ V <= 1048576
  BY <1>1, <1>5, SMT
<1>13. Distance(4 * V, (c.l \div 256) * 1024 - a * top) <= 16000
  <2> DEFINE u == a * top
  <2>1. /\ u \in Int
        /\ 4 * r - 2 * C + u <= 8000 /\ -8000 <= 4 * r - 2 * C + u
    BY <1>6, <1>11
  <2> HIDE DEF u
  <2>2. Distance(4 * V, (c.l \div 256) * 1024 - u) <= 16000
    BY <1>1, <1>5, <2>1, SMT DEF Distance
  <2> QED
    BY <2>2 DEF u
<1> QED
  BY <1>6, <1>12, <1>13 DEF V, r, C, a, top

\* The conversion gives what the reference gives, within one of 255, for each
\* colour in the asserted ranges.
LEMMA EveryColourIsAccurate ==
    ASSUME NEW c \in ValidColour
    PROVE  NearReference(c, 1)
<1> DEFINE rgb == BSP_LED_RGB_from_HSL(c)
<1>1. ASSUME NEW i \in 1 .. 3
      PROVE  Distance(rgb[i], Reference(c, Sector(i))) <= 1
  <2> DEFINE V == RGB_1(c)[i] + m(c, chroma(c))
             W == (c.l \div 256) * 1024 - Amplitude(c) * Slope(c.h, Sector(i))
  <2>1. V \in Nat /\ V <= 1048576 /\ W \in Int /\ Distance(4 * V, W) <= 16000
    <3>1. (c.l \div 256) * 1024 \in Int
      BY ColourFields, SMT
    <3> QED
      BY <3>1, ComponentsAreNear
  <2>2. rgb[i] = SFP_11_20!TO_INT(V * 255) % 256
    BY DEF BSP_LED_RGB_from_HSL, Bytes, Scaled
  <2>3. Reference(c, Sector(i)) = (W * 255) \div (4096 * 1024)
    BY DEF Reference
  <2> HIDE DEF V, W, rgb
  <2>4. SFP_11_20!TO_INT(V * 255) = (V * 255) \div 1048576
    <3>1. SFP_11_20!ONE = 1048576
      BY One DEF SFP_11_20_ONE
    <3>2. V * 255 >= 0
      BY <2>1
    <3> QED
      BY <3>1, <3>2 DEF SFP_11_20!TO_INT, SFP_11_20!Truncated
  <2>5. rgb[i] = (V * 255) \div 1048576
    <3>1. (V * 255) \div 1048576 \in 0 .. 255
      BY <2>1, SMT
    <3> QED
      BY <2>2, <2>4, <3>1, SmallRemainders
  <2>6. Distance((V * 255) \div 1048576, (W * 255) \div (4096 * 1024)) <= 1
    <3>1. 4096 * 1024 = 4194304
      OBVIOUS
    <3>2. W - 4 * V <= 16000 /\ 4 * V - W <= 16000
      BY <2>1, SMT DEF Distance
    <3> QED
      BY <2>1, <3>1, <3>2, SMT DEF Distance
  <2> QED
    BY <2>3, <2>5, <2>6
<1>2. Sector(1) = 0 /\ Sector(2) = 8 /\ Sector(3) = 4
  BY DEF Sector
<1>3. 1 \in 1 .. 3 /\ 2 \in 1 .. 3 /\ 3 \in 1 .. 3
  OBVIOUS
<1>4. /\ Distance(rgb[1], Reference(c, 0)) <= 1
      /\ Distance(rgb[2], Reference(c, 8)) <= 1
      /\ Distance(rgb[3], Reference(c, 4)) <= 1
  <2> HIDE DEF rgb
  <2> QED
    BY <1>1, <1>2, <1>3, Zenon
<1> QED
  BY <1>4 DEF NearReference
=============================================================================
