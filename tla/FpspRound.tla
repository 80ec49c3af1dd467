------------------------------- MODULE FpspRound -------------------------------
(***************************************************************************)
(* The number formats of tb/mk_fpsp.py: the extended and double images of  *)
(* an exact value, and the generator's questions about them.  The widths   *)
(* (64 and 53 bits, 2^-10 ulp, bias 16383) are constants.                  *)
(*                                                                         *)
(* An exact value is an integer in units of the smallest denormal.         *)
(***************************************************************************)
EXTENDS Integers, FiniteSets

CONSTANTS Ext,    \* mantissa bits of an extended number (64)
          Dbl,    \* of a double (53)
          Guard,  \* "near" a midpoint is within 2^-Guard ulp (10)
          Bias    \* (16383)

ASSUME WidthsAssumption ==
  /\ {Ext, Dbl, Guard, Bias} \subseteq Nat \ {0}
  /\ Dbl < Ext /\ 1 < Dbl

Frac == Bias + Ext - 1     \* one is 2^Frac units
One == 2 ^ Frac

Abs(x) == IF x < 0 THEN -x ELSE x
Sign(x) == IF x < 0 THEN "-" ELSE "+"
Signed(s, m) == IF s = "-" THEN -m ELSE m
Distance(a, b) == Abs(a - b)

BitLength(m) == IF m = 0 THEN 0 ELSE CHOOSE n \in 1..m : 2 ^ (n - 1) <= m /\ m < 2 ^ n

\* Mutant of RoundNearest: a tie always rounds up.
RoundHalfUp(m, half) ==
  LET q == m \div (2 * half)
  IN  IF m % (2 * half) >= half THEN q + 1 ELSE q

\* m in units of 2 * half, to nearest, ties to even.
RoundNearest(m, half) ==
  LET q == m \div (2 * half)
      r == m % (2 * half)
  IN  IF r > half \/ (r = half /\ q % 2 = 1) THEN q + 1 ELSE q

\* |r / unit - 1/2| < 1 / slack.  Mutant: the distance to the other end.
NearMultiple(m, half, slack) == (m % (2 * half)) * slack < 2 * half
NearMidpoint(m, half, slack) == Distance(m % (2 * half), half) * slack < 2 * half

\* round_bits(): exactly `bits` bits and what was shifted out of the value.
RoundBits(x, bits) ==
  LET m == Abs(x)
      sh == BitLength(m) - bits
      up == RoundNearest(m, 2 ^ (sh - 1))
  IN  IF m = 0 THEN [m |-> 0, sh |-> 0]
      ELSE IF sh <= 0 THEN [m |-> m * 2 ^ (-sh), sh |-> sh]
      ELSE IF up = 2 ^ bits THEN [m |-> up \div 2, sh |-> sh + 1]
      ELSE [m |-> up, sh |-> sh]

\* to_ext(), to_dbl(): the exponent is in range by the generator's assertion.
Image(x, bits) ==
  LET b == RoundBits(x, bits)
  IN  IF b.m = 0 THEN <<Sign(x), 0, 0>>
      ELSE <<Sign(x), b.sh + (bits - 1) + Bias - Frac, b.m>>
ToExt(x) == Image(x, Ext)
ToDbl(x) == Image(x, Dbl)

Scale(m, k) == IF k >= 0 THEN m * 2 ^ k ELSE m \div 2 ^ (-k)

\* ext_val() and dbl_val().  Exponent field 0 is read as -Bias: the integer bit is
\* explicit.
ExtVal(b) == Signed(b[1], Scale(b[3], b[2] - Bias - (Ext - 1) + Frac))
DblVal(b) == Signed(b[1], Scale(b[3], b[2] - Bias - (Dbl - 1) + Frac))

\* near_mid(): only a value with more bits than the format has a midpoint near it.
NearMid(x, bits) ==
  LET m == Abs(x)
      sh == BitLength(m) - bits
  IN  m # 0 /\ sh > 0 /\ NearMidpoint(m, 2 ^ (sh - 1), 2 ^ Guard)

\* The position on the number line: the exponent and the mantissa without its
\* integer bit.  Mutant of Key: the integer bit stays.
KeyWithInteger(b) == b[2] * 2 ^ (Ext - 1) + b[3]
Key(b) == b[2] * 2 ^ (Ext - 1) + (b[3] % 2 ^ (Ext - 1))
Unkey(s, k) == <<s, k \div 2 ^ (Ext - 1), 2 ^ (Ext - 1) + (k % 2 ^ (Ext - 1))>>

\* ulp_dist(): images of different signs are further apart than any bound (2^80).
Far == 2 ^ (2 * Ext)
UlpDist(a, b) == IF a[1] = b[1] THEN Distance(Key(a), Key(b)) ELSE Far

\* cc_of(): N and Z.
Cc(x) == IF x = 0 THEN {"Z"} ELSE IF x < 0 THEN {"N"} ELSE {}

\* ftrunc() and frne() of the quotient of two exact values.
Trunc(n, d) ==
  LET q == Abs(n) \div Abs(d) IN IF (n < 0) = (d < 0) THEN q ELSE -q
NearestInt(n, d) ==
  LET q == RoundNearest(2 * Abs(n), Abs(d)) IN IF (n < 0) = (d < 0) THEN q ELSE -q

-------------------------------------------------------------------------------
\* What the generator relies on, for one exact value x.

Ulp(x, bits) == 2 ^ (BitLength(Abs(x)) - bits)
Representable(v, bits) == v # 0 /\ (Abs(v) < 2 ^ bits \/ Abs(v) % Ulp(v, bits) = 0)

\* No value of the format is nearer to x than its image, and of two at the same
\* distance the image is the even one (mk_fpsp.py:62-106, "RNE").
Nearest(x, bits, image, value) ==
  LET d == Distance(value, x)
      other == x - (value - x)
  IN  /\ Representable(value, bits)
      /\ \A v \in x - d + 1..x + d - 1 : ~Representable(v, bits)
      /\ other # value /\ Representable(other, bits) => image[3] % 2 = 0

RoundsRight(x) ==
  /\ Nearest(x, Ext, ToExt(x), ExtVal(ToExt(x)))
  /\ Nearest(x, Dbl, ToDbl(x), DblVal(ToDbl(x)))

\* A result within the FPSP's documented bound of x is stored as the double nearest
\* to x, whichever way it errs and across a binade, unless the generator leaves x
\* out of pass B (mk_fpsp.py:24-30, 109-119).
Within(d, x) == d * 2 ^ Guard < Ulp(x, Dbl)
Decided(x) ==
  ~NearMid(x, Dbl) =>
    \A d \in {e \in 0..Abs(x) : Within(e, x)} :
      ToDbl(x - d) = ToDbl(x) /\ ToDbl(x + d) = ToDbl(x)

\* The distance of two images is the number of steps from one to the other, also
\* into the next binade (mk_fpsp.py:276-280, tb_ap040_pipe_prog.v:402-405).
StepsRight(x, y) ==
  LET a == ExtVal(ToExt(x))
      b == ExtVal(ToExt(y))
  IN  a <= b => UlpDist(ToExt(x), ToExt(y))
                  = Cardinality({v \in a + 1..b : Representable(v, Ext)})
===============================================================================
