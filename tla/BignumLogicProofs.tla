------------------------- MODULE BignumLogicProofs --------------------------
(***************************************************************************)
(* What is proved of BignumLogic, for any width of words and fixnums and   *)
(* any operands: the logical operations are exact except where they are    *)
(* known not to be, and what is proved of Bignums holds with them among    *)
(* the calls.                                                              *)
(*                                                                         *)
(* The logical operations work on cells in two's complement, the statement *)
(* on bits without an end.  The bits of a number are the bits of its       *)
(* digits (BitsOfDigits), those beyond its cells copies of its sign        *)
(* (SignWords), and the loop over cells makes the digits of the result     *)
(* (LogicalExact).                                                         *)
(***************************************************************************)
EXTENDS BignumLogic, BignumsProofs

-----------------------------------------------------------------------------
(* Digits and bits of integers, negative ones too: those of the two's       *)
(* complement without an end.                                               *)

LEMMA DivDiv ==
    ASSUME NEW n \in Int, NEW d \in Nat, d > 0, NEW e \in Nat, e > 0
    PROVE  /\ d * e \in Nat /\ d * e > 0
           /\ n \div (d * e) = (n \div d) \div e
           /\ n % (d * e) = (n % d) + ((n \div d) % e) * d
<1> DEFINE q == n \div d
           r == n % d
           p == q \div e
           s == q % e
<1>1. q \in Int /\ r \in Nat /\ r < d /\ n = d * q + r
  BY DivMod
<1> HIDE DEF q, r
<1>2. p \in Int /\ s \in Nat /\ s < e /\ q = e * p + s
  BY <1>1, DivMod
<1> HIDE DEF p, s
<1>3. d * e \in Nat /\ d * e > 0
  OBVIOUS
<1> DEFINE w == d * e
           v == r + s * d
<1>4. n = w * p + v
  <2>1. d * (e * p + s) = w * p + s * d
    BY <1>2
  <2> QED BY <1>1, <1>2, <2>1
<1>5. v \in Nat /\ v < w
  <2>1. s * d \in Nat /\ (s + 1) * d = s * d + d
    BY <1>2
  <2>2. (s + 1) * d <= e * d
    <3>1. s + 1 <= e /\ s + 1 \in Nat
      BY <1>2
    <3> QED BY <3>1
  <2>3. e * d = w
    OBVIOUS
  <2> DEFINE sd == s * d
             s1 == (s + 1) * d
             ed == e * d
  <2>4. v = r + sd
    OBVIOUS
  <2> HIDE DEF v, w, sd, s1, ed
  <2> QED BY <1>1, <2>1, <2>2, <2>3, <2>4 DEF sd, s1, ed
<1> HIDE DEF v, w
<1>6. n \div w = p /\ n % w = v
  BY <1>2, <1>3, <1>4, <1>5, DivUnique DEF w
<1> QED BY <1>3, <1>6 DEF p, q, r, s, v, w

(* What is above does not matter to a digit.                                *)
Parts(w, u, r, t) ==
    /\ u \in Nat /\ u > 0 /\ r \in Nat /\ r > 0 /\ t \in Nat /\ t > 0
    /\ w = u * (r * t)

LEMMA LowPart ==
    ASSUME NEW n \in Int, NEW w, NEW u, NEW r, NEW t, Parts(w, u, r, t)
    PROVE  ((n % w) \div u) % r = (n \div u) % r
<1>0. /\ u \in Nat /\ u > 0 /\ r \in Nat /\ r > 0 /\ t \in Nat /\ t > 0
      /\ w = u * (r * t)
  BY DEF Parts
<1> DEFINE e == r * t
           m == n \div u
           y == n % u
           x == m % e
           z == (m \div r) % t
<1>1. e \in Nat /\ e > 0 /\ w = u * e
  BY <1>0, DivDiv
<1> HIDE DEF e
<1>2. m \in Int /\ y \in Nat /\ y < u /\ n % (u * e) = y + x * u
  BY <1>0, <1>1, DivMod, DivDiv
<1> HIDE DEF m, y
<1>3. x \in Nat /\ x = (m % r) + z * r
  <2>1. m % (r * t) = (m % r) + ((m \div r) % t) * r
    BY <1>0, <1>2, DivDiv
  <2> QED BY <1>0, <1>1, <1>2, <2>1, DivMod DEF e
<1>4. m \div r \in Int /\ m % r \in Nat /\ m % r < r
  BY <1>0, <1>2, DivMod
<1>5. z \in Nat
  <2> DEFINE o == m \div r
  <2> HIDE DEF o
  <2> QED BY <1>0, <1>4, DivMod DEF o
<1> HIDE DEF x, z
<1>6. (n % (u * e)) \div u = x
  <2> DEFINE v == n % (u * e)
  <2>1. v = u * x + y /\ v \in Int
    BY <1>0, <1>2, <1>3
  <2> HIDE DEF v
  <2>2. x \in Int /\ y \in Nat /\ y < u
    BY <1>0, <1>2, <1>3
  <2>3. v \div u = x
    BY <1>0, <2>1, <2>2, DivUnique
  <2> QED BY <2>3 DEF v
<1>7. x % r = m % r
  <2> DEFINE o == m % r
  <2>1. o \in Nat /\ o < r /\ x = r * z + o
    BY <1>0, <1>3, <1>4, <1>5
  <2> HIDE DEF o
  <2>2. x \in Int /\ z \in Int
    BY <1>0, <1>3, <1>5
  <2>3. x % r = o
    BY <1>0, <2>1, <2>2, DivUnique
  <2> QED BY <2>3 DEF o
<1> QED BY <1>1, <1>6, <1>7 DEF m

Dig(n, i) == (n \div Power(Radix, i - 1)) % Radix

LEMMA DigIs ==
    ASSUME NEW n \in Int, NEW i \in Nat
    PROVE  /\ Dig(n, i + 1) = (n \div Power(Radix, i)) % Radix
           /\ Dig(n, i + 1) \in Digit /\ Dig(n, i + 1) \in Nat /\ Dig(n, i + 1) < Radix
<1>1. (i + 1) - 1 = i
  OBVIOUS
<1>2. Power(Radix, i) \in Nat /\ Power(Radix, i) > 0
  BY Weights
<1>3. n \div Power(Radix, i) \in Int
  BY <1>2, DivMod
<1> DEFINE q == n \div Power(Radix, i)
<1> HIDE DEF q
<1>4. q % Radix \in Nat /\ q % Radix < Radix
  BY <1>3, Words, DivMod DEF q
<1>5. q % Radix \in Digit
  BY <1>4, Words DEF Digit
<1> QED BY <1>1, <1>4, <1>5 DEF Dig, q

(* The digits of a number from those of its remainder.                      *)
LEMMA LowDigits ==
    ASSUME NEW n \in Int, NEW i \in Nat, NEW j \in Nat
    PROVE  LET w == Power(Radix, i + 1 + j)
           IN  /\ w \in Nat /\ w > 0 /\ n % w \in Nat /\ n % w < w
               /\ Dig(n % w, i + 1) = Dig(n, i + 1)
<1> DEFINE w == Power(Radix, i + 1 + j)
           u == Power(Radix, i)
           t == Power(Radix, j)
           v == n % w
<1>1. w \in Nat /\ w > 0 /\ u \in Nat /\ u > 0 /\ t \in Nat /\ t > 0
  BY Weights
<1>2. w = u * (Radix * t)
  <2>1. Power(Radix, (i + 1) + j) = Power(Radix, i + 1) * t
    BY Words, PowerSum
  <2>2. Power(Radix, i + 1) = Radix * u
    BY Weights
  <2>3. (Radix * u) * t = u * (Radix * t)
    <3> HIDE DEF u, t
    <3> QED BY <1>1, Words
  <2> QED BY <2>1, <2>2, <2>3
<1>3. Dig(n, i + 1) = (n \div u) % Radix
  BY DigIs
<1> HIDE DEF w, u, t
<1>4. v \in Nat /\ v < w
  BY <1>1, DivMod
<1>5. (v \div u) % Radix = (n \div u) % Radix
  <2>1. Radix \in Nat /\ Radix > 0
    BY Words
  <2>2. Parts(w, u, Radix, t)
    BY <1>1, <1>2, <2>1 DEF Parts
  <2> QED BY <2>2, LowPart
<1> HIDE DEF v
<1>6. Dig(v, i + 1) = (v \div u) % Radix
  BY <1>4, DigIs DEF u
<1> QED BY <1>1, <1>3, <1>4, <1>5, <1>6 DEF v, w

(* Above the number there is nothing but its sign.                          *)
LEMMA HighDigits ==
    ASSUME NEW n \in Int, NEW l \in Nat, Abs(n) < Power(Radix, l), NEW i \in Nat, i >= l
    PROVE  /\ n \div Power(Radix, i) = IF n < 0 THEN -1 ELSE 0
           /\ Dig(n, i + 1) = IF n < 0 THEN Radix - 1 ELSE 0
<1> DEFINE w == Power(Radix, i)
<1>1. w \in Nat /\ w > 0 /\ Abs(n) < w
  <2>1. Power(Radix, l) <= w /\ Power(Radix, l) \in Nat
    BY Words, Weights, PowerGrows
  <2>2. Abs(n) \in Nat /\ w \in Nat /\ w > 0
    BY AbsIs, Weights
  <2> QED BY <2>1, <2>2
<1>2. Dig(n, i + 1) = (n \div w) % Radix
  BY DigIs
<1> HIDE DEF w
<1>3. CASE n < 0
  <2>1. n = w * (-1) + (w + n) /\ w + n \in Nat /\ w + n < w
    BY <1>1, <1>3 DEF Abs
  <2>2. n \div w = -1
    <3> DEFINE r == w + n
    <3> HIDE DEF r
    <3>1. n = w * (-1) + r /\ r \in Nat /\ r < w /\ -1 \in Int
      BY <2>1 DEF r
    <3> QED BY <1>1, <3>1, DivUnique
  <2>3. (-1) % Radix = Radix - 1
    <3>1. -1 = Radix * (-1) + (Radix - 1) /\ Radix - 1 \in Nat /\ Radix - 1 < Radix /\ -1 \in Int
      BY Words
    <3> DEFINE r == Radix - 1
    <3> HIDE DEF r
    <3> QED BY <3>1, Words, DivUnique DEF r
  <2> QED BY <1>2, <1>3, <2>2, <2>3 DEF w
<1>4. CASE n >= 0
  <2>1. n = w * 0 + n /\ n \in Nat /\ n < w
    BY <1>1, <1>4 DEF Abs
  <2>2. n \div w = 0
    BY <1>1, <2>1, DivUnique
  <2>3. 0 % Radix = 0
    <3>1. 0 = Radix * 0 + 0
      BY Words
    <3> QED BY <3>1, Words, DivUnique
  <2>4. (n < 0) = FALSE
    BY <1>4
  <2> QED BY <1>2, <2>2, <2>3, <2>4 DEF w
<1> QED BY <1>3, <1>4

(* The cells of an operand in two's complement are the digits of its number. *)
LEMMA TwosIs ==
    ASSUME NEW n \in Int
    PROVE  LET a == AsBignum(n)
               c == TwosComplement(a)
           IN  /\ Len(a.cells) \in Nat /\ Len(a.cells) >= 1
               /\ c \in Seq(Digit) /\ Len(c) = Len(a.cells)
               /\ Abs(n) < Power(Radix, Len(a.cells))
               /\ \A i \in Nat : i < Len(a.cells) => c[i + 1] = Dig(n, i + 1)
<1> DEFINE a == AsBignum(n)
           l == Len(a.cells)
           w == Power(Radix, l)
           c == TwosComplement(a)
<1>1. /\ a.cells \in Seq(Digit) /\ Magnitude(a.cells) = Abs(n) /\ a.neg = (n < 0)
  BY AsBignumCells
<1>2. l \in Nat /\ Abs(n) < w /\ Abs(n) \in Nat /\ w \in Nat /\ w > 0
  BY <1>1, MagnitudeIs, Weights, AbsIs
<1>3. l >= 1
  <2>1. CASE IsFixnum(n)
    BY <2>1 DEF AsBignum, FixnumToBignum, Bignum
  <2>2. CASE ~ IsFixnum(n)
    <3>1. a.cells = Cells(Abs(n), Length(Abs(n)))
      BY <2>2 DEF AsBignum, Bignum
    <3> QED BY <1>2, <3>1, CanonicalCells
  <2> QED BY <2>1, <2>2
<1>4. \A i \in Nat : i < l => Dig(n % w, i + 1) = Dig(n, i + 1)
  <2> TAKE i \in Nat
  <2> HAVE i < l
  <2> DEFINE j == l - (i + 1)
  <2>1. j \in Nat /\ i + 1 + j = l
    <3> HIDE DEF l
    <3> QED BY <1>2
  <2> HIDE DEF j
  <2>2. Dig(n % Power(Radix, i + 1 + j), i + 1) = Dig(n, i + 1)
    BY <2>1, LowDigits
  <2> QED BY <2>1, <2>2
<1>5. CASE n < 0
  <2> DEFINE m == w - Abs(n)
  <2>1. a.neg = TRUE /\ c = Cells(m, l)
    BY <1>1, <1>5 DEF TwosComplement
  <2>2. m \in Nat /\ n = w * (-1) + m /\ m < w /\ -1 \in Int
    BY <1>2, <1>5 DEF Abs
  <2> HIDE DEF m, w, l, a, c
  <2>3. n % w = m
    BY <1>2, <2>2, DivUnique
  <2>4. c \in Seq(Digit) /\ Len(c) = l
    BY <1>2, <2>1, <2>2, CellsAre
  <2>5. ASSUME NEW i \in Nat, i < l PROVE c[i + 1] = Dig(n, i + 1)
    <3>1. i + 1 \in 1 .. l
      BY <1>2, <2>5
    <3>2. c[i + 1] = (m \div Power(Radix, (i + 1) - 1)) % Radix
      BY <2>1, <3>1 DEF Cells
    <3> QED BY <1>4, <2>3, <2>5, <3>2 DEF Dig
  <2> QED BY <1>2, <1>3, <2>4, <2>5 DEF a, c, l, w
<1>6. CASE n >= 0
  <2>0. (n < 0) = FALSE
    BY <1>6
  <2>1. a.neg = FALSE /\ Abs(n) = n
    <3> HIDE DEF a
    <3> QED BY <1>1, <2>0 DEF Abs
  <2>2. c = a.cells
    BY <2>1 DEF TwosComplement
  <2>3. ASSUME NEW i \in Nat, i < l PROVE c[i + 1] = Dig(n, i + 1)
    <3>1. i + 1 \in 1 .. l
      BY <1>2, <2>3
    <3>2. c[i + 1] = At(a.cells, i + 1)
      BY <1>1, <2>2, <3>1, AtIs
    <3>3. At(a.cells, i + 1) = (n \div Power(Radix, i)) % Radix
      BY <1>1, <2>1, AtMagnitude
    <3> QED BY <1>6, <3>2, <3>3, DigIs
  <2> QED BY <1>1, <1>2, <1>3, <2>2, <2>3
<1> QED BY <1>5, <1>6

(* The integer that cells stand for in two's complement.                    *)
Toned(M, w) == IF 2 * M >= w THEN M - w ELSE M

LEMMA ToSignMagnitude ==
    ASSUME NEW c \in Seq(Digit), Len(c) >= 1
    PROVE  /\ TwosComplementToSignMagnitude(c) = Canonical(Toned(Magnitude(c), Power(Radix, Len(c))))
           /\ Toned(Magnitude(c), Power(Radix, Len(c))) \in Int
<1> DEFINE l == Len(c) - 1
           w == Power(Radix, l)
           M == Magnitude(c)
           t == Last(c)
           v == Value(c, l)
           W == Power(Radix, Len(c))
<1>1. l \in Nat /\ Len(c) = l + 1 /\ Len(c) \in Nat
  BY AtIs
<1>2. w \in Nat /\ w > 0 /\ W = Radix * w /\ W \in Nat
  BY <1>1, Weights
<1>3. M \in Nat /\ M < W
  BY <1>1, MagnitudeIs
<1>4. t = At(c, l + 1) /\ t \in Nat /\ t < Radix
  <2>1. t = c[l + 1]
    BY <1>1 DEF Last
  <2>2. l + 1 \in 1 .. Len(c) /\ l + 1 \in Int
    BY <1>1
  <2> HIDE DEF l, t
  <2> QED BY <2>1, <2>2, AtIs
<1>5. M = v + t * w /\ v \in Nat /\ v < w
  <2>1. Value(c, l + 1) = v + t * w
    BY <1>1, <1>4, ValueIs
  <2>2. Value(c, l + 1) = M
    BY <1>1 DEF Magnitude
  <2> QED BY <1>1, <2>1, <2>2, ValueIs, ValueBound
<1> DEFINE h == Radix \div 2
<1>6. h \in Nat /\ Radix = 2 * h
  BY HalfRadix
<1>7. t >= h <=> 2 * M >= W
  <2> DEFINE tw == t * w
             hw == h * w
  <2> HIDE DEF h, w, t, v, l, M, W
  <2>1. tw \in Nat /\ hw \in Nat
    BY <1>2, <1>4, <1>6
  <2>2. W = 2 * hw
    BY <1>2, <1>6
  <2>3. M = v + tw
    BY <1>5
  <2>4. t >= h => tw >= hw
    BY <1>2, <1>4, <1>6
  <2>5. t < h => tw + w <= hw
    <3> SUFFICES ASSUME t < h PROVE tw + w <= hw
      OBVIOUS
    <3>1. t + 1 <= h /\ t + 1 \in Nat
      BY <1>4, <1>6
    <3>2. (t + 1) * w <= h * w
      BY <1>2, <1>6, <3>1
    <3>3. (t + 1) * w = tw + w
      BY <1>2, <1>4
    <3> QED BY <3>2, <3>3
  <2> HIDE DEF tw, hw
  <2> QED BY <1>2, <1>4, <1>5, <1>6, <2>1, <2>2, <2>3, <2>4, <2>5
<1>8. CASE t >= h
  <2> DEFINE d == Cells(W - M, Len(c))
  <2>1. TwosComplementToSignMagnitude(c) = Normalize(TRUE, d)
    BY <1>8 DEF TwosComplementToSignMagnitude
  <2>2. W - M \in Nat
    BY <1>2, <1>3
  <2>3. d \in Seq(Digit) /\ Magnitude(d) = (W - M) % W
    BY <1>1, <2>2, CellsAre, CellsMagnitude
  <2>4. M > 0
    <3> HIDE DEF M, W, t, h, w
    <3>1. W > 0
      <4> DEFINE rw == Radix * w
      <4>1. rw > 0
        BY <1>2, Words
      <4> QED BY <1>2, <4>1
    <3> QED BY <1>2, <1>3, <1>7, <1>8, <3>1
  <2>5. W - M < W
    BY <1>2, <1>3, <2>4
  <2>6. Magnitude(d) = W - M
    BY <1>1, <2>2, <2>5, CellsMagnitude
  <2>7. Normalize(TRUE, d) = Canonical(Sign(TRUE, W - M))
    BY <2>3, <2>6, SignedIs
  <2>8. Sign(TRUE, W - M) = M - W /\ M - W \in Int
    BY <1>2, <1>3 DEF Sign
  <2>9. Toned(M, W) = M - W
    BY <1>7, <1>8 DEF Toned
  <2> QED BY <2>1, <2>7, <2>8, <2>9
<1>9. CASE ~ (t >= h)
  <2>1. TwosComplementToSignMagnitude(c) = Normalize(FALSE, c)
    BY <1>9 DEF TwosComplementToSignMagnitude
  <2>2. Normalize(FALSE, c) = Canonical(Sign(FALSE, M))
    BY SignedIs
  <2>3. Toned(M, W) = M /\ Sign(FALSE, M) = M /\ M \in Int
    BY <1>3, <1>7, <1>9 DEF Toned, Sign
  <2> QED BY <2>1, <2>2, <2>3
<1> QED BY <1>8, <1>9

-----------------------------------------------------------------------------
(* Bits.                                                                    *)
LEMMA TwoPowers ==
    /\ Power(2, 0) = 1
    /\ \A n \in Nat : /\ Power(2, n) \in Nat /\ Power(2, n) > 0
                      /\ Power(2, n + 1) = 2 * Power(2, n)
BY PowerIs, PowerPositive

LEMMA BitIs ==
    ASSUME NEW n \in Int, NEW i \in Nat
    PROVE  Bit(n, i) \in {0, 1}
<1> DEFINE q == n \div Power(2, i)
<1>1. q \in Int
  BY TwoPowers, DivMod
<1> HIDE DEF q
<1>2. q % 2 \in Nat /\ q % 2 < 2
  BY <1>1, DivMod
<1> QED BY <1>2 DEF Bit, q

LEMMA BitOfIs ==
    ASSUME NEW op \in Logic, NEW x \in {0, 1}, NEW y \in {0, 1}
    PROVE  BitOf(op, x, y) \in {0, 1} /\ BitOf(op, x, y) = BitOf(op, y, x)
<1>1. CASE op = "xor"
  BY <1>1 DEF BitOf
<1>2. CASE op = "ior"
  BY <1>2 DEF BitOf
<1>3. CASE op = "and"
  BY <1>3 DEF BitOf
<1> QED BY <1>1, <1>2, <1>3 DEF Logic

BitAt(op, a, b, i) == BitOf(op, Bit(a, i), Bit(b, i))

LEMMA BitAtIs ==
    ASSUME NEW op \in Logic, NEW a \in Int, NEW b \in Int, NEW i \in Nat
    PROVE  BitAt(op, a, b, i) \in {0, 1} /\ BitAt(op, a, b, i) = BitAt(op, b, a, i)
<1> DEFINE x == Bit(a, i)
           y == Bit(b, i)
<1>1. x \in {0, 1} /\ y \in {0, 1}
  BY BitIs
<1> HIDE DEF x, y
<1>2. BitOf(op, x, y) \in {0, 1} /\ BitOf(op, x, y) = BitOf(op, y, x)
  BY <1>1, BitOfIs
<1> QED BY <1>2 DEF BitAt, x, y

LEMMA BitSumIs ==
    ASSUME NEW op \in Logic, NEW a \in Int, NEW b \in Int
    PROVE  /\ BitSum(op, a, b)[0] = 0
           /\ \A n \in Nat : /\ BitSum(op, a, b)[n] \in Nat
                             /\ BitSum(op, a, b)[n + 1] =
                                   BitSum(op, a, b)[n] + BitAt(op, a, b, n) * Power(2, n)
<1> DEFINE Next1(i, x) == x + BitAt(op, a, b, i - 1) * Power(2, i - 1)
           S == Nat
           G == [i \in Nat |-> [x \in S |-> IF i = 0 THEN 0 ELSE Next1(i, x)]]
           Is(q) == q = [i \in Nat |-> IF i = 0 THEN 0
                                       ELSE q[i - 1] + BitOf(op, Bit(a, i - 1), Bit(b, i - 1))
                                                           * Power(2, i - 1)]
           p == CHOOSE q : Is(q)
<1>0. ASSUME NEW i \in Nat, NEW x \in S, i # 0
      PROVE  Next1(i, x) \in S
  <2> DEFINE y == BitAt(op, a, b, i - 1)
             w == Power(2, i - 1)
  <2>1. i - 1 \in Nat
    BY <1>0
  <2>2. y \in Nat /\ w \in Nat
    BY <2>1, BitAtIs, TwoPowers
  <2> HIDE DEF y, w
  <2>3. y * w \in Nat
    BY <2>2
  <2> QED BY <2>3 DEF y, w
<1>1. G \in [Nat -> [S -> S]] /\ 0 \in S
  <2> HIDE DEF Next1
  <2> QED BY <1>0
<1>2. \A i \in Nat : i # 0 => \A x \in S : G[i][x] = Next1(i, x)
  <2> HIDE DEF Next1
  <2> QED OBVIOUS
<1> HIDE DEF G
<1>3. \E q : Is(q)
  <2>1. PICK q \in [Nat -> S] : Recurs(q, 0, G)
    BY <1>1, RecursionExists
  <2>2. \A i \in Nat : i # 0 => i - 1 \in Nat /\ q[i - 1] \in S
    <3> HIDE DEF S
    <3> QED OBVIOUS
  <2>3. \A i \in Nat : q[i] = IF i = 0 THEN 0 ELSE Next1(i, q[i - 1])
    <3> HIDE DEF Next1, S
    <3> QED BY <1>2, <2>1, <2>2 DEF Recurs
  <2>4. Is(q)
    BY <2>3 DEF BitAt
  <2> QED BY <2>4
<1>4. Is(p)
  BY <1>3
<1>5. BitSum(op, a, b) = p
  BY DEF BitSum
<1> HIDE DEF p
<1>6. p[0] = 0
  BY <1>4
<1>7. ASSUME NEW n \in Nat
      PROVE  p[n + 1] = p[n] + BitAt(op, a, b, n) * Power(2, n)
  <2>1. n + 1 \in Nat /\ n + 1 # 0 /\ (n + 1) - 1 = n
    OBVIOUS
  <2>2. p[n + 1] = p[(n + 1) - 1] + BitOf(op, Bit(a, (n + 1) - 1), Bit(b, (n + 1) - 1))
                                        * Power(2, (n + 1) - 1)
    BY <1>4, <2>1
  <2> QED BY <2>1, <2>2 DEF BitAt
<1>8. Stays(p, Nat)
  <2> SUFFICES ASSUME NEW n \in Nat, p[n] \in Nat
               PROVE  p[n + 1] \in Nat
    BY <1>6 DEF Stays
  <2> DEFINE y == BitAt(op, a, b, n)
             w == Power(2, n)
  <2>1. y \in Nat /\ w \in Nat
    BY BitAtIs, TwoPowers
  <2>2. p[n + 1] = p[n] + y * w
    BY <1>7
  <2> HIDE DEF y, w
  <2>3. y * w \in Nat
    BY <2>1
  <2> QED BY <2>2, <2>3
<1>9. \A n \in Nat : p[n] \in Nat
  BY <1>8, StaysIn
<1> QED BY <1>5, <1>6, <1>7, <1>9

(* Two sums of the same bits.                                               *)
LEMMA SameBits ==
    ASSUME NEW op \in Logic, NEW a \in Int, NEW b \in Int,
           NEW o \in Logic, NEW c \in Int, NEW d \in Int,
           NEW m \in Nat, \A i \in Nat : i < m => BitAt(op, a, b, i) = BitAt(o, c, d, i)
    PROVE  BitSum(op, a, b)[m] = BitSum(o, c, d)[m]
<1> DEFINE x == BitSum(op, a, b)
           y == BitSum(o, c, d)
           S == {n \in Nat : n <= m => x[n] = y[n]}
<1>1. 0 \in S
  BY BitSumIs
<1>2. ASSUME NEW n \in Nat, n \in S
      PROVE  n + 1 \in S
  <2> SUFFICES ASSUME n + 1 <= m PROVE x[n + 1] = y[n + 1]
    BY DEF S
  <2>1. x[n] = y[n] /\ BitAt(op, a, b, n) = BitAt(o, c, d, n)
    BY <1>2
  <2> QED BY <2>1, BitSumIs
<1> HIDE DEF S
<1>3. m \in S
  BY <1>1, <1>2, Induction
<1> QED BY <1>3 DEF S

(* The bits of a number are the bits of its digits.                         *)
Wide == 2 * HalfBits

LEMMA WideIs == Wide \in Nat /\ Wide >= 2 /\ Power(2, Wide) = Radix
<1>1. 2 * HalfBits \in Nat /\ 2 * HalfBits >= 2
  BY HalfRadix
<1> QED BY <1>1, Words DEF Wide

LEMMA BitOfDigit ==
    ASSUME NEW n \in Int, NEW i \in Nat, NEW j \in Nat, j < Wide
    PROVE  /\ Wide * i \in Nat
           /\ Bit(n, Wide * i + j) = Bit(Dig(n, i + 1), j)
<1> DEFINE w == Power(Radix, i)
           p == Power(2, j)
           l == Wide - (j + 1)
           t == Power(2, l)
           q == n \div w
           x == Dig(n, i + 1)
           o == Wide * i
<1>1. Wide * i \in Nat
  BY WideIs
<1>2. l \in Nat /\ (j + 1) + l = Wide
  BY WideIs
<1> HIDE DEF l
<1>3. w \in Nat /\ w > 0 /\ p \in Nat /\ p > 0 /\ t \in Nat /\ t > 0
  BY <1>2, Weights, TwoPowers
<1>4. Power(2, o + j) = w * p
  <2>1. Power(2, o + j) = Power(2, o) * p
    <3> HIDE DEF o
    <3> QED BY <1>1, PowerSum DEF o
  <2>2. Power(2, o) = w
    BY WordBits DEF Wide
  <2> QED BY <2>1, <2>2
<1>5. Radix = p * (2 * t)
  <2>1. Power(2, (j + 1) + l) = Power(2, j + 1) * t
    BY <1>2, PowerSum
  <2>2. Power(2, j + 1) = 2 * p
    BY TwoPowers
  <2> HIDE DEF p, t
  <2>3. (2 * p) * t = p * (2 * t)
    BY <1>3
  <2> QED BY <1>2, <2>1, <2>2, <2>3, WideIs
<1>6. x = q % Radix
  BY DigIs
<1> HIDE DEF w, p, t, o
<1>7. q \in Int /\ n \div (w * p) = q \div p
  BY <1>3, DivMod, DivDiv
<1> HIDE DEF q
<1>8. ((q % Radix) \div p) % 2 = (q \div p) % 2
  <2>1. Parts(Radix, p, 2, t)
    BY <1>3, <1>5 DEF Parts
  <2> QED BY <1>7, <2>1, LowPart
<1>9. (x \div p) % 2 = (q \div p) % 2
  BY <1>6, <1>8
<1>10. Bit(n, o + j) = (q \div p) % 2
  BY <1>4, <1>7 DEF Bit
<1>11. Bit(x, j) = (x \div p) % 2
  BY DEF Bit, p
<1> QED BY <1>1, <1>9, <1>10, <1>11 DEF o

(* The digits of the result of an operation.                                *)
LEMMA BitsOfDigits ==
    ASSUME NEW op \in Logic, NEW a \in Int, NEW b \in Int, NEW i \in Nat
    PROVE  \A j \in 0 .. Wide :
               BitSum(op, a, b)[Wide * i + j] =
                   BitSum(op, a, b)[Wide * i]
                   + BitSum(op, Dig(a, i + 1), Dig(b, i + 1))[j] * Power(Radix, i)
<1> DEFINE c == Dig(a, i + 1)
           d == Dig(b, i + 1)
           w == Power(Radix, i)
           s == BitSum(op, a, b)
           t == BitSum(op, c, d)
           o == Wide * i
           S == {j \in Nat : j <= Wide => s[o + j] = s[o] + t[j] * w}
<1>1. c \in Int /\ d \in Int /\ w \in Nat /\ o \in Nat /\ Wide \in Nat
  <2>1. c \in Nat /\ d \in Nat
    BY DigIs
  <2>2. w \in Nat /\ Wide \in Nat
    BY Weights, WideIs
  <2> HIDE DEF c, d, w
  <2> QED BY <2>1, <2>2
<1>2. /\ t[0] = 0 /\ s[o] \in Nat
      /\ \A n \in Nat : t[n] \in Nat /\ t[n + 1] = t[n] + BitAt(op, c, d, n) * Power(2, n)
      /\ \A n \in Nat : s[n] \in Nat /\ s[n + 1] = s[n] + BitAt(op, a, b, n) * Power(2, n)
  <2> HIDE DEF c, d, o
  <2> QED BY <1>1, BitSumIs
<1>3. 0 \in S
  <2> HIDE DEF s, t, o, w
  <2>1. o + 0 = o /\ 0 * w = 0
    BY <1>1
  <2> QED BY <1>2, <2>1
<1>4. ASSUME NEW j \in Nat, j \in S
      PROVE  j + 1 \in S
  <2> SUFFICES ASSUME j + 1 <= Wide PROVE s[o + (j + 1)] = s[o] + t[j + 1] * w
    BY DEF S
  <2> DEFINE p == Power(2, j)
             x == BitAt(op, a, b, o + j)
  <2>1. s[o + j] = s[o] + t[j] * w /\ j < Wide
    BY <1>1, <1>4
  <2>2. x = BitAt(op, c, d, j)
    <3>1. Bit(a, o + j) = Bit(c, j) /\ Bit(b, o + j) = Bit(d, j)
      BY <2>1, BitOfDigit
    <3> QED BY <3>1 DEF BitAt
  <2>3. x \in Nat
    <3>1. o + j \in Nat
      BY <1>1
    <3> QED BY <3>1, BitAtIs
  <2>4. Power(2, o + j) = w * p
    <3>1. Power(2, o + j) = Power(2, o) * p
      <4> HIDE DEF o
      <4> QED BY <1>1, PowerSum
    <3>2. Power(2, o) = w
      BY WordBits DEF Wide
    <3> QED BY <3>1, <3>2
  <2>5. p \in Nat
    BY TwoPowers
  <2> HIDE DEF c, d, w, s, t, o, p, x
  <2>6. s[o + (j + 1)] = s[o + j] + x * (w * p)
    <3>1. o + (j + 1) = (o + j) + 1 /\ o + j \in Nat
      BY <1>1
    <3> QED BY <1>2, <2>4, <3>1 DEF x
  <2>7. t[j + 1] = t[j] + x * p /\ t[j] \in Nat
    BY <1>2, <2>2 DEF p
  <2>8. (t[j] + x * p) * w = t[j] * w + x * (w * p)
    <3> DEFINE u == t[j]
    <3>1. u \in Nat
      BY <2>7
    <3> HIDE DEF u
    <3>2. (u + x * p) * w = u * w + x * (w * p)
      BY <1>1, <2>3, <2>5, <3>1
    <3> QED BY <3>2 DEF u
  <2>9. t[j] * w \in Nat /\ x * (w * p) \in Nat
    BY <1>1, <2>3, <2>5, <2>7
  <2> DEFINE y == t[j] * w
             z == x * (w * p)
  <2>10. y \in Nat /\ z \in Nat /\ s[o + (j + 1)] = (s[o] + y) + z /\ t[j + 1] * w = y + z
    BY <2>1, <2>6, <2>7, <2>8, <2>9
  <2> HIDE DEF y, z
  <2> QED BY <1>2, <2>10
<1> HIDE DEF S
<1>5. \A j \in Nat : j \in S
  BY <1>3, <1>4, Induction
<1> QED BY <1>1, <1>5 DEF S

LEMMA BitSumBound ==
    ASSUME NEW op \in Logic, NEW a \in Int, NEW b \in Int
    PROVE  \A n \in Nat : BitSum(op, a, b)[n] < Power(2, n)
<1> DEFINE s == BitSum(op, a, b)
           S == {n \in Nat : s[n] < Power(2, n)}
<1>1. 0 \in S
  BY BitSumIs, TwoPowers
<1>2. ASSUME NEW n \in Nat, n \in S
      PROVE  n + 1 \in S
  <2> DEFINE x == BitAt(op, a, b, n)
             w == Power(2, n)
  <2>1. x \in {0, 1} /\ w \in Nat /\ s[n] \in Nat /\ s[n] < w /\ Power(2, n + 1) = 2 * w
        /\ s[n + 1] = s[n] + x * w
    BY <1>2, BitAtIs, TwoPowers, BitSumIs
  <2> HIDE DEF x, w, s
  <2>2. x * w = 0 \/ x * w = w
    BY <2>1
  <2>3. s[n + 1] < Power(2, n + 1)
    BY <2>1, <2>2
  <2> QED BY <2>3
<1> HIDE DEF S
<1>3. \A n \in Nat : n \in S
  BY <1>1, <1>2, Induction
<1> QED BY <1>3 DEF S

LEMMA BitsIs ==
    ASSUME NEW op \in Logic, NEW c \in Int, NEW d \in Int
    PROVE  Bits(op, c, d) \in Digit /\ Bits(op, c, d) = Bits(op, d, c)
<1> DEFINE x == BitSum(op, c, d)[Wide]
<1>1. x \in Nat /\ x < Radix
  BY WideIs, BitSumIs, BitSumBound
<1>2. x = BitSum(op, d, c)[Wide]
  <2>1. \A i \in Nat : i < Wide => BitAt(op, c, d, i) = BitAt(op, d, c, i)
    BY BitAtIs
  <2> QED BY <2>1, WideIs, SameBits
<1>3. x \in Digit
  <2> HIDE DEF x
  <2> QED BY <1>1, Words DEF Digit
<1> QED BY <1>2, <1>3 DEF Bits, Wide

(* Operations on one operand: itself, its complement, nothing and all bits. *)
Shapes == {"same", "flip", "zero", "ones"}
Shaped(s, v, top) ==
    CASE s = "same" -> v
      [] s = "flip" -> top - v
      [] s = "zero" -> 0
      [] s = "ones" -> top

Grows(s, v, t, x, w) ==
    Shaped(s, v, t) + Shaped(s, x, 1) * w = Shaped(s, v + x * w, t + w)

LEMMA ShapedStep ==
    ASSUME NEW s \in Shapes, NEW v \in Int, NEW t \in Int, NEW x \in {0, 1}, NEW w \in Nat
    PROVE  Grows(s, v, t, x, w)
<1> DEFINE xw == x * w
<1>1. xw \in Nat /\ (1 - x) * w = w - xw /\ 0 * w = 0 /\ 1 * w = w
  BY DEF Shapes
<1>2. CASE s = "same"
  BY <1>2 DEF Shaped, Grows
<1>3. CASE s = "flip"
  <2>1. Shaped(s, v, t) = t - v /\ Shaped(s, x, 1) = 1 - x
        /\ Shaped(s, v + x * w, t + w) = (t + w) - (v + x * w)
    BY <1>3 DEF Shaped
  <2>2. (t - v) + (w - xw) = (t + w) - (v + xw)
    <3> HIDE DEF xw
    <3> QED BY <1>1
  <2> QED BY <1>1, <2>1, <2>2 DEF Grows
<1>4. CASE s = "zero"
  BY <1>1, <1>4 DEF Shaped, Grows
<1>5. CASE s = "ones"
  BY <1>1, <1>5 DEF Shaped, Grows
<1> QED BY <1>2, <1>3, <1>4, <1>5 DEF Shapes, Grows

LEMMA ShapedSum ==
    ASSUME NEW op \in Logic, NEW c \in Int, NEW d \in Int, NEW s \in Shapes, NEW m \in Nat,
           \A i \in Nat : i < m => BitAt(op, c, d, i) = Shaped(s, Bit(c, i), 1)
    PROVE  BitSum(op, c, d)[m] = Shaped(s, c % Power(2, m), Power(2, m) - 1)
<1> DEFINE y == BitSum(op, c, d)
           S == {n \in Nat : n <= m => y[n] = Shaped(s, c % Power(2, n), Power(2, n) - 1)}
<1>1. 0 \in S
  <2>1. c % 1 = 0
    <3>1. c % 1 \in Nat /\ c % 1 < 1
      BY DivMod
    <3> QED BY <3>1
  <2>2. Shaped(s, 0, 1 - 1) = 0
    BY DEF Shaped, Shapes
  <2> QED BY <2>1, <2>2, TwoPowers, BitSumIs
<1>2. ASSUME NEW n \in Nat, n \in S
      PROVE  n + 1 \in S
  <2> SUFFICES ASSUME n + 1 <= m
               PROVE  y[n + 1] = Shaped(s, c % Power(2, n + 1), Power(2, n + 1) - 1)
    BY DEF S
  <2> DEFINE w == Power(2, n)
             v == c % w
             x == Bit(c, n)
  <2>1. w \in Nat /\ w > 0 /\ Power(2, n + 1) = 2 * w /\ 2 * w = w * 2
    BY TwoPowers
  <2>2. x \in {0, 1}
    BY BitIs
  <2>3. v \in Int
    <3> HIDE DEF w
    <3> QED BY <2>1, DivMod
  <2>4. c % (w * 2) = v + x * w
    <3>1. x = (c \div w) % 2
      BY DEF Bit
    <3>2. c % (w * 2) = (c % w) + ((c \div w) % 2) * w
      <4> HIDE DEF w
      <4> QED BY <2>1, DivDiv
    <3> QED BY <3>1, <3>2
  <2>5. y[n] = Shaped(s, v, w - 1) /\ BitAt(op, c, d, n) = Shaped(s, x, 1)
    BY <1>2
  <2>6. y[n + 1] = y[n] + BitAt(op, c, d, n) * w
    BY BitSumIs
  <2> HIDE DEF w, v, x, y
  <2>7. Shaped(s, v, w - 1) + Shaped(s, x, 1) * w = Shaped(s, v + x * w, (w - 1) + w)
    <3> DEFINE t == w - 1
    <3>1. t \in Int /\ w \in Nat
      BY <2>1
    <3> HIDE DEF t
    <3>2. Grows(s, v, t, x, w)
      BY <2>2, <2>3, <3>1, ShapedStep
    <3> QED BY <3>2 DEF Grows, t
  <2>8. (w - 1) + w = 2 * w - 1
    BY <2>1
  <2> QED BY <2>1, <2>4, <2>5, <2>6, <2>7, <2>8
<1> HIDE DEF S
<1>3. m \in S
  BY <1>1, <1>2, Induction
<1> QED BY <1>3 DEF S

LEMMA BitsShaped ==
    ASSUME NEW op \in Logic, NEW c \in Digit, NEW d \in Int, NEW s \in Shapes,
           \A i \in Nat : i < Wide => BitAt(op, c, d, i) = Shaped(s, Bit(c, i), 1)
    PROVE  Bits(op, c, d) = Shaped(s, c, Radix - 1)
<1>1. c \in Int /\ c \in Nat /\ c < Radix /\ Radix \in Nat /\ Radix > 0
  BY Words DEF Digit
<1>2. c % Radix = c
  <2>1. c = Radix * 0 + c
    BY <1>1
  <2> QED BY <1>1, <2>1, DivUnique
<1>3. BitSum(op, c, d)[Wide] = Shaped(s, c % Power(2, Wide), Power(2, Wide) - 1)
  BY <1>1, WideIs, ShapedSum
<1> QED BY <1>2, <1>3, WideIs DEF Bits, Wide

(* The bits of the digits of a sign.                                        *)
LEMMA SignBits ==
    ASSUME NEW i \in Nat, i < Wide
    PROVE  Bit(0, i) = 0 /\ Bit(Radix - 1, i) = 1
<1> DEFINE p == Power(2, i)
           l == Wide - (i + 1)
           t == Power(2, l)
<1>1. l \in Nat /\ (i + 1) + l = Wide
  BY WideIs
<1> HIDE DEF l
<1>2. p \in Nat /\ p > 0 /\ t \in Nat /\ t > 0
  BY <1>1, TwoPowers
<1>3. Radix = p * (2 * t)
  <2>1. Power(2, (i + 1) + l) = Power(2, i + 1) * t
    BY <1>1, PowerSum
  <2>2. Power(2, i + 1) = 2 * p
    BY TwoPowers
  <2> HIDE DEF p, t
  <2>3. (2 * p) * t = p * (2 * t)
    BY <1>2
  <2> QED BY <1>1, <2>1, <2>2, <2>3, WideIs
<1> HIDE DEF p, t
<1>4. Bit(0, i) = 0
  <2>1. 0 = p * 0 + 0 /\ 0 = 2 * 0 + 0
    BY <1>2
  <2>2. 0 \div p = 0
    BY <1>2, <2>1, DivUnique
  <2>3. 0 % 2 = 0
    OBVIOUS
  <2> QED BY <2>2, <2>3 DEF Bit, p
<1>5. Bit(Radix - 1, i) = 1
  <2> DEFINE q == 2 * t - 1
             r == p - 1
             n == Radix - 1
  <2>1. q \in Int /\ r \in Nat /\ r < p /\ n \in Int
    BY <1>2, Words
  <2>2. n = p * q + r
    <3> DEFINE e == 2 * t
    <3>1. e \in Nat /\ q = e - 1 /\ Radix = p * e
      BY <1>2, <1>3
    <3> HIDE DEF e, q
    <3>2. p * (e - 1) = p * e - p
      BY <1>2, <3>1
    <3>3. p * e \in Nat
      BY <1>2, <3>1
    <3> DEFINE pe == p * e
    <3>4. pe \in Nat /\ Radix = pe /\ p * q = pe - p
      BY <3>1, <3>2, <3>3
    <3> HIDE DEF pe
    <3> QED BY <1>2, <3>4
  <2>3. q % 2 = 1
    BY <1>2
  <2> HIDE DEF q, r, n
  <2>4. n \div p = q
    BY <1>2, <2>1, <2>2, DivUnique
  <2> QED BY <2>3, <2>4 DEF Bit, p, n
<1> QED BY <1>4, <1>5

(* A word and the word of a sign.                                           *)
LEMMA SignWords ==
    ASSUME NEW c \in Digit
    PROVE  /\ Bits("xor", c, 0) = c /\ Bits("xor", c, Radix - 1) = Radix - 1 - c
           /\ Bits("ior", c, 0) = c /\ Bits("ior", c, Radix - 1) = Radix - 1
           /\ Bits("and", c, 0) = 0 /\ Bits("and", c, Radix - 1) = c
<1>1. c \in Int /\ 0 \in Int /\ Radix - 1 \in Int
  BY Words DEF Digit
<1>2. \A i \in Nat : i < Wide => Bit(c, i) \in {0, 1} /\ Bit(0, i) = 0 /\ Bit(Radix - 1, i) = 1
  BY <1>1, BitIs, SignBits
<1>3. Bits("xor", c, 0) = c
  <2>1. "xor" \in Logic /\ "same" \in Shapes
    BY DEF Logic, Shapes
  <2>2. \A i \in Nat : i < Wide => BitAt("xor", c, 0, i) = Shaped("same", Bit(c, i), 1)
    BY <1>2 DEF BitAt, BitOf, Shaped
  <2>3. Bits("xor", c, 0) = Shaped("same", c, Radix - 1)
    BY <1>1, <2>1, <2>2, BitsShaped
  <2> QED BY <2>3 DEF Shaped
<1>4. Bits("xor", c, Radix - 1) = Radix - 1 - c
  <2>1. "xor" \in Logic /\ "flip" \in Shapes
    BY DEF Logic, Shapes
  <2>2. \A i \in Nat : i < Wide => BitAt("xor", c, Radix - 1, i) = Shaped("flip", Bit(c, i), 1)
    BY <1>2 DEF BitAt, BitOf, Shaped
  <2>3. Bits("xor", c, Radix - 1) = Shaped("flip", c, Radix - 1)
    BY <1>1, <2>1, <2>2, BitsShaped
  <2> QED BY <2>3 DEF Shaped
<1>5. Bits("ior", c, 0) = c
  <2>1. "ior" \in Logic /\ "same" \in Shapes
    BY DEF Logic, Shapes
  <2>2. \A i \in Nat : i < Wide => BitAt("ior", c, 0, i) = Shaped("same", Bit(c, i), 1)
    BY <1>2 DEF BitAt, BitOf, Shaped
  <2>3. Bits("ior", c, 0) = Shaped("same", c, Radix - 1)
    BY <1>1, <2>1, <2>2, BitsShaped
  <2> QED BY <2>3 DEF Shaped
<1>6. Bits("ior", c, Radix - 1) = Radix - 1
  <2>1. "ior" \in Logic /\ "ones" \in Shapes
    BY DEF Logic, Shapes
  <2>2. \A i \in Nat : i < Wide => BitAt("ior", c, Radix - 1, i) = Shaped("ones", Bit(c, i), 1)
    BY <1>2 DEF BitAt, BitOf, Shaped
  <2>3. Bits("ior", c, Radix - 1) = Shaped("ones", c, Radix - 1)
    BY <1>1, <2>1, <2>2, BitsShaped
  <2> QED BY <2>3 DEF Shaped
<1>7. Bits("and", c, 0) = 0
  <2>1. "and" \in Logic /\ "zero" \in Shapes
    BY DEF Logic, Shapes
  <2>2. \A i \in Nat : i < Wide => BitAt("and", c, 0, i) = Shaped("zero", Bit(c, i), 1)
    BY <1>2 DEF BitAt, BitOf, Shaped
  <2>3. Bits("and", c, 0) = Shaped("zero", c, Radix - 1)
    BY <1>1, <2>1, <2>2, BitsShaped
  <2> QED BY <2>3 DEF Shaped
<1>8. Bits("and", c, Radix - 1) = c
  <2>1. "and" \in Logic /\ "same" \in Shapes
    BY DEF Logic, Shapes
  <2>2. \A i \in Nat : i < Wide => BitAt("and", c, Radix - 1, i) = Shaped("same", Bit(c, i), 1)
    BY <1>2 DEF BitAt, BitOf, Shaped
  <2>3. Bits("and", c, Radix - 1) = Shaped("same", c, Radix - 1)
    BY <1>1, <2>1, <2>2, BitsShaped
  <2> QED BY <2>3 DEF Shaped
<1> QED BY <1>3, <1>4, <1>5, <1>6, <1>7, <1>8

(* The number in cells made word by word is made bit by bit.                *)
LEMMA DigitsValue ==
    ASSUME NEW op \in Logic, NEW a \in Int, NEW b \in Int, NEW c \in Seq(Digit),
           \A i \in Nat : i < Len(c) => c[i + 1] = Bits(op, Dig(a, i + 1), Dig(b, i + 1))
    PROVE  Magnitude(c) = BitSum(op, a, b)[Wide * Len(c)]
<1> DEFINE s == BitSum(op, a, b)
           S == {i \in Nat : i <= Len(c) => Value(c, i) = s[Wide * i]}
<1>1. 0 \in S
  <2>1. Wide * 0 = 0
    BY WideIs
  <2>2. s[0] = 0 /\ Value(c, 0) = 0
    BY BitSumIs, ValueIs
  <2> HIDE DEF s
  <2> QED BY <2>1, <2>2
<1>2. ASSUME NEW i \in Nat, i \in S
      PROVE  i + 1 \in S
  <2> SUFFICES ASSUME i + 1 <= Len(c) PROVE Value(c, i + 1) = s[Wide * (i + 1)]
    BY DEF S
  <2> DEFINE d == Bits(op, Dig(a, i + 1), Dig(b, i + 1))
             w == Power(Radix, i)
  <2>1. Value(c, i) = s[Wide * i] /\ i < Len(c) /\ Len(c) \in Nat
    BY <1>2, AtIs
  <2>2. At(c, i + 1) = d
    <3>1. i + 1 \in 1 .. Len(c)
      BY <2>1
    <3> QED BY <2>1, <3>1, AtIs
  <2>3. Value(c, i + 1) = Value(c, i) + d * w
    BY <2>2, ValueIs
  <2>4. s[Wide * i + Wide] = s[Wide * i] + d * w
    <3>1. Wide \in 0 .. Wide
      BY WideIs
    <3>2. BitSum(op, Dig(a, i + 1), Dig(b, i + 1))[Wide] = d
      BY DEF Bits, Wide
    <3>3. \A j \in 0 .. Wide :
              s[Wide * i + j] = s[Wide * i] + BitSum(op, Dig(a, i + 1), Dig(b, i + 1))[j] * w
      BY BitsOfDigits
    <3>4. s[Wide * i + Wide] = s[Wide * i] + BitSum(op, Dig(a, i + 1), Dig(b, i + 1))[Wide] * w
      <4> HIDE DEF s, w
      <4> QED BY <3>1, <3>3
    <3> QED BY <3>2, <3>4
  <2>5. Wide * (i + 1) = Wide * i + Wide
    BY WideIs
  <2> QED BY <2>1, <2>3, <2>4, <2>5
<1> HIDE DEF S
<1>3. Len(c) \in S /\ Len(c) \in Nat
  BY <1>1, <1>2, Induction, AtIs
<1> QED BY <1>3 DEF S, Magnitude

-----------------------------------------------------------------------------
(* The logical operations.                                                  *)
LEMMA LengthOf ==
    ASSUME NEW n \in Int
    PROVE  Len(AsBignum(n).cells) = Length(Abs(n)) /\ Length(Abs(n)) \in Nat
<1> DEFINE v == Abs(n)
           l == Length(v)
<1>1. v \in Nat
  BY AbsIs
<1>2. l \in Nat /\ l >= 1 /\ (l = 1 \/ v >= Power(Radix, l - 1))
  BY <1>1, LengthIs
<1>3. CASE IsFixnum(n)
  <2>1. Len(AsBignum(n).cells) = 1
    BY <1>3 DEF AsBignum, FixnumToBignum, Bignum
  <2>2. v <= FixLimit
    BY <1>3, Words DEF IsFixnum, Abs
  <2>3. v < Radix
    BY <1>1, <2>2, Words
  <2> HIDE DEF l, v
  <2>4. l = 1
    <3> SUFFICES ASSUME l # 1 PROVE FALSE
      OBVIOUS
    <3>1. l - 1 \in Nat /\ 1 <= l - 1
      BY <1>2
    <3>2. Power(Radix, 1) <= Power(Radix, l - 1)
      BY <3>1, Words, PowerGrows
    <3>3. Power(Radix, 1) = Radix
      <4>1. Power(Radix, 0 + 1) = Radix * 1
        BY Weights
      <4> QED BY <4>1, Words
    <3>4. Power(Radix, l - 1) \in Nat
      BY <3>1, Weights
    <3> QED BY <1>1, <1>2, <2>3, <3>2, <3>3, <3>4, Words
  <2> QED BY <1>2, <2>1, <2>4 DEF l, v
<1>4. CASE ~ IsFixnum(n)
  <2>1. AsBignum(n).cells = Cells(v, l)
    BY <1>4 DEF AsBignum, Bignum
  <2> QED BY <1>1, <1>2, <2>1, CanonicalCells
<1> QED BY <1>3, <1>4

LEMMA SignBit ==
    ASSUME NEW n \in Int, NEW l \in Nat, Abs(n) < Power(Radix, l)
    PROVE  Bit(n, Wide * l) = IF n < 0 THEN 1 ELSE 0
<1>1. Power(2, Wide * l) = Power(Radix, l)
  BY WordBits DEF Wide
<1>2. n \div Power(Radix, l) = IF n < 0 THEN -1 ELSE 0
  BY HighDigits
<1>3. (-1) % 2 = 1 /\ 0 % 2 = 0
  <2> DEFINE e == -1
  <2>1. e = 2 * e + 1 /\ e \in Int /\ 1 \in Nat /\ 1 < 2 /\ 2 \in Nat /\ 2 > 0
    OBVIOUS
  <2> HIDE DEF e
  <2>2. e % 2 = 1
    BY <2>1, DivUnique
  <2>3. 0 % 2 = 0
    OBVIOUS
  <2> QED BY <2>2, <2>3 DEF e
<1>4. CASE n < 0
  BY <1>1, <1>2, <1>3, <1>4 DEF Bit
<1>5. CASE n >= 0
  <2>1. (n < 0) = FALSE
    BY <1>5
  <2> QED BY <1>1, <1>2, <1>3, <2>1 DEF Bit
<1> QED BY <1>4, <1>5

SignWord(neg) == IF neg THEN Radix - 1 ELSE 0
Odd(op, long, short, by) == op = "and" /\ by = "library" /\ long.neg /\ short.neg

Follows(op, c, long, short, by) ==
    /\ ~ Odd(op, long, short, by) =>
           Beyond(op, c, long, short, by) = Bits(op, c, SignWord(short.neg))
    /\ Odd(op, long, short, by) =>
           Beyond(op, c, long, short, by) = Radix - 1 - Bits(op, c, SignWord(short.neg))

LEMMA BeyondIs ==
    ASSUME NEW op \in Logic, NEW c \in Digit, NEW long, NEW short,
           long.neg \in BOOLEAN, short.neg \in BOOLEAN, NEW by
    PROVE  Follows(op, c, long, short, by)
<1>1. CASE op = "xor"
  <2>1. ~ Odd(op, long, short, by)
    BY <1>1 DEF Odd
  <2>2. Beyond(op, c, long, short, by) = IF short.neg THEN Radix - 1 - c ELSE c
    BY <1>1 DEF Beyond, XorTail
  <2> QED BY <1>1, <2>1, <2>2, SignWords DEF SignWord, Follows
<1>2. CASE op = "ior"
  <2>1. ~ Odd(op, long, short, by)
    BY <1>2 DEF Odd
  <2>2. Beyond(op, c, long, short, by) = IF short.neg THEN Radix - 1 ELSE c
    BY <1>2 DEF Beyond, OrTail
  <2> QED BY <1>2, <2>1, <2>2, SignWords DEF SignWord, Follows
<1>3. CASE op = "and"
  <2>1. Beyond(op, c, long, short, by) =
           IF ~ short.neg THEN 0 ELSE IF long.neg /\ by = "library" THEN Radix - 1 - c ELSE c
    BY <1>3 DEF Beyond, AndTail
  <2>2. Bits(op, c, SignWord(short.neg)) = IF short.neg THEN c ELSE 0
    BY <1>3, SignWords DEF SignWord
  <2>3. Odd(op, long, short, by) <=> by = "library" /\ long.neg /\ short.neg
    BY <1>3 DEF Odd
  <2> QED BY <2>1, <2>2, <2>3 DEF Follows
<1> QED BY <1>1, <1>2, <1>3 DEF Logic

(* The cells of the result, x being the operand with more of them.          *)
MadeCells(op, x, y, by) ==
    LET long == AsBignum(x)
        short == AsBignum(y)
        l == TwosComplement(long)
        s == TwosComplement(short)
    IN  [i \in DOMAIN l |->
            IF i \in DOMAIN s THEN Bits(op, l[i], s[i]) ELSE Beyond(op, l[i], long, short, by)]

Size(n) == Len(AsBignum(n).cells)
Tailed(op, x, y, by) == op = "and" /\ by = "library" /\ x < 0 /\ y < 0 /\ Size(x) # Size(y)

WordsOf(c, l, op, x, y, tailed) ==
    /\ c \in Seq(Digit) /\ Len(c) = l
    /\ ~ tailed => \A i \in Nat : i < l => c[i + 1] = Bits(op, Dig(x, i + 1), Dig(y, i + 1))
    /\ tailed => c[l] = Radix - 1 - Bits(op, Dig(x, l), Dig(y, l))

LEMMA MadeCellsAre ==
    ASSUME NEW op \in Logic, NEW x \in Int, NEW y \in Int, NEW by, Size(y) <= Size(x)
    PROVE  WordsOf(MadeCells(op, x, y, by), Size(x), op, x, y, Tailed(op, x, y, by))
<1> DEFINE long == AsBignum(x)
           short == AsBignum(y)
           l == TwosComplement(long)
           s == TwosComplement(short)
           c == MadeCells(op, x, y, by)
           L == Size(x)
           K == Size(y)
<1>1. /\ L \in Nat /\ L >= 1 /\ l \in Seq(Digit) /\ Len(l) = L
      /\ \A i \in Nat : i < L => l[i + 1] = Dig(x, i + 1)
  BY TwosIs DEF Size
<1>2. /\ K \in Nat /\ s \in Seq(Digit) /\ Len(s) = K /\ Abs(y) < Power(Radix, K)
      /\ \A i \in Nat : i < K => s[i + 1] = Dig(y, i + 1)
  BY TwosIs DEF Size
<1>3. long.neg = (x < 0) /\ short.neg = (y < 0) /\ long.neg \in BOOLEAN /\ short.neg \in BOOLEAN
  BY AsBignumCells
<1>4. DOMAIN l = 1 .. L /\ DOMAIN s = 1 .. K
  BY <1>1, <1>2
<1>5. c = [i \in 1 .. L |-> IF i \in 1 .. K THEN Bits(op, l[i], s[i])
                            ELSE Beyond(op, l[i], long, short, by)]
  BY <1>4 DEF MadeCells
<1> HIDE DEF c, l, s, long, short, L, K
<1>6. ASSUME NEW i \in Nat, i < L
      PROVE  /\ Dig(x, i + 1) \in Digit /\ Dig(y, i + 1) \in Digit
             /\ i < K => c[i + 1] = Bits(op, Dig(x, i + 1), Dig(y, i + 1))
             /\ i >= K => /\ c[i + 1] = Beyond(op, Dig(x, i + 1), long, short, by)
                          /\ Dig(y, i + 1) = SignWord(short.neg)
  <2>1. i + 1 \in 1 .. L /\ (i + 1 \in 1 .. K <=> i < K)
    BY <1>1, <1>2, <1>6
  <2>2. Dig(x, i + 1) \in Digit /\ Dig(y, i + 1) \in Digit
    BY DigIs
  <2>3. l[i + 1] = Dig(x, i + 1) /\ (i < K => s[i + 1] = Dig(y, i + 1))
    BY <1>1, <1>2, <1>6
  <2>4. i < K => c[i + 1] = Bits(op, Dig(x, i + 1), Dig(y, i + 1))
    BY <1>5, <2>1, <2>3
  <2>5. i >= K => c[i + 1] = Beyond(op, Dig(x, i + 1), long, short, by)
    <3> SUFFICES ASSUME i >= K PROVE c[i + 1] = Beyond(op, Dig(x, i + 1), long, short, by)
      OBVIOUS
    <3>1. ~ (i + 1 \in 1 .. K)
      BY <1>2, <2>1
    <3> QED BY <1>5, <2>1, <2>3, <3>1
  <2>6. i >= K => Dig(y, i + 1) = SignWord(short.neg)
    <3> SUFFICES ASSUME i >= K PROVE Dig(y, i + 1) = SignWord(short.neg)
      OBVIOUS
    <3>1. Dig(y, i + 1) = IF y < 0 THEN Radix - 1 ELSE 0
      BY <1>2, HighDigits
    <3> QED BY <1>3, <3>1 DEF SignWord
  <2> QED BY <2>2, <2>4, <2>5, <2>6
<1>7. ASSUME NEW i \in Nat, i < L, i >= K
      PROVE  LET b == Bits(op, Dig(x, i + 1), Dig(y, i + 1))
             IN  c[i + 1] = IF Odd(op, long, short, by) THEN Radix - 1 - b ELSE b
  <2> DEFINE d == Dig(x, i + 1)
             b == Bits(op, d, Dig(y, i + 1))
  <2>1. d \in Digit /\ c[i + 1] = Beyond(op, d, long, short, by)
        /\ b = Bits(op, d, SignWord(short.neg))
    BY <1>6, <1>7
  <2> HIDE DEF d
  <2>2. Follows(op, d, long, short, by)
    <3>1. d \in Digit
      BY <2>1
    <3>2. long.neg \in BOOLEAN /\ short.neg \in BOOLEAN
      BY <1>3
    <3> QED BY <3>1, <3>2, BeyondIs
  <2> HIDE DEF b
  <2>3. c[i + 1] = IF Odd(op, long, short, by) THEN Radix - 1 - b ELSE b
    BY <2>1, <2>2 DEF Follows
  <2> QED BY <2>3 DEF b, d
<1>8. c \in Seq(Digit) /\ Len(c) = L
  <2>1. ASSUME NEW j \in 1 .. L PROVE c[j] \in Digit
    <3>1. j - 1 \in Nat /\ j - 1 < L /\ (j - 1) + 1 = j
      BY <1>1
    <3> DEFINE b == Bits(op, Dig(x, j), Dig(y, j))
    <3>2. Dig(x, j) \in Digit /\ Dig(y, j) \in Digit
      BY <1>6, <3>1
    <3>3. Dig(x, j) \in Int /\ Dig(y, j) \in Int
      BY <3>2, Words DEF Digit
    <3>4. b \in Digit
      BY <3>3, BitsIs
    <3>5. Radix - 1 - b \in Digit
      <4> HIDE DEF b
      <4> QED BY <3>4, Words DEF Digit
    <3>6. j - 1 < K \/ j - 1 >= K
      BY <1>2
    <3>7. c[j] = b \/ c[j] = Radix - 1 - b
      BY <1>6, <1>7, <3>1, <3>6
    <3> QED BY <3>4, <3>5, <3>7
  <2>2. c \in [1 .. L -> Digit]
    BY <1>5, <2>1
  <2> QED BY <1>1, <2>2
<1>9. Odd(op, long, short, by) /\ L # K <=> Tailed(op, x, y, by)
  BY <1>3 DEF Odd, Tailed, L, K
<1>10. ASSUME ~ Tailed(op, x, y, by), NEW i \in Nat, i < L
       PROVE  c[i + 1] = Bits(op, Dig(x, i + 1), Dig(y, i + 1))
  <2>1. CASE i < K
    BY <1>6, <1>10, <2>1
  <2>2. CASE i >= K
    <3>1. L # K
      BY <1>1, <1>2, <1>10, <2>2
    <3> QED BY <1>7, <1>9, <1>10, <2>2, <3>1
  <2> QED BY <1>2, <2>1, <2>2
<1>11. ASSUME Tailed(op, x, y, by)
       PROVE  c[L] = Radix - 1 - Bits(op, Dig(x, L), Dig(y, L))
  <2>1. L # K /\ Odd(op, long, short, by)
    BY <1>9, <1>11
  <2>2. L - 1 \in Nat /\ L - 1 < L /\ (L - 1) + 1 = L
    BY <1>1
  <2>3. L - 1 >= K
    BY <1>1, <1>2, <2>1 DEF L, K
  <2> QED BY <1>7, <2>1, <2>2, <2>3
<1> QED BY <1>8, <1>10, <1>11 DEF WordsOf, c, L

(* The cells of Logical are those of the operands in the order of their     *)
(* lengths.                                                                 *)
LogicCells(op, m, n, by) ==
    IF Size(m) < Size(n) THEN MadeCells(op, n, m, by) ELSE MadeCells(op, m, n, by)

IsUnsigned(op, m, n) ==
    IF op = "and" THEN ~ (m < 0 /\ n < 0) ELSE ~ (m < 0) /\ ~ (n < 0)

LEMMA LogicalIs ==
    ASSUME NEW op \in Logic, NEW m \in Int, NEW n \in Int, NEW by
    PROVE  /\ WordsOf(LogicCells(op, m, n, by), Max({Size(m), Size(n)}), op, m, n,
                     Tailed(op, m, n, by))
           /\ Logical(op, AsBignum(m), AsBignum(n), by) =
                 IF IsUnsigned(op, m, n) THEN Normalize(FALSE, LogicCells(op, m, n, by))
                 ELSE TwosComplementToSignMagnitude(LogicCells(op, m, n, by))
<1> DEFINE a == AsBignum(m)
           b == AsBignum(n)
           c == LogicCells(op, m, n, by)
<1>1. Size(m) \in Nat /\ Size(n) \in Nat
  BY TwosIs DEF Size
<1>2. a.neg = (m < 0) /\ b.neg = (n < 0)
  BY AsBignumCells
<1>3. /\ Max({Size(m), Size(n)}) = IF Size(m) < Size(n) THEN Size(n) ELSE Size(m)
  <2> DEFINE x == Size(m)
             y == Size(n)
  <2> HIDE DEF x, y
  <2>1. x \in Nat /\ y \in Nat
    BY <1>1 DEF x, y
  <2>2. Max({x, y}) \in {x, y} /\ Max({x, y}) >= x /\ Max({x, y}) >= y
    BY <2>1, MaxOfTwo
  <2>3. Max({x, y}) = IF x < y THEN y ELSE x
    BY <2>1, <2>2
  <2> QED BY <2>3 DEF x, y
<1>4. WordsOf(c, Max({Size(m), Size(n)}), op, m, n, Tailed(op, m, n, by))
  <2>1. CASE Size(m) < Size(n)
    <3>1. WordsOf(c, Size(n), op, n, m, Tailed(op, n, m, by))
      BY <1>1, <2>1, MadeCellsAre DEF LogicCells
    <3>2. Tailed(op, n, m, by) = Tailed(op, m, n, by)
      BY DEF Tailed
    <3>3. \A i \in Nat : Bits(op, Dig(n, i + 1), Dig(m, i + 1))
                            = Bits(op, Dig(m, i + 1), Dig(n, i + 1))
      <4> TAKE i \in Nat
      <4> DEFINE x == Dig(n, i + 1)
                 y == Dig(m, i + 1)
      <4>1. x \in Int /\ y \in Int
        <5>1. x \in Nat /\ y \in Nat
          BY DigIs
        <5> HIDE DEF x, y
        <5> QED BY <5>1
      <4> HIDE DEF x, y
      <4>2. Bits(op, x, y) = Bits(op, y, x)
        BY <4>1, BitsIs
      <4> QED BY <4>2 DEF x, y
    <3> DEFINE l == Size(n)
    <3>4. Bits(op, Dig(n, l), Dig(m, l)) = Bits(op, Dig(m, l), Dig(n, l))
      <4>1. l - 1 \in Nat /\ (l - 1) + 1 = l
        BY <1>1, <2>1
      <4> HIDE DEF l
      <4> QED BY <3>3, <4>1
    <3> HIDE DEF l, c
    <3>5. WordsOf(c, l, op, m, n, Tailed(op, m, n, by))
      BY <3>1, <3>2, <3>3, <3>4 DEF WordsOf, l
    <3> QED BY <1>3, <2>1, <3>5 DEF l
  <2>2. CASE ~ (Size(m) < Size(n))
    <3>1. Size(n) <= Size(m)
      BY <1>1, <2>2
    <3>2. WordsOf(c, Size(m), op, m, n, Tailed(op, m, n, by))
      BY <2>2, <3>1, MadeCellsAre DEF LogicCells
    <3> QED BY <1>3, <2>2, <3>2
  <2> QED BY <2>1, <2>2
<1>5. IsUnsigned(op, m, n) = IF op = "and" THEN ~ (a.neg /\ b.neg) ELSE ~ a.neg /\ ~ b.neg
  BY <1>2 DEF IsUnsigned
<1>6. Logical(op, a, b, by) = IF IsUnsigned(op, m, n) THEN Normalize(FALSE, c)
                              ELSE TwosComplementToSignMagnitude(c)
  <2>1. CASE Size(m) < Size(n)
    <3>1. Len(a.cells) < Len(b.cells)
      BY <2>1 DEF Size
    <3>2. c = MadeCells(op, n, m, by)
      BY <2>1 DEF LogicCells
    <3> HIDE DEF c, a, b
    <3> QED BY <1>5, <3>1, <3>2 DEF Logical, MadeCells, a, b
  <2>2. CASE ~ (Size(m) < Size(n))
    <3>1. ~ (Len(a.cells) < Len(b.cells))
      BY <2>2 DEF Size
    <3>2. c = MadeCells(op, m, n, by)
      BY <2>2 DEF LogicCells
    <3> HIDE DEF c, a, b
    <3> QED BY <1>5, <3>1, <3>2 DEF Logical, MadeCells, a, b
  <2> QED BY <2>1, <2>2
<1> QED BY <1>4, <1>6

(* The integer meant: what the cells hold, less the weight of the sign bit. *)
SignOf(op, m, n) ==
    BitOf(op, IF m < 0 THEN 1 ELSE 0, IF n < 0 THEN 1 ELSE 0)

LogicMeant(op, m, n) ==
    LET l == Max({Length(Abs(m)), Length(Abs(n))})
    IN  BitSum(op, m, n)[Wide * l] - SignOf(op, m, n) * Power(Radix, l)

LEMMA SignOfIs ==
    ASSUME NEW op \in Logic, NEW m \in Int, NEW n \in Int
    PROVE  /\ SignOf(op, m, n) \in {0, 1}
           /\ IsUnsigned(op, m, n) => SignOf(op, m, n) = 0
           /\ op # "xor" /\ ~ IsUnsigned(op, m, n) => SignOf(op, m, n) = 1
<1> DEFINE x == IF m < 0 THEN 1 ELSE 0
           y == IF n < 0 THEN 1 ELSE 0
<1>1. CASE op = "xor"
  BY <1>1 DEF SignOf, BitOf, IsUnsigned
<1>2. CASE op = "ior"
  BY <1>2 DEF SignOf, BitOf, IsUnsigned
<1>3. CASE op = "and"
  BY <1>3 DEF SignOf, BitOf, IsUnsigned
<1> QED BY <1>1, <1>2, <1>3 DEF Logic

LEMMA MeantIs ==
    ASSUME NEW op \in Logic, NEW m \in Int, NEW n \in Int
    PROVE  LET l == Max({Length(Abs(m)), Length(Abs(n))})
           IN  /\ l \in Nat /\ l >= 1 /\ l = Max({Size(m), Size(n)})
               /\ 2 * HalfBits * l = Wide * l
               /\ BitOf(op, Bit(m, Wide * l), Bit(n, Wide * l)) = SignOf(op, m, n)
               /\ Power(2, Wide * l) = Power(Radix, l)
<1> DEFINE x == Length(Abs(m))
           y == Length(Abs(n))
           l == Max({x, y})
<1>1. Size(m) = x /\ Size(n) = y /\ x \in Nat /\ y \in Nat
  BY LengthOf DEF Size
<1>2. x >= 1 /\ Abs(m) < Power(Radix, x) /\ Abs(n) < Power(Radix, y)
  BY AbsIs, LengthIs
<1> HIDE DEF x, y
<1>3. l \in Nat /\ l >= x /\ l >= y
  BY <1>1, MaxOfTwo
<1>4. l >= 1 /\ l = Max({Size(m), Size(n)})
  BY <1>1, <1>2, <1>3
<1> HIDE DEF l
<1>5. 2 * HalfBits * l = Wide * l
  BY DEF Wide
<1>6. Power(2, Wide * l) = Power(Radix, l)
  BY <1>3, WordBits DEF Wide
<1>7. Abs(m) < Power(Radix, l) /\ Abs(n) < Power(Radix, l)
  <2>0. Radix \in Nat /\ Radix >= 2 /\ x <= l /\ y <= l /\ l \in Nat
    BY <1>1, <1>3, Words
  <2>1. /\ Power(Radix, x) <= Power(Radix, l) /\ Power(Radix, y) <= Power(Radix, l)
        /\ Power(Radix, x) \in Nat /\ Power(Radix, l) \in Nat /\ Power(Radix, y) \in Nat
    <3>1. Power(Radix, x) <= Power(Radix, l)
      BY <1>1, <2>0, PowerGrows
    <3>2. Power(Radix, y) <= Power(Radix, l)
      BY <1>1, <2>0, PowerGrows
    <3> QED BY <1>1, <2>0, <3>1, <3>2, Weights
  <2>2. Abs(m) \in Nat /\ Abs(n) \in Nat
    BY AbsIs
  <2> QED BY <1>2, <2>1, <2>2
<1>8. Bit(m, Wide * l) = (IF m < 0 THEN 1 ELSE 0) /\ Bit(n, Wide * l) = (IF n < 0 THEN 1 ELSE 0)
  BY <1>3, <1>7, SignBit
<1>9. BitOf(op, Bit(m, Wide * l), Bit(n, Wide * l)) = SignOf(op, m, n)
  BY <1>8 DEF SignOf
<1> QED BY <1>3, <1>4, <1>5, <1>6, <1>9 DEF l, x, y

NoRoom(op, m, n) ==
    LET h == Power(Radix, Max({Length(Abs(m)), Length(Abs(n))})) \div 2
    IN  ~ IsUnsigned(op, m, n) /\ LogicMeant(op, m, n) \notin -h .. h - 1

LEMMA Halved ==
    ASSUME NEW l \in Nat, l >= 1
    PROVE  LET w == Power(Radix, l) IN w \in Nat /\ w \div 2 \in Nat /\ w = 2 * (w \div 2)
<1> DEFINE v == Power(Radix, l - 1)
           w == Power(Radix, l)
           r == Radix \div 2
           e == r * v
<1>1. l - 1 \in Nat /\ (l - 1) + 1 = l
  OBVIOUS
<1>2. v \in Nat /\ w = Radix * v
  BY <1>1, Weights
<1>3. r \in Nat /\ Radix = 2 * r
  BY HalfRadix
<1> HIDE DEF v, w, r
<1>4. e \in Nat /\ w = 2 * e
  BY <1>2, <1>3
<1> HIDE DEF e
<1>5. w \in Nat /\ w \div 2 = e
  BY <1>4
<1> QED BY <1>4, <1>5 DEF w

(* When the cells taken with their top bit for the sign are the integer     *)
(* meant.                                                                   *)
LEMMA TonedIs ==
    ASSUME NEW S \in Nat, NEW w \in Nat, S < w, NEW h \in Nat, w = 2 * h, NEW s \in {0, 1}
    PROVE  Toned(S, w) = S - s * w <=> S - s * w \in -h .. h - 1
<1>1. CASE s = 0
  <2>1. s * w = 0
    BY <1>1
  <2>2. Toned(S, w) = S <=> S <= h - 1
    BY DEF Toned
  <2>3. S - 0 \in -h .. h - 1 <=> S <= h - 1
    OBVIOUS
  <2> QED BY <2>1, <2>2, <2>3
<1>2. CASE s = 1
  <2>1. s * w = w
    BY <1>2
  <2>2. Toned(S, w) = S - w <=> S >= h
    BY DEF Toned
  <2>3. S - w \in -h .. h - 1 <=> S >= h
    OBVIOUS
  <2> QED BY <2>1, <2>2, <2>3
<1> QED BY <1>1, <1>2

(* The sum that is meant is that of the words of the operands.              *)
MeantWords(op, m, n, l) == [i \in 1 .. l |-> Bits(op, Dig(m, i), Dig(n, i))]

LEMMA MeantSum ==
    ASSUME NEW op \in Logic, NEW m \in Int, NEW n \in Int, NEW l \in Nat
    PROVE  LET e == MeantWords(op, m, n, l)
           IN  /\ e \in Seq(Digit) /\ Len(e) = l
               /\ Magnitude(e) = BitSum(op, m, n)[Wide * l]
               /\ BitSum(op, m, n)[Wide * l] \in Nat
               /\ BitSum(op, m, n)[Wide * l] < Power(Radix, l)
<1> DEFINE b(i) == Bits(op, Dig(m, i), Dig(n, i))
           e == [i \in 1 .. l |-> b(i)]
<1>1. ASSUME NEW i \in 1 .. l PROVE b(i) \in Digit
  <2> DEFINE x == Dig(m, i)
             y == Dig(n, i)
  <2>1. i - 1 \in Nat /\ (i - 1) + 1 = i
    OBVIOUS
  <2>2. x \in Nat /\ y \in Nat
    BY <2>1, DigIs
  <2>3. x \in Int /\ y \in Int
    <3> HIDE DEF x, y
    <3> QED BY <2>2
  <2> HIDE DEF x, y
  <2>4. Bits(op, x, y) \in Digit
    BY <2>3, BitsIs
  <2> QED BY <2>4 DEF x, y
<1>2. \A i \in 1 .. l : e[i] = b(i)
  <2> HIDE DEF b
  <2> QED OBVIOUS
<1>3. e \in Seq(Digit) /\ Len(e) = l
  <2>1. e \in [1 .. l -> Digit]
    <3> HIDE DEF b
    <3> QED BY <1>1
  <2> QED BY <2>1
<1>4. \A i \in Nat : i < Len(e) => e[i + 1] = Bits(op, Dig(m, i + 1), Dig(n, i + 1))
  <2> TAKE i \in Nat
  <2> HAVE i < Len(e)
  <2>1. i + 1 \in 1 .. l
    BY <1>3
  <2>2. e[i + 1] = b(i + 1)
    BY <1>2, <2>1
  <2> QED BY <2>2
<1> HIDE DEF e
<1>5. Magnitude(e) = BitSum(op, m, n)[Wide * l]
  BY <1>3, <1>4, DigitsValue
<1>6. Magnitude(e) \in Nat /\ Magnitude(e) < Power(Radix, l)
  BY <1>3, MagnitudeIs
<1> QED BY <1>3, <1>5, <1>6 DEF e, MeantWords

(* Complementing the top word gives another number.                         *)
LEMMA OtherTop ==
    ASSUME NEW c \in Seq(Digit), NEW e \in Seq(Digit), NEW l \in Nat, l >= 1,
           Len(c) = l, Len(e) = l, c[l] = Radix - 1 - e[l]
    PROVE  Magnitude(c) # Magnitude(e)
<1> SUFFICES ASSUME Magnitude(c) = Magnitude(e) PROVE FALSE
  OBVIOUS
<1>1. Value(c, l) = Value(e, l)
  BY DEF Magnitude
<1>2. l \in 1 .. l
  OBVIOUS
<1>3. At(c, l) = At(e, l)
  BY <1>1, <1>2, SameDigits
<1>4. c[l] = At(c, l) /\ e[l] = At(e, l) /\ At(e, l) \in Nat
  <2>1. l \in 1 .. Len(c) /\ l \in 1 .. Len(e) /\ l \in Int
    BY <1>2
  <2>2. c[l] = At(c, l)
    BY <2>1, AtIs
  <2>3. e[l] = At(e, l) /\ At(e, l) \in Nat
    BY <2>1, AtIs
  <2> QED BY <2>2, <2>3
<1> DEFINE x == At(e, l)
           h == Radix \div 2
<1>5. x \in Nat /\ x = Radix - 1 - x
  BY <1>3, <1>4
<1>6. h \in Nat /\ Radix = 2 * h
  BY HalfRadix
<1> HIDE DEF x, h
<1> QED BY <1>5, <1>6

LEMMA LogicalExact ==
    ASSUME NEW op \in Logic, NEW m \in Int, NEW n \in Int, NEW by
    PROVE  /\ LogicMeant(op, m, n) \in Int
           /\ Logical(op, AsBignum(m), AsBignum(n), by) = Canonical(LogicMeant(op, m, n))
              <=> ~ (NoRoom(op, m, n) \/ Tailed(op, m, n, by))
<1> DEFINE l == Max({Length(Abs(m)), Length(Abs(n))})
           w == Power(Radix, l)
           h == w \div 2
           S == BitSum(op, m, n)[Wide * l]
           s == SignOf(op, m, n)
           r == LogicMeant(op, m, n)
           c == LogicCells(op, m, n, by)
           M == Magnitude(c)
           x == Logical(op, AsBignum(m), AsBignum(n), by)
           e == MeantWords(op, m, n, l)
<1>1. l \in Nat /\ l >= 1 /\ l = Max({Size(m), Size(n)})
  BY MeantIs
<1>2. s \in {0, 1}
  BY SignOfIs
<1>3. r = S - s * w
  BY DEF LogicMeant
<1>4. /\ WordsOf(c, l, op, m, n, Tailed(op, m, n, by))
      /\ x = IF IsUnsigned(op, m, n) THEN Normalize(FALSE, c) ELSE TwosComplementToSignMagnitude(c)
  BY <1>1, LogicalIs
<1> HIDE DEF l
<1>5. w \in Nat /\ h \in Nat /\ w = 2 * h
  BY <1>1, Halved
<1>6. e \in Seq(Digit) /\ Len(e) = l /\ Magnitude(e) = S /\ S \in Nat /\ S < w
  BY <1>1, MeantSum
<1>7. c \in Seq(Digit) /\ Len(c) = l
  BY <1>4 DEF WordsOf
<1>8. M \in Nat /\ M < w
  BY <1>7, MagnitudeIs
<1>9. /\ Normalize(FALSE, c) = Canonical(M)
      /\ TwosComplementToSignMagnitude(c) = Canonical(Toned(M, w)) /\ Toned(M, w) \in Int
  <2>1. Normalize(FALSE, c) = Canonical(Sign(FALSE, M))
    BY <1>7, SignedIs
  <2> QED BY <1>1, <1>7, <2>1, ToSignMagnitude DEF Sign
<1>10. NoRoom(op, m, n) <=> ~ IsUnsigned(op, m, n) /\ r \notin -h .. h - 1
  BY DEF NoRoom, l
<1>11. r \in Int
  <2> HIDE DEF S, s, w, r
  <2>1. s * w \in Nat
    BY <1>2, <1>5
  <2> QED BY <1>3, <1>6, <2>1
<1>12. CASE ~ Tailed(op, m, n, by)
  <2>1. M = S
    <3>1. \A i \in Nat : i < Len(c) => c[i + 1] = Bits(op, Dig(m, i + 1), Dig(n, i + 1))
      BY <1>4, <1>12 DEF WordsOf
    <3> QED BY <1>7, <3>1, DigitsValue
  <2> HIDE DEF c, e, M, S, s, w, h, r, x
  <2>2. CASE IsUnsigned(op, m, n)
    <3>1. s = 0
      BY <2>2, SignOfIs DEF s
    <3>2. r = S
      BY <1>3, <1>5, <1>6, <3>1
    <3> QED BY <1>4, <1>9, <1>10, <1>11, <1>12, <2>1, <2>2, <3>2 DEF r, x
  <2>3. CASE ~ IsUnsigned(op, m, n)
    <3>1. x = Canonical(Toned(S, w)) /\ Toned(S, w) \in Int
      BY <1>4, <1>9, <2>1, <2>3
    <3>2. x = Canonical(r) <=> Toned(S, w) = r
      BY <1>11, <3>1, CanonicalDiffers
    <3>3. Toned(S, w) = S - s * w <=> S - s * w \in -h .. h - 1
      BY <1>2, <1>5, <1>6, TonedIs
    <3>4. Toned(S, w) = r <=> r \in -h .. h - 1
      BY <1>3, <3>3
    <3> QED BY <1>10, <1>11, <1>12, <2>3, <3>2, <3>4 DEF r, x
  <2> QED BY <2>2, <2>3
<1>13. CASE Tailed(op, m, n, by)
  <2>1. ~ IsUnsigned(op, m, n) /\ op = "and"
    BY <1>13 DEF Tailed, IsUnsigned
  <2>2. s = 1
    BY <2>1, SignOfIs
  <2>3. l \in 1 .. l
    BY <1>1
  <2>4. e[l] = Bits(op, Dig(m, l), Dig(n, l))
    <3> DEFINE b(i) == Bits(op, Dig(m, i), Dig(n, i))
    <3>1. e = [i \in 1 .. l |-> b(i)]
      BY DEF MeantWords
    <3> HIDE DEF b, e
    <3>2. e[l] = b(l)
      BY <2>3, <3>1
    <3> QED BY <3>2 DEF b
  <2>5. c[l] = Radix - 1 - e[l]
    BY <1>4, <1>13, <2>4 DEF WordsOf
  <2> HIDE DEF e, c
  <2>6. M # S
    BY <1>1, <1>6, <1>7, <2>5, OtherTop
  <2> HIDE DEF M, S, s, w, h, r, x
  <2>7. x = Canonical(Toned(M, w)) /\ Toned(M, w) \in Int
    BY <1>4, <1>9, <2>1
  <2>8. r = S - w
    BY <1>3, <1>5, <1>6, <2>2
  <2>9. Toned(M, w) # r
    BY <1>5, <1>6, <1>8, <2>6, <2>8 DEF Toned
  <2>10. x # Canonical(r)
    BY <1>11, <2>7, <2>9, CanonicalDiffers
  <2> QED BY <1>11, <1>13, <2>10 DEF x, r
<1> QED BY <1>12, <1>13

(* Complementing every word.                                                *)
LEMMA Complemented ==
    ASSUME NEW t \in Seq(Digit), NEW c \in Seq(Digit), Len(c) = Len(t),
           \A i \in 1 .. Len(t) : c[i] = Radix - 1 - t[i]
    PROVE  Magnitude(c) = Power(Radix, Len(t)) - 1 - Magnitude(t)
<1> DEFINE l == Len(t)
           S == {i \in Nat : i <= l => Value(c, i) = Power(Radix, i) - 1 - Value(t, i)}
<1>1. 0 \in S
  <2>1. Value(c, 0) = 0 /\ Value(t, 0) = 0 /\ Power(Radix, 0) = 1
    BY ValueIs, Weights
  <2> QED BY <2>1
<1>2. ASSUME NEW i \in Nat, i \in S
      PROVE  i + 1 \in S
  <2> SUFFICES ASSUME i + 1 <= l
               PROVE  Value(c, i + 1) = Power(Radix, i + 1) - 1 - Value(t, i + 1)
    BY DEF S
  <2> DEFINE w == Power(Radix, i)
             a == t[i + 1]
             u == Value(t, i)
             v == Value(c, i)
  <2>1. l \in Nat /\ i + 1 \in 1 .. l
    BY AtIs
  <2>2. v = w - 1 - u
    BY <1>2, <2>1
  <2>3. At(t, i + 1) = a /\ At(c, i + 1) = Radix - 1 - a /\ At(t, i + 1) \in Nat
    <3>1. i + 1 \in Int
      OBVIOUS
    <3> QED BY <2>1, <3>1, AtIs
  <2>4. a \in Nat
    BY <2>3
  <2>5. Value(t, i + 1) = u + a * w /\ Value(c, i + 1) = v + (Radix - 1 - a) * w /\ u \in Nat
    BY <2>3, ValueIs
  <2>6. w \in Nat /\ Power(Radix, i + 1) = Radix * w /\ Radix \in Nat
    BY Weights, Words
  <2> HIDE DEF w, a, u, v
  <2>7. (Radix - 1 - a) * w = (Radix * w - w) - a * w
    BY <2>4, <2>6
  <2> DEFINE rw == Radix * w
             aw == a * w
  <2>8. rw \in Nat /\ aw \in Nat
    BY <2>4, <2>6
  <2>9. Value(t, i + 1) = u + aw /\ Value(c, i + 1) = v + ((rw - w) - aw) /\ Power(Radix, i + 1) = rw
    BY <2>5, <2>6, <2>7
  <2> HIDE DEF rw, aw
  <2> QED BY <2>2, <2>5, <2>6, <2>8, <2>9
<1> HIDE DEF S
<1>3. l \in S /\ l \in Nat
  BY <1>1, <1>2, Induction, AtIs
<1> QED BY <1>3 DEF S, Magnitude

(* One more cell at the top, empty.                                         *)
LEMMA Widened ==
    ASSUME NEW c \in Seq(Digit)
    PROVE  LET d == c \o <<0>>
           IN  d \in Seq(Digit) /\ Len(d) = Len(c) + 1 /\ Magnitude(d) = Magnitude(c)
<1> DEFINE d == c \o <<0>>
           l == Len(c)
<1>1. 0 \in Digit
  BY Words DEF Digit
<1>2. <<0>> \in Seq(Digit) /\ Len(<<0>>) = 1
  BY <1>1
<1>3. d \in Seq(Digit) /\ Len(d) = l + 1 /\ l \in Nat
  BY <1>2
<1>4. \A i \in 1 .. l : d[i] = c[i]
  OBVIOUS
<1>5. d[l + 1] = 0
  BY <1>3
<1> HIDE DEF d
<1>6. \A i \in 1 .. l : At(d, i) = At(c, i)
  <2> TAKE i \in 1 .. l
  <2>1. i \in 1 .. Len(d)
    BY <1>3
  <2> QED BY <1>3, <1>4, <2>1, AtIs
<1>7. Value(d, l) = Magnitude(c)
  <2>1. Value(d, l) = Value(c, l)
    BY <1>3, <1>6, ValueSame
  <2> QED BY <2>1 DEF Magnitude
<1>8. At(d, l + 1) = 0
  <2>1. l + 1 \in 1 .. Len(d)
    BY <1>3
  <2> QED BY <1>3, <1>5, <2>1, AtIs
<1>9. Value(d, l + 1) = Value(d, l) + 0 * Power(Radix, l)
  BY <1>3, <1>8, ValueIs
<1>10. 0 * Power(Radix, l) = 0 /\ Value(d, l) \in Nat
  BY <1>3, Weights, ValueIs
<1>11. Magnitude(d) = Value(d, l + 1)
  BY <1>3 DEF Magnitude
<1> QED BY <1>3, <1>7, <1>9, <1>10, <1>11 DEF d

LEMMA NotIs ==
    ASSUME NEW n \in Int
    PROVE  BignumNot(AsBignum(n)) = Canonical(-1 - n)
<1> DEFINE b == AsBignum(n)
           l == Len(b.cells)
           M == Abs(n)
           wide == [b EXCEPT !.cells = b.cells \o <<0>>]
           t == TwosComplement(wide)
           c == [i \in DOMAIN wide.cells |-> Radix - 1 - t[i]]
           v == Power(Radix, l)
           w == Power(Radix, l + 1)
<1>1. b.cells \in Seq(Digit) /\ Magnitude(b.cells) = M /\ b.neg = (n < 0)
  BY AsBignumCells
<1>2. wide.cells = b.cells \o <<0>> /\ wide.neg = (n < 0)
  <2>1. b = Bignum(b.neg, b.cells)
    BY DEF AsBignum, FixnumToBignum, Bignum
  <2> HIDE DEF b
  <2>2. b = [tag |-> "bignum", neg |-> b.neg, cells |-> b.cells]
    BY <2>1 DEF Bignum
  <2> QED BY <1>1, <2>2
<1>3. BignumNot(b) = TwosComplementToSignMagnitude(c)
  BY DEF BignumNot
<1> HIDE DEF wide, b, l
<1>4. wide.cells \in Seq(Digit) /\ Len(wide.cells) = l + 1 /\ Magnitude(wide.cells) = M /\ l \in Nat
  BY <1>1, <1>2, Widened DEF l
<1>5. M \in Nat /\ M < v /\ v \in Nat /\ w = Radix * v /\ n = IF n < 0 THEN -M ELSE M
  BY <1>1, <1>4, MagnitudeIs, AbsIs, Weights DEF l
<1> HIDE DEF M, v, w
<1>6. w >= 4 * v /\ w \in Nat
  <2>1. Radix \in Nat /\ Radix >= 4
    BY Words
  <2>2. Radix * v >= 4 * v /\ Radix * v \in Nat
    BY <1>5, <2>1
  <2> QED BY <1>5, <2>2
<1>7. /\ t \in Seq(Digit) /\ Len(t) = l + 1
      /\ Magnitude(t) = IF n < 0 THEN w - M ELSE M
  <2>1. CASE n < 0
    <3>1. t = Cells(w - M, l + 1)
      BY <1>2, <1>4, <2>1 DEF TwosComplement, w
    <3>2. w - M \in Nat /\ w - M < w /\ l + 1 \in Nat
      BY <1>4, <1>5, <1>6, <2>1
    <3> QED BY <2>1, <3>1, <3>2, CellsAre, CellsMagnitude DEF w
  <2>2. CASE n >= 0
    <3>1. (n < 0) = FALSE
      BY <2>2
    <3>2. t = wide.cells
      BY <1>2, <3>1 DEF TwosComplement
    <3> QED BY <1>4, <3>1, <3>2
  <2> QED BY <2>1, <2>2
<1>8. DOMAIN wide.cells = 1 .. l + 1
  BY <1>4
<1> HIDE DEF t
<1>9. ASSUME NEW i \in 1 .. l + 1 PROVE Radix - 1 - t[i] \in Digit
  <2>1. i \in 1 .. Len(t)
    BY <1>7
  <2>2. t[i] = At(t, i) /\ At(t, i) \in Digit
    BY <1>7, <2>1, AtIs
  <2> QED BY <2>2, Words DEF Digit
<1>10. c \in Seq(Digit) /\ Len(c) = l + 1 /\ \A i \in 1 .. l + 1 : c[i] = Radix - 1 - t[i]
  <2>1. c = [i \in 1 .. l + 1 |-> Radix - 1 - t[i]]
    BY <1>8
  <2> HIDE DEF c
  <2>2. c \in [1 .. l + 1 -> Digit]
    BY <1>9, <2>1
  <2> QED BY <1>4, <2>1, <2>2
<1> HIDE DEF c
<1>11. Magnitude(c) = w - 1 - Magnitude(t)
  BY <1>7, <1>10, Complemented DEF w
<1>12. BignumNot(b) = Canonical(Toned(Magnitude(c), w))
  <2>1. Len(c) >= 1
    BY <1>4, <1>10
  <2> QED BY <1>3, <1>10, <2>1, ToSignMagnitude DEF w
<1>13. Toned(Magnitude(c), w) = -1 - n
  <2>1. CASE n < 0
    <3>1. Magnitude(c) = M - 1 /\ n = -M
      BY <1>5, <1>6, <1>7, <1>11, <2>1
    <3>2. Toned(M - 1, w) = M - 1
      BY <1>5, <1>6 DEF Toned
    <3> QED BY <1>5, <3>1, <3>2
  <2>2. CASE n >= 0
    <3>0. (n < 0) = FALSE
      BY <2>2
    <3>1. Magnitude(c) = w - 1 - M /\ n = M
      BY <1>5, <1>6, <1>7, <1>11, <3>0
    <3>2. Toned(w - 1 - M, w) = -1 - M
      BY <1>5, <1>6 DEF Toned
    <3> QED BY <3>1, <3>2
  <2> QED BY <2>1, <2>2
<1> QED BY <1>12, <1>13 DEF b

(* The exceptions, in the terms of the lemmas.                              *)
LEMMA TailsIs ==
    ASSUME NEW op, NEW m \in Int, NEW n \in Int, NEW by
    PROVE  Tailed(op, m, n, by) <=>
              /\ op = "and" /\ by = "library"
              /\ m < 0 /\ n < 0
              /\ Length(-m) # Length(-n)
<1>1. Size(m) = Length(Abs(m)) /\ Size(n) = Length(Abs(n))
  BY LengthOf DEF Size
<1>2. m < 0 => Abs(m) = -m
  BY DEF Abs
<1>3. n < 0 => Abs(n) = -n
  BY DEF Abs
<1> QED BY <1>1, <1>2, <1>3 DEF Tailed

LEMMA CombineExact ==
    ASSUME Combine
    PROVE  LogicExact' /\ phase' = "done" /\ call'.op \in Logic
<1>1. PICK m \in Terms, n \in Terms, op \in Logic, by \in Implementations :
         /\ call' = [op |-> op, by |-> by, a |-> m, b |-> n]
         /\ phase' = "done" /\ answer' = Logical(op, AsBignum(m), AsBignum(n), by)
  BY DEF Combine, Finish
<1>2. m \in Int /\ n \in Int
  BY OperandsAssumption
<1>3. call'.op = op /\ call'.by = by /\ call'.a = m /\ call'.b = n
  BY <1>1
<1>4. op # "not"
  BY DEF Logic
<1> DEFINE l == Max({Length(Abs(m)), Length(Abs(n))})
<1>5. LogicResult' = LogicMeant(op, m, n)
  <2>1. LogicResult' = BitSum(op, m, n)[2 * HalfBits * l]
                          - BitOf(op, Bit(m, 2 * HalfBits * l), Bit(n, 2 * HalfBits * l))
                                * Power(2, 2 * HalfBits * l)
    BY <1>3, <1>4 DEF LogicResult
  <2>2. /\ 2 * HalfBits * l = Wide * l
        /\ BitOf(op, Bit(m, Wide * l), Bit(n, Wide * l)) = SignOf(op, m, n)
        /\ Power(2, Wide * l) = Power(Radix, l)
    BY <1>2, MeantIs
  <2> HIDE DEF l
  <2>3. LogicResult' = BitSum(op, m, n)[Wide * l] - SignOf(op, m, n) * Power(Radix, l)
    BY <2>1, <2>2
  <2> QED BY <2>3 DEF LogicMeant, l
<1>6. NoRoomForSign' <=> NoRoom(op, m, n)
  <2>1. NoRoomForSign' <=>
           /\ IF op = "and" THEN m < 0 /\ n < 0 ELSE m < 0 \/ n < 0
           /\ LogicMeant(op, m, n) \notin -(Power(Radix, l) \div 2) .. (Power(Radix, l) \div 2) - 1
    BY <1>3, <1>5 DEF NoRoomForSign
  <2>2. ~ IsUnsigned(op, m, n) <=> IF op = "and" THEN m < 0 /\ n < 0 ELSE m < 0 \/ n < 0
    BY DEF IsUnsigned
  <2> QED BY <2>1, <2>2 DEF NoRoom
<1>7. TailComplemented' <=> Tailed(op, m, n, by)
  <2>1. TailComplemented' <=>
           /\ op = "and" /\ by = "library"
           /\ m < 0 /\ n < 0
           /\ Length(-m) # Length(-n)
    BY <1>3 DEF TailComplemented
  <2> QED BY <1>2, <2>1, TailsIs
<1>8. answer' = Canonical(LogicResult') <=> ~ (NoRoomForSign' \/ TailComplemented')
  BY <1>1, <1>2, <1>5, <1>6, <1>7, LogicalExact
<1> QED BY <1>1, <1>3, <1>8 DEF LogicExact

LEMMA ComplementExact ==
    ASSUME Complement
    PROVE  LogicExact' /\ phase' = "done" /\ call'.op = "not"
<1>1. PICK n \in Terms, by \in Implementations :
         /\ call' = [op |-> "not", by |-> by, a |-> n, b |-> 0]
         /\ phase' = "done" /\ answer' = BignumNot(AsBignum(n))
  BY DEF Complement, Finish
<1>2. n \in Int
  BY OperandsAssumption
<1>3. call'.op = "not" /\ call'.a = n
  BY <1>1
<1>4. LogicResult' = -1 - n
  BY <1>3 DEF LogicResult
<1>5. ~ (NoRoomForSign') /\ ~ (TailComplemented')
  BY <1>3 DEF NoRoomForSign, TailComplemented, Logic
<1>6. answer' = Canonical(LogicResult')
  BY <1>1, <1>2, <1>4, NotIs
<1> QED BY <1>1, <1>3, <1>5, <1>6 DEF LogicExact

LogicInv == InDivision /\ LogicExact

LEMMA LogicStep ==
    ASSUME LogicInv, [IntegerNext]_vars
    PROVE  LogicInv'
<1>0. Logic \cup {"not"} = {"xor", "ior", "and", "not"}
  BY DEF Logic
<1>1. CASE Combine
  <2>1. LogicExact' /\ phase' = "done"
    BY <1>1, CombineExact
  <2> QED BY <2>1 DEF LogicInv, InDivision
<1>2. CASE Complement
  <2>1. LogicExact' /\ phase' = "done"
    BY <1>2, ComplementExact
  <2> QED BY <2>1 DEF LogicInv, InDivision
<1>3. CASE Calculate
  <2>1. phase' = "done" /\ call'.op \in Products
    BY <1>3 DEF Calculate, Finish
  <2> QED BY <1>0, <2>1 DEF LogicInv, LogicExact, InDivision, Products
<1>4. CASE ShiftInteger
  <2>1. phase' = "done" /\ call'.op = "ash"
    BY <1>4 DEF ShiftInteger, Finish
  <2> QED BY <1>0, <2>1 DEF LogicInv, LogicExact, InDivision
<1>5. CASE DivideFixnums
  <2>1. phase' = "done" /\ call'.op = "div"
    BY <1>5 DEF DivideFixnums, Finish
  <2> QED BY <1>0, <2>1 DEF LogicInv, LogicExact, InDivision
<1>6. CASE DivideBignums
  <2>1. call'.op \in {"div", "rem"}
    BY <1>6 DEF DivideBignums
  <2> QED BY <1>0, <2>1 DEF LogicInv, LogicExact, InDivision
<1>7. CASE QuotientStep
  <2>1. phase = "divide" /\ call' = call /\ phase' \in {"divide", "fault"}
    BY <1>7 DEF QuotientStep, Stop
  <2> QED BY <2>1 DEF LogicInv, LogicExact, InDivision
<1>8. CASE FinishDivision
  <2>1. phase = "divide" /\ call' = call /\ phase' = "done"
    BY <1>8 DEF FinishDivision, Return, Finish
  <2> QED BY <1>0, <2>1 DEF LogicInv, LogicExact, InDivision
<1>9. CASE NextCall
  <2>1. phase' = "idle"
    BY <1>9 DEF NextCall
  <2> QED BY <2>1 DEF LogicInv, LogicExact, InDivision
<1>10. CASE UNCHANGED vars
  <2>1. phase' = phase /\ call' = call /\ answer' = answer
    BY <1>10 DEF vars
  <2>2. LogicResult' = LogicResult /\ (TailComplemented' <=> TailComplemented)
    BY <2>1 DEF LogicResult, TailComplemented
  <2>3. NoRoomForSign' <=> NoRoomForSign
    BY <2>1, <2>2 DEF NoRoomForSign
  <2> QED BY <2>1, <2>2, <2>3 DEF LogicInv, LogicExact, InDivision
<1> QED BY <1>1, <1>2, <1>3, <1>4, <1>5, <1>6, <1>7, <1>8, <1>9, <1>10 DEF IntegerNext, Next

(* The logical operations are those of the integers without an end, bit by  *)
(* bit, for words of any size and all operands, except exactly where the    *)
(* result has no room for its sign or the library complements the tail of   *)
(* an AND (LispMath.cpp, Sys/bignums.lisp).                                 *)
THEOREM LogicIsExact == IntegerSpec => []LogicExact
<1>1. Init => LogicInv
  BY DEF Init, LogicInv, LogicExact, InDivision
<1>2. LogicInv /\ [IntegerNext]_vars => LogicInv'
  BY LogicStep
<1>3. LogicInv => LogicExact
  BY DEF LogicInv
<1> QED BY <1>1, <1>2, <1>3, PTL DEF IntegerSpec

(* The logical operations leave the other results alone.                    *)
LEMMA LogicAside ==
    ASSUME Combine \/ Complement
    PROVE  /\ phase' = "done"
           /\ call'.op \notin Products \cup {"ash", "div", "rem"}
<1>1. CASE Combine
  BY <1>1, CombineExact DEF Logic, Products
<1>2. CASE Complement
  BY <1>2, ComplementExact DEF Products
<1> QED BY <1>1, <1>2

(* Sums, differences, products, shifts, quotients and remainders: each is   *)
(* the canonical object of the right integer, except exactly in the cases   *)
(* that have a name, for any width of words and fixnums and all operands,   *)
(* with the logical operations among the calls.                             *)
THEOREM IntegersExact == IntegerSpec => []Exact
<1> DEFINE Inv == ArithmeticInv /\ ShiftInv /\ ExactInv
<1>1. Init => Inv
  BY DEF Init, ArithmeticInv, ArithmeticExact, ShiftInv, ShiftExact, InDivision, ExactInv, LoopInv,
         DivisionExact
<1>2. Inv /\ [IntegerNext]_vars => Inv'
  <2> SUFFICES ASSUME Inv, [IntegerNext]_vars PROVE Inv'
    OBVIOUS
  <2>1. CASE [Next]_vars
    BY <2>1, ArithmeticStep, ShiftStep, ExactStep
  <2>2. CASE Combine \/ Complement
    <3>1. phase' = "done" /\ call'.op \notin Products \cup {"ash", "div", "rem"}
      BY <2>2, LogicAside
    <3> QED BY <3>1 DEF ArithmeticInv, ArithmeticExact, ShiftInv, ShiftExact, InDivision, ExactInv,
                        LoopInv, DivisionExact
  <2> QED BY <2>1, <2>2 DEF IntegerNext
<1>3. Inv => Exact
  BY DEF ArithmeticInv, ShiftInv, ExactInv, Exact
<1> QED BY <1>1, <1>2, <1>3, PTL DEF IntegerSpec

(* Each turn of the long division leaves less than the divisor of what it   *)
(* was given, and the quotient grows by what was taken away, whenever the   *)
(* estimate fits in a word: one correction of the estimate is enough        *)
(* (subtractmul).  For words of any size and all operands.                  *)
THEOREM StepsDivide == IntegerSpec => StepDivides
<1>1. Init => LoopInv
  BY DEF Init, LoopInv
<1>2. LoopInv /\ [IntegerNext]_vars => LoopInv' /\ [Divides]_vars
  <2> SUFFICES ASSUME LoopInv, [IntegerNext]_vars PROVE LoopInv' /\ [Divides]_vars
    OBVIOUS
  <2>1. CASE [Next]_vars
    BY <2>1, LoopInvStep
  <2>2. CASE Combine \/ Complement
    <3>1. phase' = "done"
      BY <2>2, LogicAside
    <3> QED BY <3>1 DEF LoopInv, Divides
  <2> QED BY <2>1, <2>2 DEF IntegerNext
<1> QED BY <1>1, <1>2, PTL DEF IntegerSpec, StepDivides
=============================================================================
