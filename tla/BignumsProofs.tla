--------------------------- MODULE BignumsProofs ----------------------------
(***************************************************************************)
(* What is proved of Bignums, for any width of words and fixnums and any   *)
(* operands.                                                               *)
(*                                                                         *)
(* A number and its cells say the same (ValueIs, AtMagnitude, CellsAre):   *)
(* every loop over cells keeps an equation between the value of the cells  *)
(* it has been through and the carry that it hands on (CarryIs, BorrowIs,  *)
(* RowSum, ColumnValue).  A recursive function is what its definition      *)
(* says only if such a function exists, which RecursionExists proves from  *)
(* a least counterexample.                                                 *)
(*                                                                         *)
(* A row of a product falls short of what it should add as soon as one of  *)
(* its columns loses a carry (RowGap), and the first that does is the one  *)
(* that the integers tell (LostIs, RowLosesIs): until then they agree.     *)
(*                                                                         *)
(* Long division keeps the invariant Looping from digit to digit: the      *)
(* quotient so far times the divisor and the remainder so far make up the  *)
(* dividend, and either the remainder is less than the divisor at the      *)
(* place of the digit, or some digit could not be estimated in a word, and *)
(* then the remainder keeps a cell that no later step reaches.             *)
(***************************************************************************)
EXTENDS Bignums, WellFoundedInduction, SequenceTheorems, TLAPS

(* A set of natural numbers has a least element.                           *)
LEMMA LeastElement ==
    ASSUME NEW T, T \subseteq Nat, T # {}
    PROVE  \E n \in T : \A m \in T : n <= m
<1>1. IsWellFoundedOn(OpToRel(<, Nat), Nat)
  BY NatLessThanWellFounded
<1>2. PICK n \in T : \A m \in T : ~ (<<m, n>> \in OpToRel(<, Nat))
  BY <1>1, WFMin
<1>3. \A m \in T : ~ (m < n)
  BY <1>2 DEF OpToRel
<1> QED BY <1>3

(* Induction, for a set of numbers.                                        *)
LEMMA Induction ==
    ASSUME NEW S, 0 \in S, \A n \in Nat : n \in S => n + 1 \in S
    PROVE  \A n \in Nat : n \in S
<1> DEFINE Bad == Nat \ S
<1>1. SUFFICES ASSUME Bad # {}
               PROVE  FALSE
  OBVIOUS
<1>2. PICK n \in Bad : \A m \in Bad : n <= m
  BY <1>1, LeastElement
<1>3. n # 0 /\ n - 1 \in Nat
  BY <1>2
<1>4. n - 1 \in S
  BY <1>2, <1>3
<1>5. (n - 1) + 1 \in S
  BY <1>3, <1>4
<1> QED BY <1>2, <1>5

(* A function that is defined by recursion over the numbers.               *)
Recurs(f, b, G) == \A i \in Nat : f[i] = IF i = 0 THEN b ELSE G[i][f[i - 1]]

LEMMA RecursionExists ==
    ASSUME NEW S, NEW b \in S, NEW G \in [Nat -> [S -> S]]
    PROVE  \E f \in [Nat -> S] : Recurs(f, b, G)
<1> DEFINE Part(f, n) == /\ f \in [0 .. n -> S] /\ f[0] = b
                         /\ \A i \in 1 .. n : f[i] = G[i][f[i - 1]]
           T == {n \in Nat : \E f : Part(f, n)}
           U(f, g, n) == {i \in Nat : i <= n => f[i] = g[i]}
<1>1. \A n \in Nat : n \in T
  <2>1. 0 \in T
    <3>1. Part([i \in 0 .. 0 |-> b], 0)
      OBVIOUS
    <3> QED BY <3>1
  <2>2. ASSUME NEW n \in Nat, n \in T
        PROVE  n + 1 \in T
    <3>1. PICK f : Part(f, n)
      BY <2>2
    <3> DEFINE g == [i \in 0 .. n + 1 |-> IF i <= n THEN f[i] ELSE G[n + 1][f[n]]]
    <3>2. G[n + 1][f[n]] \in S
      BY <3>1
    <3>3. g \in [0 .. n + 1 -> S] /\ g[0] = b
      BY <3>1, <3>2
    <3>4. ASSUME NEW i \in 1 .. n + 1
          PROVE  g[i] = G[i][g[i - 1]]
      <4>1. CASE i <= n
        BY <3>1, <4>1
      <4>2. CASE i = n + 1
        BY <4>2
      <4> QED BY <4>1, <4>2
    <3>5. Part(g, n + 1)
      BY <3>3, <3>4
    <3> HIDE DEF g, Part
    <3> QED BY <3>5
  <2> HIDE DEF T
  <2> QED BY <2>1, <2>2, Induction
<1>2. ASSUME NEW n \in Nat, NEW m \in Nat, NEW f, NEW g, Part(f, n), Part(g, m), n <= m
      PROVE  f[n] = g[n]
  <2>1. 0 \in U(f, g, n)
    BY <1>2
  <2>2. ASSUME NEW i \in Nat, i \in U(f, g, n)
        PROVE  i + 1 \in U(f, g, n)
    <3>1. CASE i + 1 <= n
      <4>1. f[i] = g[i] /\ i + 1 \in 1 .. n /\ i + 1 \in 1 .. m /\ (i + 1) - 1 = i
        BY <1>2, <2>2, <3>1
      <4>2. f[i + 1] = G[i + 1][f[i]] /\ g[i + 1] = G[i + 1][g[i]]
        BY <1>2, <4>1
      <4> QED BY <4>1, <4>2
    <3>2. CASE ~ (i + 1 <= n)
      BY <3>2
    <3> QED BY <3>1, <3>2
  <2>3. n \in U(f, g, n)
    <3> HIDE DEF U
    <3> QED BY <2>1, <2>2, Induction
  <2> QED BY <2>3
<1>3. \A n \in Nat : \E f : Part(f, n)
  BY <1>1
<1> DEFINE F(n) == CHOOSE f : Part(f, n)
           h == [n \in Nat |-> F(n)[n]]
<1>4. \A n \in Nat : Part(F(n), n)
  BY <1>3
<1> HIDE DEF F
<1>5. h \in [Nat -> S]
  BY <1>4
<1>6. ASSUME NEW n \in Nat
      PROVE  h[n] = IF n = 0 THEN b ELSE G[n][h[n - 1]]
  <2>1. CASE n = 0
    BY <1>4, <2>1
  <2>2. CASE n # 0
    <3>1. n - 1 \in Nat /\ n \in 1 .. n /\ n - 1 <= n
      BY <2>2
    <3>2. F(n)[n] = G[n][F(n)[n - 1]]
      BY <1>4, <3>1
    <3>3. F(n - 1)[n - 1] = F(n)[n - 1]
      <4> HIDE DEF Part
      <4>1. Part(F(n - 1), n - 1) /\ Part(F(n), n)
        BY <1>4, <3>1
      <4> QED BY <1>2, <3>1, <4>1
    <3> QED BY <2>2, <3>1, <3>2, <3>3
  <2> QED BY <2>1, <2>2
<1> HIDE DEF h
<1> QED BY <1>5, <1>6 DEF Recurs

(* A function whose values stay in a set.                                  *)
Stays(f, S) == f[0] \in S /\ \A i \in Nat : f[i] \in S => f[i + 1] \in S

LEMMA StaysIn ==
    ASSUME NEW S, NEW f, Stays(f, S)
    PROVE  \A i \in Nat : f[i] \in S
<1> DEFINE T == {i \in Nat : f[i] \in S}
<1>1. 0 \in T
  BY DEF Stays
<1>2. \A i \in Nat : i \in T => i + 1 \in T
  BY DEF Stays
<1>3. \A i \in Nat : i \in T
  <2> HIDE DEF T
  <2> QED BY <1>1, <1>2, Induction
<1> QED BY <1>3

-----------------------------------------------------------------------------
(* Powers.                                                                 *)
LEMMA PowerIs ==
    ASSUME NEW b \in Nat
    PROVE  /\ Power(b, 0) = 1
           /\ \A n \in Nat : Power(b, n) \in Nat /\ Power(b, n + 1) = b * Power(b, n)
<1> DEFINE G == [i \in Nat |-> [x \in Nat |-> b * x]]
           Is(q) == q = [i \in Nat |-> IF i = 0 THEN 1 ELSE b * q[i - 1]]
           p == CHOOSE q : Is(q)
<1>1. G \in [Nat -> [Nat -> Nat]] /\ 1 \in Nat
  OBVIOUS
<1>2. \A i, x \in Nat : G[i][x] = b * x
  OBVIOUS
<1> HIDE DEF G
<1>3. \E q : Is(q)
  <2>1. PICK q \in [Nat -> Nat] : Recurs(q, 1, G)
    BY <1>1, RecursionExists
  <2>2. \A i \in Nat : i # 0 => i - 1 \in Nat /\ q[i - 1] \in Nat
    OBVIOUS
  <2>3. \A i \in Nat : q[i] = IF i = 0 THEN 1 ELSE b * q[i - 1]
    BY <1>2, <2>1, <2>2 DEF Recurs
  <2>4. Is(q)
    BY <2>3
  <2> QED BY <2>4
<1>4. Is(p)
  BY <1>3
<1>5. \A n \in Nat : Power(b, n) = p[n]
  BY DEF Power
<1> HIDE DEF p
<1>6. \A i \in Nat : p[i] = IF i = 0 THEN 1 ELSE b * p[i - 1]
  BY <1>4
<1>7. \A i \in Nat : p[i] \in Nat
  <2>1. Stays(p, Nat)
    BY <1>6 DEF Stays
  <2> QED BY <2>1, StaysIn
<1>8. \A n \in Nat : p[n + 1] = b * p[n]
  BY <1>6
<1> QED BY <1>5, <1>6, <1>7, <1>8

LEMMA PowerPositive ==
    ASSUME NEW b \in Nat, b > 0
    PROVE  \A n \in Nat : Power(b, n) > 0
<1> DEFINE S == {n \in Nat : Power(b, n) > 0}
<1>1. 0 \in S /\ \A n \in Nat : n \in S => n + 1 \in S
  <2>1. 0 \in S
    BY PowerIs
  <2>2. ASSUME NEW n \in Nat, Power(b, n) > 0
        PROVE  Power(b, n + 1) > 0
    <3>1. Power(b, n + 1) = b * Power(b, n) /\ Power(b, n) \in Nat
      BY PowerIs
    <3> QED BY <2>2, <3>1
  <2> QED BY <2>1, <2>2
<1>2. \A n \in Nat : n \in S
  <2> HIDE DEF S
  <2> QED BY <1>1, Induction
<1> QED BY <1>2

LEMMA PowerSum ==
    ASSUME NEW b \in Nat, NEW m \in Nat
    PROVE  \A n \in Nat : Power(b, m + n) = Power(b, m) * Power(b, n)
<1> DEFINE S == {n \in Nat : Power(b, m + n) = Power(b, m) * Power(b, n)}
<1>1. 0 \in S
  BY PowerIs
<1>2. ASSUME NEW n \in Nat, n \in S
      PROVE  n + 1 \in S
  <2>1. Power(b, m + (n + 1)) = b * Power(b, m + n)
    <3>1. m + (n + 1) = (m + n) + 1 /\ m + n \in Nat
      OBVIOUS
    <3> QED BY <3>1, PowerIs
  <2>2. Power(b, n + 1) = b * Power(b, n) /\ Power(b, n) \in Nat /\ Power(b, m) \in Nat
    BY PowerIs
  <2>3. b * (Power(b, m) * Power(b, n)) = Power(b, m) * (b * Power(b, n))
    BY <2>2
  <2> QED BY <1>2, <2>1, <2>2, <2>3
<1> HIDE DEF S
<1>3. \A n \in Nat : n \in S
  BY <1>1, <1>2, Induction
<1> QED BY <1>3 DEF S

LEMMA PowerGrows ==
    ASSUME NEW b \in Nat, b >= 2, NEW m \in Nat, NEW n \in Nat, m <= n
    PROVE  /\ Power(b, m) <= Power(b, n)
           /\ m < n => b * Power(b, m) <= Power(b, n)
           /\ n < Power(b, n)
<1>1. ASSUME NEW i \in Nat, NEW j \in Nat, i <= j
      PROVE  Power(b, i) <= Power(b, j)
  <2>1. j - i \in Nat /\ i + (j - i) = j
    BY <1>1
  <2>2. Power(b, j) = Power(b, i) * Power(b, j - i)
    BY <2>1, PowerSum
  <2>3. Power(b, i) \in Nat /\ Power(b, j - i) \in Nat /\ Power(b, j - i) > 0
    <3>1. b > 0
      OBVIOUS
    <3> QED BY <2>1, <3>1, PowerIs, PowerPositive
  <2> QED BY <2>2, <2>3
<1>2. m < n => b * Power(b, m) <= Power(b, n)
  <2>1. Power(b, m + 1) = b * Power(b, m)
    BY PowerIs
  <2> QED BY <1>1, <2>1
<1>3. n < Power(b, n)
  <2> DEFINE S == {i \in Nat : i < Power(b, i)}
  <2>1. 0 \in S
    BY PowerIs
  <2>2. ASSUME NEW i \in Nat, i \in S
        PROVE  i + 1 \in S
    <3>1. Power(b, i + 1) = b * Power(b, i) /\ Power(b, i) \in Nat /\ i < Power(b, i)
      BY <2>2, PowerIs
    <3>2. b * Power(b, i) >= 2 * Power(b, i)
      BY <3>1
    <3> QED BY <3>1, <3>2
  <2> HIDE DEF S
  <2>3. n \in S
    BY <2>1, <2>2, Induction
  <2> QED BY <2>3 DEF S
<1> QED BY <1>1, <1>2, <1>3

(* The sizes of words.                                                     *)
LEMMA Words ==
    /\ Half \in Nat /\ Half >= 2 /\ Radix \in Nat /\ Radix = Half * Half /\ Radix >= 4
    /\ Radix = Power(2, 2 * HalfBits)
    /\ FixLimit \in Nat /\ 2 * FixLimit <= Radix /\ FixLimit >= Half
<1>1. HalfBits \in Nat \ {0} /\ FixBits \in Nat /\ FixBits >= HalfBits /\ FixBits + 1 <= 2 * HalfBits
  BY WordAssumption
<1>2. Half \in Nat /\ Half >= 2
  <2>1. Power(2, 0) = 1 /\ Power(2, 1) = 2
    <3>1. Power(2, 0 + 1) = 2 * Power(2, 0) /\ Power(2, 0) = 1
      BY PowerIs
    <3> QED BY <3>1
  <2>2. Power(2, 1) <= Power(2, HalfBits)
    BY <1>1, PowerGrows
  <2>3. Power(2, HalfBits) \in Nat
    BY <1>1, PowerIs
  <2> QED BY <2>1, <2>2, <2>3 DEF Half
<1>3. Radix \in Nat /\ Radix = Half * Half /\ Radix >= 4
  <2>1. Half * Half >= 2 * Half
    BY <1>2
  <2> QED BY <1>2, <2>1 DEF Radix
<1>4. Radix = Power(2, 2 * HalfBits)
  <2>1. HalfBits + HalfBits = 2 * HalfBits
    BY <1>1
  <2> QED BY <1>1, <2>1, PowerSum DEF Half, Radix
<1>5. FixLimit \in Nat /\ 2 * FixLimit <= Radix
  <2>1. Power(2, FixBits + 1) = 2 * FixLimit /\ FixLimit \in Nat
    BY <1>1, PowerIs DEF FixLimit
  <2>2. Power(2, FixBits + 1) <= Power(2, 2 * HalfBits)
    BY <1>1, PowerGrows
  <2> QED BY <1>4, <2>1, <2>2
<1>6. FixLimit >= Half
  BY <1>1, PowerGrows DEF Half, FixLimit
<1> QED BY <1>2, <1>3, <1>4, <1>5, <1>6

(* The weight of a cell.                                                   *)
LEMMA Weights ==
    /\ Power(Radix, 0) = 1
    /\ \A n \in Nat : /\ Power(Radix, n) \in Nat /\ Power(Radix, n) > 0
                      /\ Power(Radix, n + 1) = Radix * Power(Radix, n)
<1>1. Radix \in Nat /\ Radix > 0
  BY Words
<1> QED BY <1>1, PowerIs, PowerPositive

-----------------------------------------------------------------------------
(* Numbers as cells.                                                       *)
Digit == 0 .. Radix - 1

LEMMA AtIs ==
    ASSUME NEW c \in Seq(Digit)
    PROVE  /\ Len(c) \in Nat
           /\ \A i \in Int : At(c, i) \in Digit /\ At(c, i) \in Nat /\ At(c, i) < Radix
           /\ \A i \in 1 .. Len(c) : At(c, i) = c[i]
           /\ \A i \in Int : i > Len(c) \/ i < 1 => At(c, i) = 0
<1>1. Radix \in Nat /\ Radix >= 4 /\ 0 \in Digit
  BY Words DEF Digit
<1>2. DOMAIN c = 1 .. Len(c) /\ Len(c) \in Nat /\ \A i \in 1 .. Len(c) : c[i] \in Digit
  OBVIOUS
<1>3. \A i \in Int : At(c, i) \in Digit
  BY <1>1, <1>2 DEF At
<1> QED BY <1>1, <1>2, <1>3 DEF At, Digit

LEMMA ValueIs ==
    ASSUME NEW c \in Seq(Digit)
    PROVE  /\ Value(c, 0) = 0
           /\ \A n \in Nat : /\ Value(c, n) \in Nat
                             /\ Value(c, n + 1) = Value(c, n) + At(c, n + 1) * Power(Radix, n)
<1> DEFINE W(i) == At(c, i) * Power(Radix, i - 1)
           G == [i \in Nat |-> [x \in Nat |-> IF i = 0 THEN 0 ELSE x + W(i)]]
           Is(q) == q = [i \in Nat |-> IF i = 0 THEN 0 ELSE q[i - 1] + At(c, i) * Power(Radix, i - 1)]
           p == CHOOSE q : Is(q)
<1>0. \A i \in Nat : i # 0 => W(i) \in Nat
  <2>1. ASSUME NEW i \in Nat, i # 0
        PROVE  W(i) \in Nat
    <3>1. At(c, i) \in Nat /\ i - 1 \in Nat
      BY <2>1, AtIs
    <3>2. Power(Radix, i - 1) \in Nat
      BY <3>1, Weights
    <3> QED BY <3>1, <3>2
  <2> QED BY <2>1
<1>1. G \in [Nat -> [Nat -> Nat]] /\ 0 \in Nat
  <2> HIDE DEF W
  <2> QED BY <1>0
<1>2. \A i, x \in Nat : i # 0 => G[i][x] = x + W(i)
  <2> HIDE DEF W
  <2> QED OBVIOUS
<1> HIDE DEF G
<1>3. \E q : Is(q)
  <2>1. PICK q \in [Nat -> Nat] : Recurs(q, 0, G)
    BY <1>1, RecursionExists
  <2>2. \A i \in Nat : i # 0 => i - 1 \in Nat /\ q[i - 1] \in Nat
    OBVIOUS
  <2>3. \A i \in Nat : q[i] = IF i = 0 THEN 0 ELSE q[i - 1] + W(i)
    <3> HIDE DEF W
    <3> QED BY <1>2, <2>1, <2>2 DEF Recurs
  <2>4. Is(q)
    BY <2>3
  <2> QED BY <2>4
<1>4. Is(p)
  BY <1>3
<1>5. \A n \in Nat : Value(c, n) = p[n]
  BY DEF Value
<1> HIDE DEF p
<1>6. \A i \in Nat : p[i] = IF i = 0 THEN 0 ELSE p[i - 1] + W(i)
  BY <1>4
<1>7. \A i \in Nat : p[i] \in Nat
  <2>1. Stays(p, Nat)
    <3> HIDE DEF W
    <3> QED BY <1>0, <1>6 DEF Stays
  <2> QED BY <2>1, StaysIn
<1>8. \A n \in Nat : p[n + 1] = p[n] + At(c, n + 1) * Power(Radix, n)
  <2>1. \A n \in Nat : p[n + 1] = p[n] + W(n + 1)
    <3> HIDE DEF W
    <3> QED BY <1>6
  <2>2. \A n \in Nat : (n + 1) - 1 = n
    OBVIOUS
  <2> QED BY <2>1, <2>2
<1>9. ASSUME NEW n \in Nat
      PROVE  Value(c, n) \in Nat /\ Value(c, n + 1) = Value(c, n) + At(c, n + 1) * Power(Radix, n)
  <2>1. Value(c, n + 1) = p[n + 1] /\ Value(c, n) = p[n]
    BY <1>5
  <2> QED BY <2>1, <1>7, <1>8
<1>10. Value(c, 0) = 0
  BY <1>5, <1>6
<1> QED BY <1>9, <1>10

(* The lowest n cells are worth less than cell n + 1.                      *)
LEMMA ValueBound ==
    ASSUME NEW c \in Seq(Digit)
    PROVE  \A n \in Nat : Value(c, n) < Power(Radix, n)
<1> DEFINE S == {n \in Nat : Value(c, n) < Power(Radix, n)}
<1>1. 0 \in S
  BY ValueIs, Weights
<1>2. ASSUME NEW n \in Nat, n \in S
      PROVE  n + 1 \in S
  <2> DEFINE w == Power(Radix, n)
             d == At(c, n + 1)
             v == Value(c, n)
  <2>1. w \in Nat /\ d \in Nat /\ v \in Nat /\ d < Radix /\ Radix \in Nat /\ v < w
    BY <1>2, AtIs, ValueIs, Weights, Words
  <2>2. Value(c, n + 1) = v + d * w /\ Power(Radix, n + 1) = Radix * w
    BY ValueIs, Weights
  <2>3. v + d * w < Radix * w
    <3> HIDE DEF v, d, w
    <3>1. d + 1 <= Radix
      BY <2>1
    <3>2. (d + 1) * w <= Radix * w
      BY <2>1, <3>1
    <3> QED BY <2>1, <3>2
  <2> QED BY <2>2, <2>3
<1> HIDE DEF S
<1>3. \A n \in Nat : n \in S
  BY <1>1, <1>2, Induction
<1> QED BY <1>3 DEF S

(* Higher cells that are zero do not count.                                *)
LEMMA ValueTop ==
    ASSUME NEW c \in Seq(Digit), NEW m \in Nat, \A i \in Nat : i > m => At(c, i) = 0
    PROVE  \A n \in Nat : n >= m => Value(c, n) = Value(c, m)
<1> DEFINE S == {n \in Nat : n >= m => Value(c, n) = Value(c, m)}
<1>1. 0 \in S
  OBVIOUS
<1>2. ASSUME NEW n \in Nat, n \in S
      PROVE  n + 1 \in S
  <2>1. CASE n + 1 <= m
    BY <2>1
  <2>2. CASE n + 1 > m
    <3>1. Value(c, n) = Value(c, m) /\ At(c, n + 1) = 0
      BY <1>2, <2>2
    <3>2. Value(c, n + 1) = Value(c, n) + 0 * Power(Radix, n) /\ Power(Radix, n) \in Nat /\ Value(c, n) \in Nat
      BY <3>1, ValueIs, Weights
    <3> QED BY <3>1, <3>2
  <2> QED BY <2>1, <2>2
<1> HIDE DEF S
<1>3. \A n \in Nat : n \in S
  BY <1>1, <1>2, Induction
<1> QED BY <1>3 DEF S

LEMMA MagnitudeIs ==
    ASSUME NEW c \in Seq(Digit)
    PROVE  /\ Magnitude(c) \in Nat /\ Len(c) \in Nat
           /\ Magnitude(c) < Power(Radix, Len(c))
           /\ \A n \in Nat : n >= Len(c) => Value(c, n) = Magnitude(c)
<1>1. Len(c) \in Nat /\ \A i \in Nat : i > Len(c) => At(c, i) = 0
  BY AtIs
<1>2. \A n \in Nat : n >= Len(c) => Value(c, n) = Value(c, Len(c))
  BY <1>1, ValueTop
<1> QED BY <1>1, <1>2, ValueIs, ValueBound DEF Magnitude

(* A number has its cells.                                                 *)
LEMMA TopDigit ==
    ASSUME NEW w \in Nat, NEW a \in Nat, NEW b \in Nat, NEW x \in Nat, NEW y \in Nat,
           a < w, b < w, a + x * w = b + y * w
    PROVE  a = b /\ x = y
<1>1. x <= y
  <2>1. ASSUME x > y
        PROVE  FALSE
    <3>1. x >= y + 1
      BY <2>1
    <3>2. x * w >= (y + 1) * w
      BY <3>1
    <3>3. (y + 1) * w = y * w + w
      OBVIOUS
    <3> QED BY <3>2, <3>3
  <2> QED BY <2>1
<1>2. y <= x
  <2>1. ASSUME y > x
        PROVE  FALSE
    <3>1. y >= x + 1
      BY <2>1
    <3>2. y * w >= (x + 1) * w
      BY <3>1
    <3>3. (x + 1) * w = x * w + w
      OBVIOUS
    <3> QED BY <3>2, <3>3
  <2> QED BY <2>1
<1>3. x = y
  BY <1>1, <1>2
<1> QED BY <1>3

LEMMA SameDigits ==
    ASSUME NEW c \in Seq(Digit), NEW d \in Seq(Digit)
    PROVE  \A n \in Nat : Value(c, n) = Value(d, n) => \A i \in 1 .. n : At(c, i) = At(d, i)
<1> DEFINE S == {n \in Nat : Value(c, n) = Value(d, n) => \A i \in 1 .. n : At(c, i) = At(d, i)}
<1>1. 0 \in S
  OBVIOUS
<1>2. ASSUME NEW n \in Nat, n \in S, Value(c, n + 1) = Value(d, n + 1)
      PROVE  n + 1 \in S
  <2>1. /\ Value(c, n) \in Nat /\ Value(d, n) \in Nat /\ Power(Radix, n) \in Nat
        /\ At(c, n + 1) \in Nat /\ At(d, n + 1) \in Nat
        /\ Value(c, n) < Power(Radix, n) /\ Value(d, n) < Power(Radix, n)
    <3>1. n + 1 \in Int
      OBVIOUS
    <3> QED BY <3>1, ValueIs, ValueBound, AtIs, Weights
  <2>2. Value(c, n) + At(c, n + 1) * Power(Radix, n) = Value(d, n) + At(d, n + 1) * Power(Radix, n)
    BY <1>2, ValueIs
  <2>3. Value(c, n) = Value(d, n) /\ At(c, n + 1) = At(d, n + 1)
    <3> DEFINE w == Power(Radix, n)
               x == Value(c, n)
               y == Value(d, n)
               p == At(c, n + 1)
               q == At(d, n + 1)
    <3>1. w \in Nat /\ x \in Nat /\ y \in Nat /\ p \in Nat /\ q \in Nat /\ x < w /\ y < w /\ x + p * w = y + q * w
      BY <2>1, <2>2
    <3> HIDE DEF w, x, y, p, q
    <3>2. x = y /\ p = q
      BY <3>1, TopDigit
    <3> QED BY <3>2 DEF x, y, p, q
  <2>4. \A i \in 1 .. n : At(c, i) = At(d, i)
    BY <1>2, <2>3
  <2>5. \A i \in 1 .. n + 1 : i \in 1 .. n \/ i = n + 1
    OBVIOUS
  <2> QED BY <2>3, <2>4, <2>5
<1>3. \A n \in Nat : n \in S => n + 1 \in S
  <2>1. ASSUME NEW n \in Nat, Value(c, n + 1) # Value(d, n + 1)
        PROVE  n + 1 \in S
    BY <2>1
  <2> HIDE DEF S
  <2> QED BY <1>2, <2>1
<1> HIDE DEF S
<1>4. \A n \in Nat : n \in S
  BY <1>1, <1>3, Induction
<1> QED BY <1>4 DEF S

-----------------------------------------------------------------------------
(* Quotients and remainders of numbers. *)
LEMMA DivMod ==
    ASSUME NEW n \in Int, NEW d \in Nat, d > 0
    PROVE  /\ n \div d \in Int /\ n % d \in Nat /\ n % d < d
           /\ n = d * (n \div d) + (n % d)
           /\ n >= 0 => n \div d \in Nat
OBVIOUS

LEMMA DivUnique ==
    ASSUME NEW d \in Nat, d > 0, NEW q \in Int, NEW r \in Nat, r < d, NEW n \in Int,
           n = d * q + r
    PROVE  n \div d = q /\ n % d = r
<1>1. n \div d \in Int /\ n % d \in Nat /\ n % d < d /\ n = d * (n \div d) + (n % d)
  BY DivMod
<1> DEFINE p == n \div d
           s == n % d
<1> HIDE DEF p, s
<1>2. p \in Int /\ s \in Nat /\ s < d /\ d * p + s = d * q + r
  BY <1>1 DEF p, s
<1>3. ~ (p < q)
  <2>1. ASSUME p + 1 <= q
        PROVE  FALSE
    <3>1. d * (p + 1) <= d * q
      BY <1>2, <2>1
    <3>2. d * (p + 1) = d * p + d
      BY <1>2
    <3> QED BY <1>2, <3>1, <3>2
  <2> QED BY <1>2, <2>1
<1>4. ~ (q < p)
  <2>1. ASSUME q + 1 <= p
        PROVE  FALSE
    <3>1. d * (q + 1) <= d * p
      BY <1>2, <2>1
    <3>2. d * (q + 1) = d * q + d
      BY <1>2
    <3> QED BY <1>2, <3>1, <3>2
  <2> QED BY <1>2, <2>1
<1>5. p = q
  BY <1>2, <1>3, <1>4
<1> QED BY <1>2, <1>5 DEF p, s

(* The two digits of a number below the square of the radix, or more. *)
LEMMA ModSplit ==
    ASSUME NEW n \in Nat, NEW w \in Nat, w > 0, NEW d \in Nat, d > 0
    PROVE  /\ n % (d * w) = (n % w) + ((n \div w) % d) * w
           /\ n \div (d * w) = (n \div w) \div d
<1> DEFINE q == n \div w
           s == n % w
           t == q \div d
           u == q % d
<1>1. q \in Nat /\ s \in Nat /\ s < w /\ n = w * q + s
  BY DivMod
<1>2. t \in Nat /\ u \in Nat /\ u < d /\ q = d * t + u
  BY <1>1, DivMod
<1> HIDE DEF q, s, t, u
<1>3. w * (d * t + u) = (d * w) * t + u * w
  BY <1>1, <1>2
<1>4. n = (d * w) * t + (s + u * w)
  BY <1>1, <1>2, <1>3
<1>5. s + u * w < d * w
  <2>1. (u + 1) * w <= d * w
    BY <1>1, <1>2
  <2>2. (u + 1) * w = u * w + w
    BY <1>2
  <2> QED BY <1>1, <1>2, <2>1, <2>2
<1>6. d * w \in Nat /\ d * w > 0 /\ s + u * w \in Nat
  BY <1>1, <1>2
<1> DEFINE e == d * w
           v == s + u * w
<1>7. e \in Nat /\ e > 0 /\ v \in Nat /\ v < e /\ n = e * t + v
  BY <1>4, <1>5, <1>6
<1>8. n \div e = t /\ n % e = v
  <2> HIDE DEF e, v
  <2> QED BY <1>2, <1>7, DivUnique
<1> QED BY <1>8 DEF q, s, t, u

-----------------------------------------------------------------------------
(* Carries and borrows. *)
LEMMA CarryIs ==
    ASSUME NEW a \in Seq(Digit), NEW b \in Seq(Digit)
    PROVE  /\ Carry(a, b)[0] = 0
           /\ \A n \in Nat :
                 /\ Carry(a, b)[n] \in {0, 1}
                 /\ Carry(a, b)[n + 1] =
                       (At(a, n + 1) + At(b, n + 1) + Carry(a, b)[n]) \div Radix
<1> DEFINE Next1(i, x) == (At(a, i) + At(b, i) + x) \div Radix
           S == {0, 1}
           G == [i \in Nat |-> [x \in S |-> Next1(i, x)]]
           Is(q) == q = [i \in Nat |-> IF i = 0 THEN 0
                                       ELSE (At(a, i) + At(b, i) + q[i - 1]) \div Radix]
           p == CHOOSE q : Is(q)
<1>0. ASSUME NEW i \in Nat, NEW x \in S
      PROVE  Next1(i, x) \in S
  <2> DEFINE m == At(a, i) + At(b, i) + x
  <2>1. m \in Nat /\ m < 2 * Radix /\ Radix \in Nat /\ Radix > 0
    <3>1. i \in Int
      OBVIOUS
    <3>2. At(a, i) \in Nat /\ At(b, i) \in Nat /\ At(a, i) < Radix /\ At(b, i) < Radix
      BY <3>1, AtIs
    <3> QED BY <3>2, Words
  <2> HIDE DEF m
  <2>2. m \div Radix \in {0, 1}
    <3>1. CASE m < Radix
      <4>1. m = Radix * 0 + m
        BY <2>1
      <4> QED BY <2>1, <3>1, <4>1, DivUnique
    <3>2. CASE m >= Radix
      <4>1. m = Radix * 1 + (m - Radix) /\ m - Radix \in Nat /\ m - Radix < Radix
        BY <2>1, <3>2
      <4> QED BY <2>1, <4>1, DivUnique
    <3> QED BY <2>1, <3>1, <3>2
  <2> QED BY <2>2 DEF m
<1>1. G \in [Nat -> [S -> S]] /\ 0 \in S
  <2> HIDE DEF Next1
  <2> QED BY <1>0
<1>2. \A i \in Nat : \A x \in S : G[i][x] = Next1(i, x)
  <2> HIDE DEF Next1
  <2> QED OBVIOUS
<1> HIDE DEF G
<1>3. \E q : Is(q)
  <2>1. PICK q \in [Nat -> S] : Recurs(q, 0, G)
    BY <1>1, RecursionExists
  <2>2. \A i \in Nat : i # 0 => i - 1 \in Nat /\ q[i - 1] \in S
    <3> HIDE DEF S
    <3> QED OBVIOUS
  <2>3. \A i \in Nat : q[i] = IF i = 0 THEN 0 ELSE Next1(i, q[i - 1])
    <3> HIDE DEF Next1, S
    <3> QED BY <1>2, <2>1, <2>2 DEF Recurs
  <2>4. Is(q)
    BY <2>3
  <2> QED BY <2>4
<1>4. Is(p)
  BY <1>3
<1>5. Carry(a, b) = p
  BY DEF Carry
<1> HIDE DEF p
<1>6. \A i \in Nat : p[i] = IF i = 0 THEN 0 ELSE Next1(i, p[i - 1])
  BY <1>4
<1>7. \A i \in Nat : p[i] \in S
  <2>1. Stays(p, S)
    <3> HIDE DEF Next1
    <3> QED BY <1>0, <1>6 DEF Stays
  <2> HIDE DEF S
  <2> QED BY <2>1, StaysIn
<1>8. ASSUME NEW n \in Nat
      PROVE  p[n] \in S /\ p[n + 1] = Next1(n + 1, p[n])
  <2>1. n + 1 \in Nat /\ n + 1 # 0 /\ (n + 1) - 1 = n
    OBVIOUS
  <2> HIDE DEF Next1
  <2> QED BY <2>1, <1>6, <1>7
<1>9. p[0] = 0
  <2> HIDE DEF Next1
  <2> QED BY <1>6
<1> QED BY <1>5, <1>8, <1>9

LEMMA BorrowIs ==
    ASSUME NEW a \in Seq(Digit), NEW b \in Seq(Digit)
    PROVE  /\ Borrow(a, b)[0] = 0
           /\ \A n \in Nat :
                 /\ Borrow(a, b)[n] \in {0, 1}
                 /\ Borrow(a, b)[n + 1] =
                       IF At(a, n + 1) < At(b, n + 1) + Borrow(a, b)[n] THEN 1 ELSE 0
<1> DEFINE Next1(i, x) == IF At(a, i) < At(b, i) + x THEN 1 ELSE 0
           S == {0, 1}
           G == [i \in Nat |-> [x \in S |-> IF i = 0 THEN 0 ELSE Next1(i, x)]]
           Is(q) == q = [i \in Nat |-> IF i > 0 /\ At(a, i) < At(b, i) + q[i - 1] THEN 1 ELSE 0]
           p == CHOOSE q : Is(q)
<1>1. G \in [Nat -> [S -> S]] /\ 0 \in S
  OBVIOUS
<1>2. \A i \in Nat : \A x \in S : i # 0 => G[i][x] = Next1(i, x)
  <2> HIDE DEF Next1
  <2> QED OBVIOUS
<1> HIDE DEF G
<1>3. \E q : Is(q)
  <2>1. PICK q \in [Nat -> S] : Recurs(q, 0, G)
    BY <1>1, RecursionExists
  <2>2. \A i \in Nat : i # 0 => i - 1 \in Nat /\ q[i - 1] \in S
    <3> HIDE DEF S
    <3> QED OBVIOUS
  <2>3. \A i \in Nat : q[i] = IF i = 0 THEN 0 ELSE Next1(i, q[i - 1])
    <3> HIDE DEF Next1, S
    <3> QED BY <1>2, <2>1, <2>2 DEF Recurs
  <2>4. \A i \in Nat : q[i] = IF i > 0 /\ At(a, i) < At(b, i) + q[i - 1] THEN 1 ELSE 0
    BY <2>3
  <2>5. Is(q)
    BY <2>4
  <2> QED BY <2>5
<1>4. Is(p)
  BY <1>3
<1>5. Borrow(a, b) = p
  BY DEF Borrow
<1> HIDE DEF p
<1>6. \A i \in Nat : p[i] = IF i = 0 THEN 0 ELSE Next1(i, p[i - 1])
  BY <1>4
<1>7. \A i \in Nat : p[i] \in S
  BY <1>6
<1>8. ASSUME NEW n \in Nat
      PROVE  p[n] \in S /\ p[n + 1] = Next1(n + 1, p[n])
  <2>1. n + 1 \in Nat /\ n + 1 # 0 /\ (n + 1) - 1 = n
    OBVIOUS
  <2> HIDE DEF Next1
  <2> QED BY <2>1, <1>6, <1>7
<1>9. p[0] = 0
  <2> HIDE DEF Next1
  <2> QED BY <1>6
<1> QED BY <1>5, <1>8, <1>9

(* A sum of cells, with the carry that leaves it. *)
LEMMA AddedWords ==
    ASSUME NEW a \in Seq(Digit), NEW b \in Seq(Digit), NEW len \in Nat
    PROVE  /\ AddBignumWords(a, b, len) \in Seq(Digit)
           /\ Len(AddBignumWords(a, b, len)) = len
           /\ Value(AddBignumWords(a, b, len), len) + Carry(a, b)[len] * Power(Radix, len)
                 = Value(a, len) + Value(b, len)
<1> DEFINE s == AddBignumWords(a, b, len)
           c == Carry(a, b)
           T == {n \in Nat : n <= len =>
                    Value(s, n) + c[n] * Power(Radix, n) = Value(a, n) + Value(b, n)}
<1>1. ASSUME NEW n \in Nat
      PROVE  /\ At(a, n + 1) \in Nat /\ At(b, n + 1) \in Nat /\ c[n] \in Nat /\ c[n + 1] \in Nat
             /\ c[n + 1] = (At(a, n + 1) + At(b, n + 1) + c[n]) \div Radix
  <2>1. n + 1 \in Nat /\ n + 1 \in Int
    OBVIOUS
  <2>2. c[n] \in {0, 1} /\ c[n + 1] \in {0, 1} /\ c[n + 1] = (At(a, n + 1) + At(b, n + 1) + c[n]) \div Radix
    BY <2>1, CarryIs
  <2>3. At(a, n + 1) \in Nat /\ At(b, n + 1) \in Nat
    BY <2>1, AtIs
  <2> QED BY <2>2, <2>3
<1>2. Radix \in Nat /\ Radix > 0
  BY Words
<1>3. ASSUME NEW i \in 1 .. len
      PROVE  (At(a, i) + At(b, i) + c[i - 1]) % Radix \in Digit
  <2>1. i - 1 \in Nat /\ i \in Int
    OBVIOUS
  <2>2. At(a, i) \in Nat /\ At(b, i) \in Nat
    BY <2>1, AtIs
  <2>3. c[i - 1] \in {0, 1}
    BY <2>1, CarryIs
  <2> HIDE DEF c
  <2> DEFINE m == At(a, i) + At(b, i) + c[i - 1]
  <2>4. m \in Int
    BY <2>2, <2>3
  <2> HIDE DEF m
  <2>5. m % Radix \in Digit
    BY <1>2, <2>4 DEF Digit
  <2> QED BY <2>5 DEF m
<1>4. s \in Seq(Digit) /\ Len(s) = len
  <2>1. s = [i \in 1 .. len |-> (At(a, i) + At(b, i) + c[i - 1]) % Radix]
    BY DEF AddBignumWords
  <2> HIDE DEF s, c
  <2> QED BY <2>1, <1>3
<1>5. ASSUME NEW n \in Nat, n + 1 <= len
      PROVE  At(s, n + 1) = (At(a, n + 1) + At(b, n + 1) + c[n]) % Radix
  <2>1. n + 1 \in 1 .. len /\ (n + 1) - 1 = n
    BY <1>5
  <2>2. s[n + 1] = (At(a, n + 1) + At(b, n + 1) + c[n]) % Radix
    BY <2>1 DEF AddBignumWords
  <2> HIDE DEF s
  <2> QED BY <1>4, <2>1, <2>2, AtIs
<1> HIDE DEF s, c
<1>6. 0 \in T
  <2>1. Value(s, 0) = 0 /\ Value(a, 0) = 0 /\ Value(b, 0) = 0 /\ Power(Radix, 0) = 1
    BY <1>4, ValueIs, Weights
  <2>2. c[0] = 0
    BY CarryIs DEF c
  <2> QED BY <2>1, <2>2
<1>7. ASSUME NEW n \in Nat, n \in T
      PROVE  n + 1 \in T
  <2>1. CASE n + 1 <= len
    <3> DEFINE w == Power(Radix, n)
               x == At(a, n + 1)
               y == At(b, n + 1)
               z == c[n]
               m == x + y + z
               low == m % Radix
               high == m \div Radix
    <3>1. /\ Value(s, n + 1) = Value(s, n) + low * w
          /\ Value(a, n + 1) = Value(a, n) + x * w
          /\ Value(b, n + 1) = Value(b, n) + y * w
          /\ Power(Radix, n + 1) = Radix * w
          /\ c[n + 1] = high
      BY <1>1, <1>4, <1>5, <2>1, ValueIs, Weights
    <3>2. /\ Value(s, n) \in Nat /\ Value(a, n) \in Nat /\ Value(b, n) \in Nat /\ w \in Nat
          /\ x \in Nat /\ y \in Nat /\ z \in Nat /\ m \in Nat
      <4>1. x \in Nat /\ y \in Nat /\ z \in Nat
        BY <1>1
      <4>2. m \in Nat
        <5> HIDE DEF x, y, z
        <5> QED BY <4>1
      <4> QED BY <1>4, <4>1, <4>2, ValueIs, Weights
    <3>3. low \in Nat /\ high \in Nat /\ m = Radix * high + low
      <4> HIDE DEF m
      <4> QED BY <1>2, <3>2, DivMod
    <3>4. Value(s, n) + c[n] * w = Value(a, n) + Value(b, n)
      BY <1>7, <2>1
    <3>5. low * w + high * (Radix * w) = x * w + y * w + z * w
      <4>1. x + y + z = Radix * high + low
        BY <3>3
      <4>2. x \in Nat /\ y \in Nat /\ z \in Nat /\ low \in Nat /\ high \in Nat /\ w \in Nat
        BY <3>2, <3>3
      <4> HIDE DEF x, y, z, low, high, w, m
      <4>3. (x + y + z) * w = (Radix * high + low) * w
        BY <4>1
      <4> QED BY <4>2, <4>3, <1>2
    <3>6. Value(s, n + 1) + c[n + 1] * Power(Radix, n + 1) = Value(a, n + 1) + Value(b, n + 1)
      <4> DEFINE v == Value(s, n)
                 va == Value(a, n)
                 vb == Value(b, n)
                 lw == low * w
                 hw == high * (Radix * w)
                 xw == x * w
                 yw == y * w
                 zw == z * w
      <4>1. v + zw = va + vb /\ lw + hw = xw + yw + zw
        BY <3>4, <3>5
      <4>2. v \in Nat /\ va \in Nat /\ vb \in Nat /\ lw \in Nat /\ hw \in Nat /\ xw \in Nat /\ yw \in Nat /\ zw \in Nat
        <5>1. low \in Nat /\ high \in Nat /\ x \in Nat /\ y \in Nat /\ z \in Nat /\ w \in Nat
          BY <3>2, <3>3
        <5> HIDE DEF low, high, x, y, z, w
        <5>2. Radix * w \in Nat
          BY <5>1, <1>2
        <5> DEFINE rw == Radix * w
        <5> HIDE DEF rw
        <5>3. low * w \in Nat /\ x * w \in Nat /\ y * w \in Nat /\ z * w \in Nat
          BY <5>1
        <5>4. high * rw \in Nat
          BY <5>1, <5>2 DEF rw
        <5> QED BY <3>2, <5>3, <5>4 DEF rw
      <4>3. Value(s, n + 1) = v + lw /\ Value(a, n + 1) = va + xw /\ Value(b, n + 1) = vb + yw
            /\ c[n + 1] * Power(Radix, n + 1) = hw
        BY <3>1
      <4> HIDE DEF v, va, vb, lw, hw, xw, yw, zw
      <4> QED BY <4>1, <4>2, <4>3
    <3> QED BY <3>6
  <2>2. CASE ~ (n + 1 <= len)
    BY <2>2
  <2> QED BY <2>1, <2>2
<1>8. \A n \in Nat : n \in T
  <2> HIDE DEF T
  <2> QED BY <1>6, <1>7, Induction
<1> QED BY <1>4, <1>8 DEF s, c

(* A difference of cells, with the borrow that leaves it. *)
LEMMA SubtractedWords ==
    ASSUME NEW a \in Seq(Digit), NEW b \in Seq(Digit), NEW len \in Nat
    PROVE  /\ SubBignumWords(a, b, len) \in Seq(Digit)
           /\ Len(SubBignumWords(a, b, len)) = len
           /\ Value(SubBignumWords(a, b, len), len) + Value(b, len)
                 = Value(a, len) + Borrow(a, b)[len] * Power(Radix, len)
<1> DEFINE s == SubBignumWords(a, b, len)
           c == Borrow(a, b)
           T == {n \in Nat : n <= len =>
                    Value(s, n) + Value(b, n) = Value(a, n) + c[n] * Power(Radix, n)}
<1>1. ASSUME NEW n \in Nat
      PROVE  /\ At(a, n + 1) \in Nat /\ At(b, n + 1) \in Nat /\ c[n] \in {0, 1} /\ c[n + 1] \in Nat
             /\ At(a, n + 1) < Radix /\ At(b, n + 1) < Radix
             /\ c[n + 1] = IF At(a, n + 1) < At(b, n + 1) + c[n] THEN 1 ELSE 0
  <2>1. n + 1 \in Nat /\ n + 1 \in Int
    OBVIOUS
  <2>2. c[n] \in {0, 1} /\ c[n + 1] \in {0, 1} /\ c[n + 1] = IF At(a, n + 1) < At(b, n + 1) + c[n] THEN 1 ELSE 0
    BY <2>1, BorrowIs
  <2>3. At(a, n + 1) \in Nat /\ At(b, n + 1) \in Nat /\ At(a, n + 1) < Radix /\ At(b, n + 1) < Radix
    BY <2>1, AtIs
  <2> QED BY <2>2, <2>3
<1>2. Radix \in Nat /\ Radix > 0
  BY Words
<1>3. ASSUME NEW i \in 1 .. len
      PROVE  (At(a, i) - At(b, i) - c[i - 1]) % Radix \in Digit
  <2>1. i - 1 \in Nat /\ i \in Int
    OBVIOUS
  <2>2. At(a, i) \in Nat /\ At(b, i) \in Nat
    BY <2>1, AtIs
  <2>3. c[i - 1] \in {0, 1}
    BY <2>1, BorrowIs
  <2> HIDE DEF c
  <2> DEFINE m == At(a, i) - At(b, i) - c[i - 1]
  <2>4. m \in Int
    BY <2>2, <2>3
  <2> HIDE DEF m
  <2>5. m % Radix \in Digit
    BY <1>2, <2>4 DEF Digit
  <2> QED BY <2>5 DEF m
<1>4. s \in Seq(Digit) /\ Len(s) = len
  <2>1. s = [i \in 1 .. len |-> (At(a, i) - At(b, i) - c[i - 1]) % Radix]
    BY DEF SubBignumWords
  <2> HIDE DEF s, c
  <2> QED BY <2>1, <1>3
<1>5. ASSUME NEW n \in Nat, n + 1 <= len
      PROVE  At(s, n + 1) = (At(a, n + 1) - At(b, n + 1) - c[n]) % Radix
  <2>1. n + 1 \in 1 .. len /\ (n + 1) - 1 = n
    BY <1>5
  <2>2. s[n + 1] = (At(a, n + 1) - At(b, n + 1) - c[n]) % Radix
    BY <2>1 DEF SubBignumWords
  <2> HIDE DEF s
  <2> QED BY <1>4, <2>1, <2>2, AtIs
<1> HIDE DEF s, c
<1>6. 0 \in T
  <2>1. Value(s, 0) = 0 /\ Value(a, 0) = 0 /\ Value(b, 0) = 0 /\ Power(Radix, 0) = 1
    BY <1>4, ValueIs, Weights
  <2>2. c[0] = 0
    BY BorrowIs DEF c
  <2> QED BY <2>1, <2>2
<1>7. ASSUME NEW n \in Nat, n \in T
      PROVE  n + 1 \in T
  <2>1. CASE n + 1 <= len
    <3> DEFINE w == Power(Radix, n)
               x == At(a, n + 1)
               y == At(b, n + 1)
               z == c[n]
               m == x - y - z
               low == m % Radix
               high == c[n + 1]
    <3>1. /\ Value(s, n + 1) = Value(s, n) + low * w
          /\ Value(a, n + 1) = Value(a, n) + x * w
          /\ Value(b, n + 1) = Value(b, n) + y * w
          /\ Power(Radix, n + 1) = Radix * w
      BY <1>4, <1>5, <2>1, ValueIs, Weights
    <3>2. /\ Value(s, n) \in Nat /\ Value(a, n) \in Nat /\ Value(b, n) \in Nat /\ w \in Nat
          /\ x \in Nat /\ y \in Nat /\ z \in {0, 1} /\ x < Radix /\ y < Radix
          /\ high = IF x < y + z THEN 1 ELSE 0
      BY <1>1, <1>4, ValueIs, Weights
    <3>3. low \in Nat /\ high \in Nat /\ low + y + z = x + Radix * high
      <4> HIDE DEF x, y, z, high
      <4>1. CASE x < y + z
        <5>1. m = Radix * (-1) + (m + Radix) /\ m + Radix \in Nat /\ m + Radix < Radix /\ m \in Int
          BY <1>2, <3>2, <4>1
        <5>2. low = m + Radix
          BY <5>1, <1>2, DivUnique
        <5> QED BY <3>2, <4>1, <5>1, <5>2, <1>2
      <4>2. CASE ~ (x < y + z)
        <5>1. m = Radix * 0 + m /\ m \in Nat /\ m < Radix /\ m \in Int
          BY <1>2, <3>2, <4>2
        <5>2. low = m
          BY <5>1, <1>2, DivUnique
        <5> QED BY <3>2, <4>2, <5>1, <5>2, <1>2
      <4> QED BY <4>1, <4>2
    <3>4. Value(s, n) + Value(b, n) = Value(a, n) + z * w
      BY <1>7, <2>1
    <3>5. low * w + y * w + z * w = x * w + high * (Radix * w)
      <4>1. low + y + z = x + Radix * high
        BY <3>3
      <4>2. x \in Nat /\ y \in Nat /\ z \in Nat /\ low \in Nat /\ high \in Nat /\ w \in Nat
        <5> HIDE DEF x, y, z, low, high, w, m
        <5> QED BY <3>2, <3>3
      <4> HIDE DEF x, y, z, low, high, w, m
      <4>3. (low + y + z) * w = (x + Radix * high) * w
        BY <4>1
      <4>4. (low + y + z) * w = low * w + y * w + z * w
        BY <4>2
      <4>5. (x + Radix * high) * w = x * w + high * (Radix * w)
        BY <4>2, <1>2
      <4> QED BY <4>3, <4>4, <4>5
    <3>6. Value(s, n + 1) + Value(b, n + 1) = Value(a, n + 1) + c[n + 1] * Power(Radix, n + 1)
      <4> DEFINE v == Value(s, n)
                 va == Value(a, n)
                 vb == Value(b, n)
                 lw == low * w
                 hw == high * (Radix * w)
                 xw == x * w
                 yw == y * w
                 zw == z * w
      <4>1. v + vb = va + zw /\ lw + yw + zw = xw + hw
        BY <3>4, <3>5
      <4>2. v \in Nat /\ va \in Nat /\ vb \in Nat /\ lw \in Nat /\ hw \in Nat /\ xw \in Nat /\ yw \in Nat /\ zw \in Nat
        <5>1. low \in Nat /\ high \in Nat /\ x \in Nat /\ y \in Nat /\ z \in Nat /\ w \in Nat
          <6> HIDE DEF x, y, z, low, high, w, m
          <6> QED BY <3>2, <3>3
        <5> HIDE DEF low, high, x, y, z, w
        <5>2. Radix * w \in Nat
          BY <5>1, <1>2
        <5> DEFINE rw == Radix * w
        <5> HIDE DEF rw
        <5>3. low * w \in Nat /\ x * w \in Nat /\ y * w \in Nat /\ z * w \in Nat
          BY <5>1
        <5>4. high * rw \in Nat
          BY <5>1, <5>2 DEF rw
        <5> QED BY <3>2, <5>3, <5>4 DEF rw
      <4>3. Value(s, n + 1) = v + lw /\ Value(a, n + 1) = va + xw /\ Value(b, n + 1) = vb + yw
            /\ c[n + 1] * Power(Radix, n + 1) = hw
        BY <3>1
      <4> HIDE DEF v, va, vb, lw, hw, xw, yw, zw
      <4> QED BY <4>1, <4>2, <4>3
    <3> QED BY <3>6
  <2>2. CASE ~ (n + 1 <= len)
    BY <2>2
  <2> QED BY <2>1, <2>2
<1>8. \A n \in Nat : n \in T
  <2> HIDE DEF T
  <2> QED BY <1>6, <1>7, Induction
<1> QED BY <1>4, <1>8 DEF s, c

-----------------------------------------------------------------------------
(* The cells of a number. *)
LEMMA CellsAre ==
    ASSUME NEW n \in Nat, NEW len \in Nat
    PROVE  /\ Cells(n, len) \in Seq(Digit) /\ Len(Cells(n, len)) = len
           /\ \A i \in 1 .. len : At(Cells(n, len), i) = (n \div Power(Radix, i - 1)) % Radix
<1> DEFINE c == Cells(n, len)
<1>1. ASSUME NEW i \in 1 .. len
      PROVE  (n \div Power(Radix, i - 1)) % Radix \in Digit
  <2> DEFINE w == Power(Radix, i - 1)
             q == n \div w
  <2>1. w \in Nat /\ w > 0
    <3>1. i - 1 \in Nat
      OBVIOUS
    <3> QED BY <3>1, Weights
  <2> HIDE DEF w
  <2>2. q \in Nat
    BY <2>1, DivMod
  <2> HIDE DEF q
  <2>3. q % Radix \in Nat /\ q % Radix < Radix
    BY <2>2, Words, DivMod
  <2> QED BY <2>3, Words DEF Digit, q, w
<1>2. c = [i \in 1 .. len |-> (n \div Power(Radix, i - 1)) % Radix]
  BY DEF Cells
<1> HIDE DEF c
<1>3. c \in Seq(Digit) /\ Len(c) = len
  BY <1>1, <1>2
<1>4. \A i \in 1 .. len : At(c, i) = c[i]
  BY <1>3, AtIs
<1> QED BY <1>2, <1>3, <1>4 DEF c

LEMMA CellsValue ==
    ASSUME NEW n \in Nat, NEW len \in Nat
    PROVE  \A j \in 0 .. len : Value(Cells(n, len), j) = n % Power(Radix, j)
<1> DEFINE c == Cells(n, len)
           T == {j \in Nat : j <= len => Value(c, j) = n % Power(Radix, j)}
<1>1. c \in Seq(Digit) /\ Len(c) = len
  BY CellsAre
<1>2. 0 \in T
  <2>1. Value(c, 0) = 0 /\ Power(Radix, 0) = 1
    BY <1>1, ValueIs, Weights
  <2>2. n % 1 = 0
    <3>1. n = 1 * n + 0
      OBVIOUS
    <3> QED BY <3>1, DivUnique
  <2> QED BY <2>1, <2>2
<1>3. ASSUME NEW j \in Nat, j \in T
      PROVE  j + 1 \in T
  <2>1. CASE j + 1 <= len
    <3> DEFINE w == Power(Radix, j)
    <3>1. w \in Nat /\ w > 0 /\ Power(Radix, j + 1) = Radix * w
      BY Weights
    <3>2. Value(c, j) = n % w
      BY <1>3, <2>1
    <3>3. At(c, j + 1) = (n \div w) % Radix
      <4>1. j + 1 \in 1 .. len /\ (j + 1) - 1 = j
        BY <2>1
      <4>2. At(c, j + 1) = (n \div Power(Radix, (j + 1) - 1)) % Radix
        BY <4>1, CellsAre
      <4> QED BY <4>1, <4>2
    <3>4. Value(c, j + 1) = Value(c, j) + At(c, j + 1) * w
      BY <1>1, ValueIs
    <3>5. n % (Radix * w) = (n % w) + ((n \div w) % Radix) * w
      <4> HIDE DEF w
      <4>1. Radix \in Nat /\ Radix > 0
        BY Words
      <4> DEFINE d == Radix
      <4> HIDE DEF d
      <4>2. d \in Nat /\ d > 0
        BY <4>1 DEF d
      <4>3. n % (d * w) = (n % w) + ((n \div w) % d) * w
        BY <3>1, <4>2, ModSplit
      <4> QED BY <4>3 DEF d
    <3>6. Value(c, j + 1) = n % Power(Radix, j + 1)
      <4> HIDE DEF w, c
      <4> QED BY <3>1, <3>2, <3>3, <3>4, <3>5
    <3> QED BY <3>6
  <2>2. CASE ~ (j + 1 <= len)
    BY <2>2
  <2> QED BY <2>1, <2>2
<1>4. \A j \in Nat : j \in T
  <2> HIDE DEF T
  <2> QED BY <1>2, <1>3, Induction
<1> QED BY <1>4

LEMMA CellsMagnitude ==
    ASSUME NEW n \in Nat, NEW len \in Nat
    PROVE  /\ Magnitude(Cells(n, len)) = n % Power(Radix, len)
           /\ n < Power(Radix, len) => Magnitude(Cells(n, len)) = n
<1>1. Magnitude(Cells(n, len)) = n % Power(Radix, len)
  <2>1. Len(Cells(n, len)) = len /\ len \in 0 .. len
    BY CellsAre
  <2> QED BY <2>1, CellsValue DEF Magnitude
<1>2. ASSUME n < Power(Radix, len)
      PROVE  n % Power(Radix, len) = n
  <2> DEFINE w == Power(Radix, len)
  <2>1. w \in Nat /\ w > 0 /\ n < w
    BY <1>2, Weights
  <2> HIDE DEF w
  <2>2. n = w * 0 + n
    BY <2>1
  <2>3. n % w = n
    BY <2>1, <2>2, DivUnique
  <2> QED BY <2>3 DEF w
<1> QED BY <1>1, <1>2

-----------------------------------------------------------------------------
(* Leading cells. *)
LEMMA MaxIs ==
    ASSUME NEW S, S \subseteq Nat, S # {}, NEW b \in Nat, \A i \in S : i <= b
    PROVE  Max(S) \in S /\ \A i \in S : i <= Max(S)
<1> DEFINE T == {b - i : i \in S}
<1>1. T \subseteq Nat /\ T # {}
  OBVIOUS
<1>2. PICK t \in T : \A m \in T : t <= m
  <2> HIDE DEF T
  <2> QED BY <1>1, LeastElement
<1>3. PICK s \in S : t = b - s
  BY <1>2
<1>4. \A i \in S : i <= s
  <2>1. ASSUME NEW i \in S
        PROVE  i <= s
    <3>1. t <= b - i
      BY <1>2
    <3> QED BY <1>3, <3>1
  <2> QED BY <2>1
<1>5. \E m \in S : \A i \in S : m >= i
  BY <1>3, <1>4
<1> QED BY <1>5 DEF Max

Top(c) == Max({0} \cup {i \in DOMAIN c : c[i] # 0})

LEMMA TopIs ==
    ASSUME NEW c \in Seq(Digit)
    PROVE  /\ Top(c) \in 0 .. Len(c)
           /\ \A i \in Nat : i > Top(c) => At(c, i) = 0
           /\ Top(c) > 0 => At(c, Top(c)) # 0
           /\ \A t \in Nat : (/\ \A i \in Nat : i > t => At(c, i) = 0
                              /\ t > 0 => At(c, t) # 0) => t = Top(c)
<1> DEFINE S == {0} \cup {i \in DOMAIN c : c[i] # 0}
           t == Top(c)
<1>0. Len(c) \in Nat /\ DOMAIN c = 1 .. Len(c)
  OBVIOUS
<1>1. S \subseteq Nat /\ S # {} /\ \A i \in S : i <= Len(c)
  BY <1>0
<1>2. t \in S /\ \A i \in S : i <= t
  <2> HIDE DEF S
  <2>1. Max(S) \in S /\ \A i \in S : i <= Max(S)
    BY <1>0, <1>1, MaxIs
  <2> QED BY <2>1 DEF Top, S
<1> HIDE DEF t
<1>3. t \in 0 .. Len(c)
  BY <1>0, <1>2
<1>4. ASSUME NEW i \in Nat, i > t
      PROVE  At(c, i) = 0
  <2>1. i \in 1 .. Len(c) => c[i] = 0
    BY <1>0, <1>2, <1>3, <1>4
  <2> QED BY <2>1, <1>0 DEF At
<1>5. t > 0 => At(c, t) # 0
  BY <1>0, <1>2 DEF At
<1>6. ASSUME NEW u \in Nat, \A i \in Nat : i > u => At(c, i) = 0, u > 0 => At(c, u) # 0
      PROVE  u = t
  <2>1. ~ (u < t)
    BY <1>3, <1>5, <1>6
  <2>2. ~ (t < u)
    BY <1>3, <1>4, <1>6
  <2> QED BY <1>3, <2>1, <2>2
<1> QED BY <1>3, <1>4, <1>5, <1>6 DEF t

LEMMA ReduceIs ==
    ASSUME NEW c \in Seq(Digit)
    PROVE  /\ Reduce(c) \in Seq(Digit) /\ Len(Reduce(c)) = Top(c)
           /\ \A i \in Int : At(Reduce(c), i) = At(c, i)
           /\ Magnitude(Reduce(c)) = Magnitude(c)
<1> DEFINE t == Top(c)
           r == SubSeq(c, 1, t)
<1>1. r = Reduce(c)
  BY DEF Reduce, Top
<1>2. t \in 0 .. Len(c) /\ Len(c) \in Nat
  BY TopIs
<1> HIDE DEF t
<1>3. r \in Seq(Digit) /\ Len(r) = t /\ \A i \in 1 .. t : r[i] = c[i]
  BY <1>2
<1> HIDE DEF r
<1>4. ASSUME NEW i \in Int
      PROVE  At(r, i) = At(c, i)
  <2>1. CASE i \in 1 .. t
    <3>1. i \in 1 .. Len(c) /\ i \in 1 .. Len(r)
      BY <1>2, <1>3, <2>1
    <3> QED BY <2>1, <3>1, <1>3, AtIs
  <2>2. CASE i < 1
    BY <1>3, <2>2, AtIs
  <2>3. CASE i > t /\ i >= 1
    <3>1. At(c, i) = 0
      BY <1>2, <2>3, TopIs DEF t
    <3>2. At(r, i) = 0
      BY <1>2, <1>3, <2>3, AtIs
    <3> QED BY <3>1, <3>2
  <2> QED BY <2>1, <2>2, <2>3, <1>2
<1>5. Magnitude(r) = Magnitude(c)
  <2> DEFINE T == {n \in Nat : Value(r, n) = Value(c, n)}
  <2>1. 0 \in T
    BY <1>3, ValueIs
  <2>2. ASSUME NEW n \in Nat, n \in T
        PROVE  n + 1 \in T
    <3>1. At(r, n + 1) = At(c, n + 1)
      BY <1>4
    <3>2. Value(r, n + 1) = Value(r, n) + At(r, n + 1) * Power(Radix, n)
      BY <1>3, ValueIs
    <3>3. Value(c, n + 1) = Value(c, n) + At(c, n + 1) * Power(Radix, n)
      BY ValueIs
    <3> QED BY <2>2, <3>1, <3>2, <3>3
  <2>3. Len(c) \in T
    <3> HIDE DEF T
    <3> QED BY <1>2, <2>1, <2>2, Induction
  <2>4. Value(r, Len(c)) = Magnitude(r)
    BY <1>2, <1>3, MagnitudeIs
  <2> QED BY <2>3, <2>4 DEF Magnitude
<1> QED BY <1>1, <1>3, <1>4, <1>5 DEF t

(* The top cell weighs what its place says. *)
LEMMA TopWeight ==
    ASSUME NEW c \in Seq(Digit), Top(c) > 0
    PROVE  Top(c) - 1 \in Nat /\ Power(Radix, Top(c) - 1) <= Magnitude(c)
<1> DEFINE t == Top(c)
           m == t - 1
           w == Power(Radix, m)
           x == At(c, t)
<1>1. t \in Nat /\ m \in Nat /\ m + 1 = t /\ t <= Len(c) /\ Len(c) \in Nat
  BY TopIs
<1>2. x \in Nat /\ x # 0
  BY <1>1, TopIs, AtIs
<1>3. w \in Nat /\ Value(c, m) \in Nat
  <2> HIDE DEF m
  <2> QED BY <1>1, Weights, ValueIs
<1>4. Value(c, t) = Value(c, m) + x * w
  <2> HIDE DEF m, t
  <2>1. Value(c, m + 1) = Value(c, m) + At(c, m + 1) * Power(Radix, m)
    BY <1>1, ValueIs
  <2> QED BY <1>1, <2>1 
<1>5. x * w >= w
  <2> HIDE DEF x, w
  <2>1. x >= 1
    BY <1>2
  <2> QED BY <1>2, <1>3, <2>1
<1>6. Value(c, Len(c)) = Value(c, t)
  <2>1. \A i \in Nat : i > t => At(c, i) = 0
    BY TopIs
  <2> HIDE DEF t
  <2> QED BY <1>1, <2>1, ValueTop
<1>7. x * w \in Nat
  <2> HIDE DEF x, w
  <2> QED BY <1>2, <1>3
<1>8. w <= Magnitude(c)
  <2> DEFINE v == Value(c, m)
             xw == x * w
             a == Magnitude(c)
  <2>1. a = v + xw /\ xw >= w /\ v \in Nat /\ w \in Nat /\ xw \in Nat
    BY <1>3, <1>4, <1>5, <1>6, <1>7 DEF Magnitude
  <2> HIDE DEF v, xw, w, a
  <2>2. w <= a
    BY <2>1
  <2> QED BY <2>2 DEF a
<1> QED BY <1>1, <1>8

(* Cells of the same number are the same but for leading zeros. *)
LEMMA ReduceSame ==
    ASSUME NEW c \in Seq(Digit), NEW d \in Seq(Digit), Magnitude(c) = Magnitude(d)
    PROVE  Reduce(c) = Reduce(d)
<1> DEFINE n == Len(c) + Len(d)
<1>1. n \in Nat /\ n >= Len(c) /\ n >= Len(d) /\ Len(c) \in Nat /\ Len(d) \in Nat
  OBVIOUS
<1> HIDE DEF n
<1>2. Value(c, n) = Value(d, n)
  BY <1>1, MagnitudeIs
<1>3. ASSUME NEW i \in Int
      PROVE  At(c, i) = At(d, i)
  <2>1. CASE i \in 1 .. n
    BY <1>1, <1>2, <2>1, SameDigits
  <2>2. CASE i < 1 \/ i > n
    <3>1. i < 1 \/ i > Len(c)
      BY <1>1, <2>2
    <3>2. i < 1 \/ i > Len(d)
      BY <1>1, <2>2
    <3> QED BY <3>1, <3>2, AtIs
  <2> QED BY <1>1, <2>1, <2>2
<1>4. Top(c) = Top(d)
  <2>1. \A i \in Nat : i > Top(c) => At(d, i) = 0
    BY <1>3, TopIs
  <2>2. Top(c) \in Nat /\ (Top(c) > 0 => At(d, Top(c)) # 0)
    BY <1>1, <1>3, TopIs
  <2> QED BY <2>1, <2>2, TopIs
<1>5. Reduce(c) \in Seq(Digit) /\ Reduce(d) \in Seq(Digit) /\ Len(Reduce(c)) = Len(Reduce(d))
  BY <1>4, ReduceIs
<1>6. ASSUME NEW i \in 1 .. Len(Reduce(c))
      PROVE  Reduce(c)[i] = Reduce(d)[i]
  <2>1. At(Reduce(c), i) = At(Reduce(d), i)
    BY <1>3, ReduceIs
  <2> QED BY <1>5, <2>1, AtIs
<1> DEFINE x == Reduce(c)
           y == Reduce(d)
<1>7. x \in Seq(Digit) /\ y \in Seq(Digit) /\ Len(x) = Len(y) /\ \A i \in 1 .. Len(x) : x[i] = y[i]
  BY <1>5, <1>6
<1> HIDE DEF x, y
<1>8. x = y
  BY <1>7
<1> QED BY <1>8 DEF x, y

(* The integer of a sign and cells. *)
Signed(neg, c) == IF neg THEN -Magnitude(c) ELSE Magnitude(c)

LEMMA LengthIs ==
    ASSUME NEW n \in Nat
    PROVE  /\ Length(n) \in Nat /\ Length(n) >= 1 /\ n < Power(Radix, Length(n))
           /\ Length(n) = 1 \/ n >= Power(Radix, Length(n) - 1)
<1> DEFINE T == {len \in 1 .. n + 1 : n < Power(Radix, len)}
<1>0. Power(Radix, 0) = 1 /\ Radix \in Nat /\ Radix >= 2
  BY Weights, Words
<1>1. n + 1 \in T
  <2>1. n + 1 < Power(Radix, n + 1) /\ Power(Radix, n + 1) \in Nat
    <3> DEFINE m == n + 1
    <3>1. m \in Nat /\ m <= m
      OBVIOUS
    <3> HIDE DEF m
    <3>2. m < Power(Radix, m)
      BY <1>0, <3>1, PowerGrows
    <3>3. Power(Radix, m) \in Nat
      BY <3>1, Weights
    <3> QED BY <3>2, <3>3 DEF m
  <2> QED BY <2>1
<1>2. PICK len \in T : \A m \in T : len <= m
  <2>1. T \subseteq Nat /\ T # {}
    BY <1>1
  <2> HIDE DEF T
  <2> QED BY <2>1, LeastElement
<1>3. len = 1 \/ n >= Power(Radix, len - 1)
  <2>1. ASSUME len # 1
        PROVE  n >= Power(Radix, len - 1)
    <3>1. len - 1 \in 1 .. n + 1 /\ len - 1 \in Nat
      BY <1>2, <2>1
    <3>2. ~ (len - 1 \in T)
      BY <1>2
    <3>3. Power(Radix, len - 1) \in Nat
      BY <3>1, Weights
    <3> QED BY <3>1, <3>2, <3>3
  <2> QED BY <2>1
<1>4. \E l \in 1 .. n + 1 : n < Power(Radix, l) /\ (l = 1 \/ n >= Power(Radix, l - 1))
  BY <1>2, <1>3
<1> QED BY <1>4 DEF Length

LEMMA CanonicalCells ==
    ASSUME NEW n \in Nat
    PROVE  /\ Cells(n, Length(n)) \in Seq(Digit)
           /\ Len(Cells(n, Length(n))) >= 1
           /\ Len(Cells(n, Length(n))) = Length(n)
           /\ Magnitude(Cells(n, Length(n))) = n
BY LengthIs, CellsAre, CellsMagnitude

(* What is normalized is the canonical object of its integer. *)
LEMMA NormalizeIs ==
    ASSUME NEW c \in Seq(Digit), NEW neg \in BOOLEAN
    PROVE  /\ Normalize(neg, c) = Canonical(Signed(neg, c))
           /\ Signed(neg, c) \in Int
<1> DEFINE v == Signed(neg, c)
           d == Cells(Abs(v), Length(Abs(v)))
           r == Reduce(c)
<1>1. Magnitude(c) \in Nat
  BY MagnitudeIs
<1>2. v \in Int /\ Abs(v) \in Nat /\ Abs(v) = Magnitude(c)
  BY <1>1 DEF Signed, Abs
<1>3. d \in Seq(Digit) /\ Magnitude(d) = Magnitude(c)
  BY <1>2, CanonicalCells
<1> HIDE DEF d
<1>4. Reduce(d) = r
  BY <1>3, ReduceSame
<1>5. r \in Seq(Digit) /\ Magnitude(r) = Magnitude(c) /\ Len(r) = Top(c) /\ Top(c) \in Nat
  BY ReduceIs, TopIs
<1>6. Magnitude(c) # 0 => (v < 0 <=> neg)
  BY <1>1 DEF Signed
<1>7. Magnitude(c) = 0 => Len(r) <= 1 /\ v = 0
  <2>1. ASSUME Magnitude(c) = 0, Top(c) > 0
        PROVE  FALSE
    <3>1. Power(Radix, Top(c) - 1) <= 0 /\ Top(c) - 1 \in Nat
      BY <2>1, TopWeight
    <3>2. Power(Radix, Top(c) - 1) > 0 /\ Power(Radix, Top(c) - 1) \in Nat
      BY <3>1, Weights
    <3> QED BY <3>1, <3>2
  <2>2. Magnitude(c) = 0 => v = 0
    <3> DEFINE m == Magnitude(c)
    <3>1. m \in Nat /\ v = IF neg THEN -m ELSE m
      BY <1>1 DEF Signed
    <3> HIDE DEF m, v
    <3>2. -m = 0 - m /\ (m = 0 => 0 - m = 0)
      BY <3>1
    <3>3. m = 0 => v = 0
      BY <3>1, <3>2
    <3> QED BY <3>3 DEF m
  <2>3. Magnitude(c) = 0 => Len(r) <= 1
    <3> HIDE DEF r
    <3> QED BY <1>5, <2>1
  <2> QED BY <2>2, <2>3
<1>8. FixLimit \in Nat /\ FixLimit > 0
  BY Words
<1> HIDE DEF r
<1> DEFINE m == Magnitude(c)
           x == IF neg THEN -m ELSE m
           y == IF v < 0 THEN -m ELSE m
<1>9. Normalize(neg, c) = IF Len(r) <= 1 /\ IsFixnum(x) THEN Fixnum(x) ELSE Bignum(neg, r)
  BY <1>5 DEF Normalize, r
<1>10. Canonical(v) = IF Len(r) <= 1 /\ IsFixnum(y) THEN Fixnum(y) ELSE Bignum(v < 0, r)
  BY <1>4, <1>5 DEF Canonical, Normalize, d, r
<1>11. x = y
  BY <1>1, <1>6
<1>12. m # 0 => (v < 0) = neg
  BY <1>6
<1>13. m = 0 => Len(r) <= 1 /\ IsFixnum(x)
  BY <1>7, <1>8 DEF IsFixnum
<1> HIDE DEF v, m, x, y
<1> QED BY <1>2, <1>9, <1>10, <1>11, <1>12, <1>13 DEF v

-----------------------------------------------------------------------------
(* Objects of the arithmetic. *)
IsBignum(a) == /\ a.cells \in Seq(Digit) /\ a.neg \in BOOLEAN
               /\ a = Bignum(a.neg, a.cells)
               /\ Len(a.cells) >= 1
Number(a) == Signed(a.neg, a.cells)

LEMMA AbsIs ==
    ASSUME NEW n \in Int
    PROVE  Abs(n) \in Nat /\ n = IF n < 0 THEN -Abs(n) ELSE Abs(n)
BY DEF Abs

LEMMA AsBignumIs ==
    ASSUME NEW n \in Int
    PROVE  IsBignum(AsBignum(n)) /\ Number(AsBignum(n)) = n
<1> DEFINE a == AsBignum(n)
           c == a.cells
           m == Abs(n)
<1>1. m \in Nat /\ n = IF n < 0 THEN -m ELSE m
  BY AbsIs
<1>2. a = Bignum(n < 0, c) /\ a.neg = (n < 0)
  BY DEF AsBignum, FixnumToBignum, Bignum
<1>3. c \in Seq(Digit) /\ Magnitude(c) = m /\ Len(c) >= 1
  <2>1. CASE IsFixnum(n)
    <3>1. c = <<m>>
      BY <2>1 DEF AsBignum, FixnumToBignum, Bignum
    <3>2. m \in Digit
      BY <1>1, <2>1, Words DEF IsFixnum, Digit
    <3>3. c \in Seq(Digit) /\ Len(c) = 1 /\ c[1] = m
      BY <3>1, <3>2
    <3>4. Value(c, 0 + 1) = Value(c, 0) + At(c, 0 + 1) * Power(Radix, 0)
      BY <3>3, ValueIs
    <3> HIDE DEF c, m
    <3>5. Value(c, 0) = 0 /\ Power(Radix, 0) = 1 /\ At(c, 1) = m
      <4>1. 1 \in 1 .. Len(c)
        BY <3>3
      <4> QED BY <3>3, <4>1, ValueIs, Weights, AtIs
    <3> QED BY <1>1, <3>3, <3>4, <3>5 DEF Magnitude
  <2>2. CASE ~ IsFixnum(n)
    <3>1. c = Cells(m, Length(m))
      BY <2>2 DEF AsBignum, Bignum
    <3> HIDE DEF c, m
    <3> QED BY <1>1, <3>1, CanonicalCells
  <2> QED BY <2>1, <2>2
<1> HIDE DEF c, m
<1>4. Number(a) = n
  BY <1>1, <1>2, <1>3 DEF Number, Signed, c
<1> QED BY <1>2, <1>3, <1>4 DEF IsBignum, c

LEMMA MaxOfTwo ==
    ASSUME NEW m \in Nat, NEW n \in Nat
    PROVE  Max({m, n}) \in Nat /\ Max({m, n}) >= m /\ Max({m, n}) >= n /\ Max({m, n}) \in {m, n}
<1>1. \E x \in {m, n} : \A y \in {m, n} : x >= y
  OBVIOUS
<1> QED BY <1>1 DEF Max

LEMMA AddSameSignIs ==
    ASSUME NEW a, NEW b, IsBignum(a), IsBignum(b)
    PROVE  AddSameSign(a, b) =
              Canonical(IF a.neg THEN -(Magnitude(a.cells) + Magnitude(b.cells))
                        ELSE Magnitude(a.cells) + Magnitude(b.cells))
<1> DEFINE c == a.cells
           d == b.cells
           l == Max({Len(c), Len(d)})
           len == 1 + l
           s == AddBignumWords(c, d, len)
<1>1. c \in Seq(Digit) /\ d \in Seq(Digit) /\ a.neg \in BOOLEAN
  BY DEF IsBignum
<1>2. Len(c) \in Nat /\ Len(d) \in Nat
  BY <1>1
<1>3. l \in Nat /\ l >= Len(c) /\ l >= Len(d)
  BY <1>2, MaxOfTwo
<1>4. AddSameSign(a, b) = Normalize(a.neg, s)
  BY DEF AddSameSign
<1> HIDE DEF c, d, l
<1>5. len \in Nat /\ len >= Len(c) /\ len >= Len(d) /\ len = l + 1
  BY <1>2, <1>3
<1> HIDE DEF len
<1>6. /\ s \in Seq(Digit) /\ Len(s) = len
      /\ Value(s, len) + Carry(c, d)[len] * Power(Radix, len) = Value(c, len) + Value(d, len)
  BY <1>1, <1>5, AddedWords
<1> HIDE DEF s
<1>7. Value(s, len) = Magnitude(s) /\ Value(c, len) = Magnitude(c) /\ Value(d, len) = Magnitude(d)
  BY <1>1, <1>5, <1>6, MagnitudeIs
<1>8. Carry(c, d)[len] = 0
  <2> DEFINE w == Power(Radix, l)
             x == Magnitude(c)
             y == Magnitude(d)
             z == Carry(c, d)[len]
             v == Magnitude(s)
  <2>1. Power(Radix, len) = Radix * w /\ w \in Nat /\ w > 0
    BY <1>3, <1>5, Weights
  <2>2. x < w /\ y < w /\ x \in Nat /\ y \in Nat /\ v \in Nat
    <3>1. Value(c, l) = x /\ Value(c, l) < w /\ Value(d, l) = y /\ Value(d, l) < w
      BY <1>1, <1>3, MagnitudeIs, ValueBound
    <3> QED BY <1>1, <1>6, <3>1, MagnitudeIs
  <2>3. z \in {0, 1}
    BY <1>1, <1>5, CarryIs
  <2>4. v + z * (Radix * w) = x + y
    BY <1>6, <1>7, <2>1
  <2> HIDE DEF w, x, y, z, v
  <2>5. Radix * w >= 2 * w
    BY <2>1, Words
  <2>6. z # 1
    BY <2>1, <2>2, <2>4, <2>5, Words
  <2> QED BY <2>3, <2>6 DEF z
<1>9. Magnitude(s) = Magnitude(c) + Magnitude(d)
  <2>1. Magnitude(s) + 0 * Power(Radix, len) = Magnitude(c) + Magnitude(d)
    BY <1>6, <1>7, <1>8
  <2>2. Power(Radix, len) \in Nat /\ Magnitude(s) \in Nat
    BY <1>5, <1>6, Weights, MagnitudeIs
  <2> QED BY <2>1, <2>2
<1>10. Normalize(a.neg, s) = Canonical(Signed(a.neg, s))
  BY <1>1, <1>6, NormalizeIs
<1> QED BY <1>4, <1>9, <1>10 DEF Signed, c, d

(* The smaller magnitude is taken from the larger one. *)
LEMMA SubtractedMagnitude ==
    ASSUME NEW c \in Seq(Digit), NEW d \in Seq(Digit), NEW len \in Nat,
           len >= Len(c), len >= Len(d), Magnitude(c) >= Magnitude(d)
    PROVE  /\ SubBignumWords(c, d, len) \in Seq(Digit)
           /\ Magnitude(SubBignumWords(c, d, len)) = Magnitude(c) - Magnitude(d)
<1> DEFINE s == SubBignumWords(c, d, len)
<1>1. /\ s \in Seq(Digit) /\ Len(s) = len
      /\ Value(s, len) + Value(d, len) = Value(c, len) + Borrow(c, d)[len] * Power(Radix, len)
  BY SubtractedWords
<1> HIDE DEF s
<1>2. Value(s, len) = Magnitude(s) /\ Value(c, len) = Magnitude(c) /\ Value(d, len) = Magnitude(d)
  BY <1>1, MagnitudeIs
<1> DEFINE w == Power(Radix, len)
           x == Magnitude(c)
           y == Magnitude(d)
           z == Borrow(c, d)[len]
           v == Magnitude(s)
<1>3. w \in Nat /\ x \in Nat /\ y \in Nat /\ v \in Nat /\ v < w /\ x >= y
  BY <1>1, MagnitudeIs, Weights
<1>4. z \in {0, 1} /\ v + y = x + z * w
  BY <1>1, <1>2, BorrowIs
<1> HIDE DEF w, x, y, z, v
<1>5. z # 1
  BY <1>3, <1>4
<1>6. z = 0
  BY <1>4, <1>5
<1>7. v = x - y
  BY <1>3, <1>4, <1>6
<1> QED BY <1>1, <1>7 DEF s, v, x, y

LEMMA SubSameSignIs ==
    ASSUME NEW a, NEW b, IsBignum(a), IsBignum(b)
    PROVE  SubSameSign(a, b) =
              Canonical(IF a.neg THEN -(Magnitude(a.cells) - Magnitude(b.cells))
                        ELSE Magnitude(a.cells) - Magnitude(b.cells))
<1> DEFINE c == a.cells
           d == b.cells
           len == Max({Len(c), Len(d)})
<1>1. c \in Seq(Digit) /\ d \in Seq(Digit) /\ a.neg \in BOOLEAN
  BY DEF IsBignum
<1>2. Len(c) \in Nat /\ Len(d) \in Nat
  BY <1>1
<1>3. len \in Nat /\ len >= Len(c) /\ len >= Len(d)
  BY <1>2, MaxOfTwo
<1>4. SubSameSign(a, b) = IF Magnitude(c) >= Magnitude(d)
                          THEN Normalize(a.neg, SubBignumWords(c, d, len))
                          ELSE Normalize(~ a.neg, SubBignumWords(d, c, len))
  BY DEF SubSameSign
<1> HIDE DEF len, c, d
<1>5. Magnitude(c) \in Nat /\ Magnitude(d) \in Nat
  BY <1>1, MagnitudeIs
<1>6. CASE Magnitude(c) >= Magnitude(d)
  <2> DEFINE s == SubBignumWords(c, d, len)
  <2>1. s \in Seq(Digit) /\ Magnitude(s) = Magnitude(c) - Magnitude(d)
    BY <1>1, <1>3, <1>6, SubtractedMagnitude
  <2> HIDE DEF s
  <2>2. Normalize(a.neg, s) = Canonical(Signed(a.neg, s))
    BY <1>1, <2>1, NormalizeIs
  <2> QED BY <1>4, <1>6, <2>1, <2>2 DEF Signed, c, d, s
<1>7. CASE ~ (Magnitude(c) >= Magnitude(d))
  <2> DEFINE s == SubBignumWords(d, c, len)
  <2>1. s \in Seq(Digit) /\ Magnitude(s) = Magnitude(d) - Magnitude(c)
    BY <1>1, <1>3, <1>5, <1>7, SubtractedMagnitude
  <2> HIDE DEF s
  <2>2. Normalize(~ a.neg, s) = Canonical(Signed(~ a.neg, s))
    <3>1. (~ a.neg) \in BOOLEAN
      OBVIOUS
    <3> QED BY <2>1, <3>1, NormalizeIs
  <2>3. Signed(~ a.neg, s) = IF a.neg THEN -(Magnitude(c) - Magnitude(d))
                             ELSE Magnitude(c) - Magnitude(d)
    BY <1>1, <1>5, <2>1 DEF Signed
  <2> QED BY <1>4, <1>7, <2>2, <2>3 DEF c, d, s
<1> QED BY <1>6, <1>7

LEMMA NegateIs ==
    ASSUME NEW a, IsBignum(a)
    PROVE  IsBignum(Negate(a)) /\ Negate(a).cells = a.cells /\ Negate(a).neg = ~ a.neg
BY DEF IsBignum, Negate, Bignum

LEMMA AddBignumsIs ==
    ASSUME NEW a, NEW b, IsBignum(a), IsBignum(b)
    PROVE  /\ AddBignums(a, b) = Canonical(Number(a) + Number(b))
           /\ SubBignums(a, b) = Canonical(Number(a) - Number(b))
<1> DEFINE x == Magnitude(a.cells)
           y == Magnitude(b.cells)
           na == Negate(a)
           nb == Negate(b)
<1>1. x \in Nat /\ y \in Nat /\ a.neg \in BOOLEAN /\ b.neg \in BOOLEAN
  BY MagnitudeIs DEF IsBignum
<1>2. /\ IsBignum(na) /\ na.cells = a.cells /\ na.neg = ~ a.neg
      /\ IsBignum(nb) /\ nb.cells = b.cells /\ nb.neg = ~ b.neg
  BY NegateIs
<1>3. Number(a) = (IF a.neg THEN -x ELSE x) /\ Number(b) = IF b.neg THEN -y ELSE y
  BY DEF Number, Signed
<1>4. AddBignums(a, b) = IF a.neg = b.neg THEN AddSameSign(a, b)
                         ELSE IF a.neg THEN SubSameSign(b, na) ELSE SubSameSign(a, nb)
  BY DEF AddBignums
<1>5. SubBignums(a, b) = IF a.neg = b.neg THEN SubSameSign(a, b) ELSE AddSameSign(a, nb)
  BY DEF SubBignums
<1>6. /\ AddSameSign(a, b) = Canonical(IF a.neg THEN -(x + y) ELSE x + y)
      /\ SubSameSign(a, b) = Canonical(IF a.neg THEN -(x - y) ELSE x - y)
  BY AddSameSignIs, SubSameSignIs
<1> HIDE DEF na, nb
<1>7. /\ AddSameSign(a, nb) = Canonical(IF a.neg THEN -(x + y) ELSE x + y)
      /\ SubSameSign(a, nb) = Canonical(IF a.neg THEN -(x - y) ELSE x - y)
      /\ SubSameSign(b, na) = Canonical(IF b.neg THEN -(y - x) ELSE y - x)
  <2>1. AddSameSign(a, nb) = Canonical(IF a.neg THEN -(x + Magnitude(nb.cells)) ELSE x + Magnitude(nb.cells))
    BY <1>2, AddSameSignIs
  <2>2. SubSameSign(a, nb) = Canonical(IF a.neg THEN -(x - Magnitude(nb.cells)) ELSE x - Magnitude(nb.cells))
    BY <1>2, SubSameSignIs
  <2>3. SubSameSign(b, na) = Canonical(IF b.neg THEN -(y - Magnitude(na.cells)) ELSE y - Magnitude(na.cells))
    BY <1>2, SubSameSignIs
  <2> QED BY <1>2, <2>1, <2>2, <2>3
<1> DEFINE p == Number(a)
           q == Number(b)
<1> HIDE DEF x, y, p, q
<1>8. p = (IF a.neg THEN -x ELSE x) /\ q = IF b.neg THEN -y ELSE y
  BY <1>3 DEF p, q
<1>9. AddBignums(a, b) = Canonical(p + q)
  <2>1. CASE a.neg /\ b.neg
    <3>1. p + q = -(x + y)
      BY <1>1, <1>8, <2>1
    <3> QED BY <1>4, <1>6, <2>1, <3>1
  <2>2. CASE ~ a.neg /\ ~ b.neg
    <3>1. p + q = x + y
      BY <1>1, <1>8, <2>2
    <3> QED BY <1>1, <1>4, <1>6, <2>2, <3>1
  <2>3. CASE a.neg /\ ~ b.neg
    <3>1. p + q = y - x
      BY <1>1, <1>8, <2>3
    <3> QED BY <1>1, <1>4, <1>7, <2>3, <3>1
  <2>4. CASE ~ a.neg /\ b.neg
    <3>1. p + q = x - y
      BY <1>1, <1>8, <2>4
    <3> QED BY <1>1, <1>4, <1>7, <2>4, <3>1
  <2> QED BY <1>1, <2>1, <2>2, <2>3, <2>4
<1>10. SubBignums(a, b) = Canonical(p - q)
  <2>1. CASE a.neg /\ b.neg
    <3>1. p - q = -(x - y)
      BY <1>1, <1>8, <2>1
    <3> QED BY <1>5, <1>6, <2>1, <3>1
  <2>2. CASE ~ a.neg /\ ~ b.neg
    <3>1. p - q = x - y
      BY <1>1, <1>8, <2>2
    <3> QED BY <1>1, <1>5, <1>6, <2>2, <3>1
  <2>3. CASE a.neg /\ ~ b.neg
    <3>1. p - q = -(x + y)
      BY <1>1, <1>8, <2>3
    <3> QED BY <1>1, <1>5, <1>7, <2>3, <3>1
  <2>4. CASE ~ a.neg /\ b.neg
    <3>1. p - q = x + y
      BY <1>1, <1>8, <2>4
    <3> QED BY <1>1, <1>5, <1>7, <2>4, <3>1
  <2> QED BY <1>1, <2>1, <2>2, <2>3, <2>4
<1> QED BY <1>9, <1>10 DEF p, q

-----------------------------------------------------------------------------
(* Products. *)
RowState == [cell : Nat, overflow : Nat, carry : {0, 1}]

RowNext(x, c, y, last) ==
    LET product == x * c + last.overflow
        low == (product % Radix) + last.carry
        sum == y + (low % Radix)
    IN  [cell |-> sum % Radix,
         overflow |-> product \div Radix,
         carry |-> sum \div Radix]

(* The first addition of the column carries, and the carry is not counted.  *)
RowLost(x, c, last) == ((x * c + last.overflow) % Radix) + last.carry >= Radix

(* One column: nothing of the product is lost but that carry. *)
LEMMA RowNextIs ==
    ASSUME NEW x \in Nat, NEW c \in Nat, NEW y \in Digit, NEW last \in RowState
    PROVE  LET n == RowNext(x, c, y, last)
           IN  /\ n \in RowState /\ n.cell \in Digit
               /\ n.overflow = (x * c + last.overflow) \div Radix
               /\ n.cell + Radix * (n.overflow + n.carry)
                     + (IF RowLost(x, c, last) THEN Radix ELSE 0)
                     = y + x * c + last.overflow + last.carry
<1> DEFINE product == x * c + last.overflow
           low == (product % Radix) + last.carry
           sum == y + (low % Radix)
           n == RowNext(x, c, y, last)
           lost == IF RowLost(x, c, last) THEN Radix ELSE 0
<1>1. Radix \in Nat /\ Radix > 0 /\ y \in Nat /\ y < Radix
  BY Words DEF Digit
<1>2. last.overflow \in Nat /\ last.carry \in {0, 1}
  BY DEF RowState
<1>3. x * c \in Nat
  OBVIOUS
<1>4. product \in Nat
  BY <1>2, <1>3
<1>5. n = [cell |-> sum % Radix, overflow |-> product \div Radix, carry |-> sum \div Radix]
  BY DEF RowNext
<1>20. lost = IF low >= Radix THEN Radix ELSE 0
  BY DEF RowLost
<1> HIDE DEF n, lost
<1> DEFINE xc == x * c
<1>6. xc \in Nat /\ product = xc + last.overflow
  BY <1>3
<1> HIDE DEF xc, product
<1>7. /\ product \div Radix \in Nat /\ product % Radix \in Nat /\ product % Radix < Radix
      /\ product = Radix * (product \div Radix) + (product % Radix)
  BY <1>1, <1>4, DivMod
<1> DEFINE ph == product \div Radix
           pl == product % Radix
<1>8. low = pl + last.carry
  OBVIOUS
<1>9. ph \in Nat /\ pl \in Nat /\ pl < Radix /\ product = Radix * ph + pl
  BY <1>7
<1> HIDE DEF ph, pl, low
<1>10. low \in Nat /\ low <= Radix
  BY <1>1, <1>2, <1>8, <1>9
<1> DEFINE ll == low % Radix
<1>11. ll \in Nat /\ ll < Radix /\ low = lost + ll /\ lost \in Nat
  <2>1. CASE low < Radix
    <3>1. low = Radix * 0 + low
      BY <1>1, <1>10
    <3>2. ll = low
      BY <1>1, <1>10, <2>1, <3>1, DivUnique
    <3> QED BY <1>1, <1>10, <1>20, <2>1, <3>2
  <2>2. CASE ~ (low < Radix)
    <3>1. low = Radix * 1 + 0 /\ 0 \in Nat /\ 1 \in Int
      BY <1>1, <1>10, <2>2
    <3>2. ll = 0
      BY <1>1, <1>10, <3>1, DivUnique
    <3> QED BY <1>1, <1>10, <1>20, <2>2, <3>2
  <2> QED BY <2>1, <2>2
<1>12. sum = y + ll
  OBVIOUS
<1> HIDE DEF ll, sum
<1>13. sum \in Nat /\ sum < 2 * Radix
  BY <1>1, <1>11, <1>12
<1> DEFINE sh == sum \div Radix
           sl == sum % Radix
<1>14. sh \in {0, 1} /\ sl \in Nat /\ sl < Radix /\ sum = Radix * sh + sl
  <2>1. sh \in Nat /\ sl \in Nat /\ sl < Radix /\ sum = Radix * sh + sl
    BY <1>1, <1>13, DivMod
  <2> HIDE DEF sh, sl
  <2>2. ~ (sh >= 2)
    <3>1. ASSUME sh >= 2
          PROVE  FALSE
      <4>1. Radix * sh >= Radix * 2
        BY <1>1, <2>1, <3>1
      <4> QED BY <1>1, <1>13, <2>1, <4>1
    <3> QED BY <3>1
  <2> QED BY <2>1, <2>2
<1>15. /\ n.cell = sl /\ n.overflow = ph /\ n.carry = sh
       /\ n = [cell |-> sl, overflow |-> ph, carry |-> sh]
  BY <1>5 DEF ph
<1> HIDE DEF sh, sl
<1>16. n \in RowState
  BY <1>9, <1>14, <1>15 DEF RowState
<1>17. n.cell \in Digit
  BY <1>1, <1>14, <1>15 DEF Digit
<1>18. sl + Radix * (ph + sh) + lost = y + xc + last.overflow + last.carry
  <2> DEFINE o == last.overflow
             k1 == last.carry
  <2>1. o \in Nat /\ k1 \in Nat
    BY <1>2
  <2>2. xc + o = Radix * ph + pl /\ pl + k1 = lost + ll /\ y + ll = Radix * sh + sl
    BY <1>6, <1>8, <1>9, <1>11, <1>12, <1>14
  <2> HIDE DEF o, k1
  <2>3. Radix * (ph + sh) = Radix * ph + Radix * sh
    BY <1>1, <1>9, <1>14
  <2> DEFINE a1 == Radix * ph
             a3 == Radix * sh
             a4 == Radix * (ph + sh)
  <2>4. a1 \in Nat /\ a3 \in Nat /\ a4 \in Nat
    BY <1>1, <1>9, <1>14
  <2>5. a4 = a1 + a3 /\ xc + o = a1 + pl /\ y + ll = a3 + sl
    BY <2>2, <2>3
  <2> HIDE DEF a1, a3, a4
  <2>6. sl + a4 + lost = y + xc + o + k1
    BY <1>1, <2>1, <2>2, <2>4, <2>5, <1>6, <1>9, <1>11, <1>14
  <2> QED BY <2>6 DEF a4, o, k1
<1>19. n.overflow = (x * c + last.overflow) \div Radix
  BY <1>15 DEF ph, product
<1> QED BY <1>15, <1>16, <1>17, <1>18, <1>19 DEF n, xc, lost

LEMMA RowIs ==
    ASSUME NEW b1 \in Seq(Digit), NEW c \in Nat, NEW result \in Seq(Digit), NEW offset \in Nat
    PROVE  LET row == Row(b1, c, result, offset)
           IN  /\ row[0].overflow = 0 /\ row[0].carry = 0
               /\ \A n \in Nat : /\ row[n] \in RowState
                                 /\ row[n + 1] = RowNext(At(b1, n + 1), c,
                                                         At(result, offset + (n + 1)), row[n])
<1> DEFINE Step(i, x) == RowNext(At(b1, i), c, At(result, offset + i), x)
           S == RowState
           zero == [cell |-> 0, overflow |-> 0, carry |-> 0]
           G == [i \in Nat |-> [x \in S |-> Step(i, x)]]
           Is(q) == q = [j \in Nat |->
                IF j = 0 THEN [cell |-> 0, overflow |-> 0, carry |-> 0]
                ELSE LET last == q[j - 1]
                         product == At(b1, j) * c + last.overflow
                         low == (product % Radix) + last.carry
                         sum == At(result, offset + j) + (low % Radix)
                     IN  [cell |-> sum % Radix,
                          overflow |-> product \div Radix,
                          carry |-> sum \div Radix]]
           p == CHOOSE q : Is(q)
<1>0. ASSUME NEW i \in Nat, NEW x \in S
      PROVE  Step(i, x) \in S
  <2>1. At(b1, i) \in Nat /\ At(result, offset + i) \in Digit
    <3>1. i \in Int /\ offset + i \in Int
      OBVIOUS
    <3> QED BY <3>1, AtIs
  <2> QED BY <2>1, RowNextIs
<1>1. G \in [Nat -> [S -> S]] /\ zero \in S
  <2>1. zero \in S
    BY DEF RowState
  <2> HIDE DEF Step, S
  <2> QED BY <1>0, <2>1
<1>2. \A i \in Nat : \A x \in S : G[i][x] = Step(i, x)
  <2> HIDE DEF Step, S
  <2> QED OBVIOUS
<1>3. \A q : Is(q) <=> q = [j \in Nat |-> IF j = 0 THEN zero ELSE Step(j, q[j - 1])]
  BY DEF RowNext
<1> HIDE DEF G
<1>4. \E q : Is(q)
  <2>1. PICK q \in [Nat -> S] : Recurs(q, zero, G)
    <3> HIDE DEF Is, Step, S, zero
    <3> QED BY <1>1, RecursionExists
  <2>2. \A i \in Nat : i # 0 => i - 1 \in Nat /\ q[i - 1] \in S
    <3> HIDE DEF S
    <3> QED OBVIOUS
  <2>3. \A i \in Nat : q[i] = IF i = 0 THEN zero ELSE Step(i, q[i - 1])
    <3> HIDE DEF Step, S, zero, Is
    <3> QED BY <1>2, <2>1, <2>2 DEF Recurs
  <2>4. q = [j \in Nat |-> IF j = 0 THEN zero ELSE Step(j, q[j - 1])]
    <3> HIDE DEF Step, S, zero, Is
    <3> QED BY <2>3
  <2>5. Is(q)
    <3> HIDE DEF Step, S, zero, Is
    <3> QED BY <1>3, <2>4
  <2> HIDE DEF Is
  <2> QED BY <2>5
<1>5. Row(b1, c, result, offset) = p
  BY DEF Row
<1>6. p = [j \in Nat |-> IF j = 0 THEN zero ELSE Step(j, p[j - 1])]
  <2>1. Is(p)
    <3> HIDE DEF Is
    <3> QED BY <1>4
  <2> HIDE DEF Is, p, Step, zero
  <2> QED BY <1>3, <2>1
<1> HIDE DEF p
<1>7. \A i \in Nat : p[i] = IF i = 0 THEN zero ELSE Step(i, p[i - 1])
  <2> HIDE DEF Step, zero
  <2> QED BY <1>6
<1>8. \A i \in Nat : p[i] \in S
  <2>1. Stays(p, S)
    <3> HIDE DEF Step, S, zero
    <3> QED BY <1>0, <1>1, <1>7 DEF Stays
  <2> HIDE DEF S
  <2> QED BY <2>1, StaysIn
<1>9. ASSUME NEW n \in Nat
      PROVE  p[n] \in S /\ p[n + 1] = Step(n + 1, p[n])
  <2>1. n + 1 \in Nat /\ n + 1 # 0 /\ (n + 1) - 1 = n
    OBVIOUS
  <2> HIDE DEF Step, S
  <2> QED BY <2>1, <1>7, <1>8
<1>10. p[0] = zero
  <2> HIDE DEF Step, zero
  <2> QED BY <1>7
<1>11. p[0].overflow = 0 /\ p[0].carry = 0
  BY <1>10
<1> QED BY <1>5, <1>9, <1>11

LEMMA ValueSame ==
    ASSUME NEW c \in Seq(Digit), NEW d \in Seq(Digit), NEW m \in Nat,
           \A i \in 1 .. m : At(c, i) = At(d, i)
    PROVE  Value(c, m) = Value(d, m)
<1> DEFINE T == {n \in Nat : n <= m => Value(c, n) = Value(d, n)}
<1>1. 0 \in T
  BY ValueIs
<1>2. ASSUME NEW n \in Nat, n \in T
      PROVE  n + 1 \in T
  <2>1. CASE n + 1 <= m
    <3>1. At(c, n + 1) = At(d, n + 1)
      BY <2>1
    <3>2. Value(c, n) = Value(d, n)
      BY <1>2, <2>1
    <3>3. Value(c, n + 1) = Value(c, n) + At(c, n + 1) * Power(Radix, n)
      BY ValueIs
    <3>4. Value(d, n + 1) = Value(d, n) + At(d, n + 1) * Power(Radix, n)
      BY ValueIs
    <3> QED BY <3>1, <3>2, <3>3, <3>4
  <2>2. CASE ~ (n + 1 <= m)
    BY <2>2
  <2> QED BY <2>1, <2>2
<1>3. m \in T
  <2> HIDE DEF T
  <2> QED BY <1>1, <1>2, Induction
<1> QED BY <1>3

(* The digits of a number and the numbers of its lowest digits.            *)
LEMMA DigitsOf ==
    ASSUME NEW c \in Seq(Digit)
    PROVE  /\ \A j \in 0 .. Len(c) : Value(c, j) = Magnitude(c) % Power(Radix, j)
           /\ \A j \in 0 .. Len(c) - 1 :
                At(c, j + 1) = (Magnitude(c) \div Power(Radix, j)) % Radix
<1> DEFINE m == Magnitude(c)
           n == Len(c)
           d == Cells(m, n)
<1>1. m \in Nat /\ n \in Nat /\ m < Power(Radix, n)
  BY MagnitudeIs
<1>2. d \in Seq(Digit) /\ Len(d) = n
  <2> HIDE DEF m, n
  <2> QED BY <1>1, CellsAre
<1>3. Magnitude(d) = m
  <2> HIDE DEF m, n
  <2> QED BY <1>1, CellsMagnitude
<1>4. Value(d, n) = Value(c, n)
  <2>1. Magnitude(d) = Value(d, n)
    <3> HIDE DEF d
    <3> QED BY <1>2 DEF Magnitude
  <2> HIDE DEF d
  <2> QED BY <1>3, <2>1 DEF Magnitude
<1>5. \A j \in 0 .. n : Value(d, j) = m % Power(Radix, j)
  <2> HIDE DEF m, n
  <2> QED BY <1>1, CellsValue
<1>6. \A i \in 1 .. n : At(d, i) = (m \div Power(Radix, i - 1)) % Radix
  <2> HIDE DEF m, n
  <2> QED BY <1>1, CellsAre
<1> HIDE DEF d, m
<1>7. \A i \in 1 .. n : At(d, i) = At(c, i)
  <2> HIDE DEF n
  <2> QED BY <1>1, <1>2, <1>4, SameDigits
<1>8. ASSUME NEW j \in 0 .. n
      PROVE  Value(c, j) = m % Power(Radix, j)
  <2>1. j \in Nat /\ \A i \in 1 .. j : i \in 1 .. n
    BY <1>1
  <2>2. \A i \in 1 .. j : At(c, i) = At(d, i)
    BY <2>1, <1>7
  <2>3. Value(c, j) = Value(d, j)
    <3> HIDE DEF n
    <3> QED BY <1>2, <2>1, <2>2, ValueSame
  <2> QED BY <1>5, <2>3
<1>9. ASSUME NEW j \in 0 .. n - 1
      PROVE  At(c, j + 1) = (m \div Power(Radix, j)) % Radix
  <2>1. j + 1 \in 1 .. n /\ (j + 1) - 1 = j
    BY <1>1
  <2> HIDE DEF n
  <2>2. At(d, j + 1) = (m \div Power(Radix, (j + 1) - 1)) % Radix
    BY <2>1, <1>6
  <2> QED BY <1>7, <2>1, <2>2
<1> QED BY <1>8, <1>9 DEF m, n

LEMMA RowSum ==
    ASSUME NEW vs \in Nat, NEW vr \in Nat, NEW vb \in Nat, NEW c \in Nat, NEW po \in Nat,
           NEW pj \in Nat, NEW w \in Nat, NEW e \in Nat, NEW y \in Nat, NEW x \in Nat,
           NEW k0 \in Nat, NEW k1 \in Nat, NEW d \in Nat, NEW g \in Nat, NEW l \in Nat,
           w = po * pj, vs + k0 * w + g = vr + (c * vb) * po, e + d * k1 + l = y + x * c + k0
    PROVE  (vs + e * w) + k1 * (d * w) + (g + l * w) = (vr + y * w) + (c * (vb + x * pj)) * po
<1>1. (e + d * k1 + l) * w = (y + x * c + k0) * w
  OBVIOUS
<1>2. e * w + k1 * (d * w) + l * w = y * w + (x * c) * w + k0 * w
  <2>1. (e + d * k1 + l) * w = e * w + k1 * (d * w) + l * w
    <3> DEFINE z == d * k1
    <3>1. z \in Nat /\ z * w = k1 * (d * w)
      OBVIOUS
    <3> HIDE DEF z
    <3>2. (e + z + l) * w = e * w + z * w + l * w
      BY <3>1
    <3> QED BY <3>1, <3>2 DEF z
  <2>2. (y + x * c + k0) * w = y * w + (x * c) * w + k0 * w
    <3> DEFINE z == x * c
    <3>1. z \in Nat
      OBVIOUS
    <3> HIDE DEF z
    <3>2. (y + z + k0) * w = y * w + z * w + k0 * w
      BY <3>1
    <3> QED BY <3>2 DEF z
  <2> QED BY <1>1, <2>1, <2>2
<1>3. (c * (vb + x * pj)) * po = (c * vb) * po + (x * c) * w
  <2>1. c * (vb + x * pj) = c * vb + (x * c) * pj
    <3>1. x * pj \in Nat
      OBVIOUS
    <3> QED BY <3>1
  <2> DEFINE p == c * vb
             z == x * c
  <2>2. p \in Nat /\ z \in Nat
    OBVIOUS
  <2> HIDE DEF p, z
  <2>3. (p + z * pj) * po = p * po + z * (po * pj)
    <3>1. z * pj \in Nat
      BY <2>2
    <3> QED BY <2>2, <3>1
  <2> QED BY <2>1, <2>3 DEF p, z
<1> DEFINE a1 == e * w
           a2 == k1 * (d * w)
           a3 == y * w
           a4 == (x * c) * w
           a5 == k0 * w
           a6 == (c * vb) * po
           a7 == l * w
<1>4. a7 \in Nat /\ a1 \in Nat /\ a2 \in Nat /\ a3 \in Nat /\ a4 \in Nat /\ a5 \in Nat /\ a6 \in Nat
  OBVIOUS
<1>5. a1 + a2 + a7 = a3 + a4 + a5 /\ vs + a5 + g = vr + a6
  BY <1>2
<1>6. (c * (vb + x * pj)) * po = a6 + a4
  BY <1>3
<1> HIDE DEF a1, a2, a3, a4, a5, a6, a7
<1>7. (vs + a1) + a2 + (g + a7) = (vr + a3) + (a6 + a4)
  BY <1>4, <1>5
<1> QED BY <1>6, <1>7 DEF a1, a2, a3, a7

(* What a row leaves in the cells.                                          *)
LEMMA MulRowCells ==
    ASSUME NEW b1 \in Seq(Digit), NEW c \in Nat, NEW result \in Seq(Digit), NEW offset \in Nat
    PROVE  LET s == MulRow(b1, c, result, offset)
               row == Row(b1, c, result, offset)
               n == Len(b1)
               end == offset + (n + 1)
           IN  /\ s \in Seq(Digit) /\ Len(s) = Len(result)
               /\ \A i \in Nat : i > end => At(s, i) = At(result, i)
               /\ \A i \in 1 .. offset : At(s, i) = At(result, i)
               /\ end <= Len(result) =>
                     /\ \A j \in 0 .. n - 1 : At(s, offset + (j + 1)) = row[j + 1].cell
                     /\ At(s, end) = (At(result, end) + (row[n].overflow + row[n].carry)) % Radix
<1> DEFINE s == MulRow(b1, c, result, offset)
           row == Row(b1, c, result, offset)
           n == Len(b1)
           end == offset + (n + 1)
           last == (result[end] + row[n].overflow + row[n].carry) % Radix
<1>0. n \in Nat /\ end \in Nat /\ Radix \in Nat /\ Radix > 0
  BY Words
<1>1. s = [i \in DOMAIN result |->
             IF i \in offset + 1 .. end - 1 THEN row[i - offset].cell
             ELSE IF i = end THEN last ELSE result[i]]
  <2>1. offset + Len(b1) + 1 = end
    BY <1>0
  <2> HIDE DEF row, end
  <2> QED BY <2>1 DEF MulRow, row
<1>2. /\ \A j \in Nat : row[j] \in RowState
      /\ \A j \in Nat : row[j + 1] = RowNext(At(b1, j + 1), c, At(result, offset + (j + 1)), row[j])
  <2>1. /\ row[0].overflow = 0 /\ row[0].carry = 0
        /\ \A j \in Nat : /\ row[j] \in RowState
                          /\ row[j + 1] = RowNext(At(b1, j + 1), c, At(result, offset + (j + 1)), row[j])
    BY RowIs, ZenonT(60)
  <2> HIDE DEF row
  <2> QED BY <2>1
<1> HIDE DEF row, s
<1>3. ASSUME NEW j \in Nat
      PROVE  row[j + 1].cell \in Digit
  <2> DEFINE x == At(b1, j + 1)
             y == At(result, offset + (j + 1))
             l == row[j]
  <2>1. x \in Nat /\ y \in Digit
    <3>1. j + 1 \in Int /\ offset + (j + 1) \in Int
      OBVIOUS
    <3> QED BY <3>1, AtIs
  <2>2. l \in RowState /\ row[j + 1] = RowNext(x, c, y, l)
    BY <1>2
  <2> HIDE DEF x, y, l
  <2> QED BY <2>1, <2>2, RowNextIs
<1>4. s \in Seq(Digit) /\ Len(s) = Len(result)
  <2>1. ASSUME NEW i \in DOMAIN result
        PROVE  s[i] \in Digit
    <3>1. CASE i \in offset + 1 .. end - 1
      <4>1. (i - offset) - 1 \in Nat /\ ((i - offset) - 1) + 1 = i - offset
        BY <1>0, <3>1
      <4>2. row[i - offset].cell \in Digit
        BY <1>3, <4>1
      <4> QED BY <1>1, <3>1, <4>2
    <3>2. CASE i = end
      <4>1. result[end] \in Nat
        <5>1. result[i] \in Digit
          OBVIOUS
        <5> HIDE DEF end
        <5> QED BY <3>2, <5>1 DEF Digit
      <4>2. row[n] \in RowState
        BY <1>0, <1>2
      <4> DEFINE z == result[end] + row[n].overflow + row[n].carry
      <4>3. z \in Nat
        BY <4>1, <4>2 DEF RowState
      <4> HIDE DEF z
      <4>4. z % Radix \in Digit
        BY <1>0, <4>3 DEF Digit
      <4>5. s[i] = z % Radix
        BY <1>0, <1>1, <3>2 DEF z
      <4> QED BY <4>4, <4>5
    <3>3. CASE i # end /\ i \notin offset + 1 .. end - 1
      BY <1>1, <3>3
    <3> QED BY <3>1, <3>2, <3>3
  <2>2. DOMAIN result = 1 .. Len(result) /\ Len(result) \in Nat /\ DOMAIN s = DOMAIN result
    BY <1>1
  <2>3. s = [i \in 1 .. Len(result) |-> s[i]]
    BY <1>1, <2>2
  <2> QED BY <2>1, <2>2, <2>3
<1>5. ASSUME NEW i \in Nat, i > end
      PROVE  At(s, i) = At(result, i)
  <2>1. i \in DOMAIN result => s[i] = result[i]
    BY <1>0, <1>1, <1>5
  <2>2. DOMAIN s = DOMAIN result
    BY <1>1
  <2> QED BY <2>1, <2>2 DEF At
<1>6. ASSUME NEW i \in 1 .. offset
      PROVE  At(s, i) = At(result, i)
  <2>1. i \in DOMAIN result => s[i] = result[i]
    BY <1>0, <1>1
  <2>2. DOMAIN s = DOMAIN result
    BY <1>1
  <2> QED BY <2>1, <2>2 DEF At
<1>7. ASSUME end <= Len(result), NEW j \in 0 .. n - 1
      PROVE  At(s, offset + (j + 1)) = row[j + 1].cell
  <2> DEFINE i == offset + (j + 1)
  <2>1. /\ i \in DOMAIN result /\ i \in 1 .. Len(s)
        /\ i \in offset + 1 .. end - 1 /\ i - offset = j + 1
    BY <1>0, <1>4, <1>7
  <2>2. s[i] = row[j + 1].cell
    <3> HIDE DEF i, end
    <3> QED BY <1>1, <2>1
  <2>3. At(s, i) = s[i]
    <3> HIDE DEF i
    <3> QED BY <1>4, <2>1, AtIs
  <2> QED BY <2>2, <2>3
<1>8. ASSUME end <= Len(result)
      PROVE  At(s, end) = (At(result, end) + (row[n].overflow + row[n].carry)) % Radix
  <2>1. /\ end \in DOMAIN result /\ end \in 1 .. Len(s) /\ end \in 1 .. Len(result)
        /\ ~ (end \in offset + 1 .. end - 1)
    BY <1>0, <1>4, <1>8
  <2>2. s[end] = last
    <3> HIDE DEF last, end
    <3> QED BY <1>1, <2>1
  <2>3. At(s, end) = s[end] /\ At(result, end) = result[end] /\ At(result, end) \in Nat
    <3>1. end \in Int
      BY <1>0
    <3> HIDE DEF end, last
    <3>2. At(s, end) = s[end]
      BY <1>4, <2>1, AtIs
    <3>3. At(result, end) = result[end]
      BY <2>1, AtIs
    <3>4. At(result, end) \in Nat
      BY <3>1, AtIs
    <3> QED BY <3>2, <3>3, <3>4
  <2>4. row[n] \in RowState
    BY <1>0, <1>2
  <2>5. row[n].overflow \in Nat /\ row[n].carry \in Nat
    BY <2>4 DEF RowState
  <2> DEFINE z == At(result, end)
  <2>6. z \in Nat /\ z = result[end]
    BY <2>3
  <2> HIDE DEF end, z
  <2>7. result[end] + row[n].overflow + row[n].carry = z + (row[n].overflow + row[n].carry)
    BY <2>5, <2>6
  <2> QED BY <2>2, <2>3, <2>7 DEF z
<1> HIDE DEF end
<1> QED BY <1>4, <1>5, <1>6, <1>7, <1>8 DEF s, row, n, end

LostAt(b1, c, result, offset, j) ==
    RowLost(At(b1, j + 1), c, Row(b1, c, result, offset)[j])
RowLoses(b1, c, result, offset) ==
    \E j \in 0 .. Len(b1) - 1 : LostAt(b1, c, result, offset, j)

(* What j columns of a row should come to, and what they keep of it.        *)
Total(b1, c, result, offset, j) ==
    Value(result, offset + j) + (c * Value(b1, j)) * Power(Radix, offset)
Kept(b1, c, result, offset, j) ==
    LET row == Row(b1, c, result, offset)
    IN  Value(MulRow(b1, c, result, offset), offset + j)
            + (row[j].overflow + row[j].carry) * Power(Radix, offset + j)

(* The columns keep less than they should as soon as one lost its carry.    *)
LEMMA RowGap ==
    ASSUME NEW b1 \in Seq(Digit), NEW c \in Nat, NEW result \in Seq(Digit), NEW offset \in Nat,
           offset + (Len(b1) + 1) <= Len(result)
    PROVE  \A j \in 0 .. Len(b1) :
              LET gap == Total(b1, c, result, offset, j) - Kept(b1, c, result, offset, j)
              IN  /\ gap \in Nat
                  /\ gap = 0 <=> \A t \in 0 .. j - 1 : ~ LostAt(b1, c, result, offset, t)
<1> DEFINE s == MulRow(b1, c, result, offset)
           row == Row(b1, c, result, offset)
           n == Len(b1)
           end == offset + (n + 1)
           Out(j) == row[j].overflow + row[j].carry
           Lost(j) == RowLost(At(b1, j + 1), c, row[j])
           Gap(j) == (Value(result, offset + j) + (c * Value(b1, j)) * Power(Radix, offset))
                        - (Value(s, offset + j) + Out(j) * Power(Radix, offset + j))
<1>0. n \in Nat /\ end \in Nat /\ Radix \in Nat /\ Radix > 0
  BY Words
<1>1. /\ s \in Seq(Digit) /\ Len(s) = Len(result)
      /\ \A i \in 1 .. offset : At(s, i) = At(result, i)
      /\ \A j \in 0 .. n - 1 : At(s, offset + (j + 1)) = row[j + 1].cell
  <2>1. /\ s \in Seq(Digit) /\ Len(s) = Len(result)
        /\ \A i \in 1 .. offset : At(s, i) = At(result, i)
        /\ end <= Len(result) => \A j \in 0 .. n - 1 : At(s, offset + (j + 1)) = row[j + 1].cell
    BY MulRowCells, ZenonT(60)
  <2>2. end <= Len(result)
    OBVIOUS
  <2> HIDE DEF s, row, end
  <2> QED BY <2>1, <2>2
<1>2. /\ row[0].overflow = 0 /\ row[0].carry = 0
      /\ \A j \in Nat : /\ row[j] \in RowState
                        /\ row[j + 1] = RowNext(At(b1, j + 1), c, At(result, offset + (j + 1)), row[j])
  BY RowIs, ZenonT(60)
<1>9. \A j \in Nat : /\ Lost(j) <=> LostAt(b1, c, result, offset, j)
                     /\ Gap(j) = Total(b1, c, result, offset, j) - Kept(b1, c, result, offset, j)
  BY DEF LostAt, Total, Kept
<1> HIDE DEF row, s
<1>3. ASSUME NEW j \in Nat
      PROVE  /\ Out(j) \in Nat /\ Out(j + 1) \in Nat
             /\ At(b1, j + 1) \in Nat /\ At(result, offset + (j + 1)) \in Nat
             /\ row[j + 1].cell \in Nat
             /\ row[j + 1].cell + Radix * Out(j + 1) + (IF Lost(j) THEN Radix ELSE 0)
                  = At(result, offset + (j + 1)) + At(b1, j + 1) * c + Out(j)
  <2> DEFINE x == At(b1, j + 1)
             y == At(result, offset + (j + 1))
             l == row[j]
             m == row[j + 1]
             xc == x * c
             lost == IF RowLost(x, c, l) THEN Radix ELSE 0
  <2>1. x \in Nat /\ y \in Digit /\ y \in Nat
    <3>1. j + 1 \in Int /\ offset + (j + 1) \in Int
      OBVIOUS
    <3> QED BY <3>1, AtIs
  <2>2. l \in RowState /\ m \in RowState /\ m = RowNext(x, c, y, l)
    <3>1. j + 1 \in Nat
      OBVIOUS
    <3> HIDE DEF Out, Gap, Lost
    <3> QED BY <1>2, <3>1
  <2>10. lost = IF Lost(j) THEN Radix ELSE 0
    OBVIOUS
  <2>11. lost \in Nat
    BY <1>0
  <2> HIDE DEF x, y, l, m, Lost
  <2>3. m.cell + Radix * (m.overflow + m.carry) + lost = y + x * c + l.overflow + l.carry
    BY <2>1, <2>2, RowNextIs
  <2> HIDE DEF lost
  <2>4. xc \in Nat /\ l.overflow \in Nat /\ l.carry \in Nat /\ m.overflow \in Nat /\ m.carry \in Nat /\ m.cell \in Nat
    BY <2>1, <2>2 DEF RowState
  <2> HIDE DEF xc
  <2>5. y + xc + l.overflow + l.carry = y + xc + (l.overflow + l.carry)
    BY <2>1, <2>4
  <2>6. m.cell + Radix * (m.overflow + m.carry) + lost = y + x * c + (l.overflow + l.carry)
    BY <2>3, <2>5 DEF xc
  <2>7. (l.overflow + l.carry) \in Nat /\ (m.overflow + m.carry) \in Nat
    BY <2>4
  <2>8. Out(j) = l.overflow + l.carry /\ Out(j + 1) = m.overflow + m.carry
    BY DEF l, m
  <2> HIDE DEF Out
  <2>9. /\ Out(j) \in Nat /\ Out(j + 1) \in Nat /\ x \in Nat /\ y \in Nat
        /\ m.cell \in Nat
        /\ m.cell + Radix * Out(j + 1) + lost = y + x * c + Out(j)
    BY <2>1, <2>4, <2>6, <2>7, <2>8
  <2> QED BY <2>9, <2>10 DEF x, y, m
<1>4. Gap(0) = 0
  <2>1. Value(s, offset) = Value(result, offset)
    BY <1>1, ValueSame
  <2> DEFINE w == Power(Radix, offset)
             v == Value(result, offset)
  <2>2. Value(b1, 0) = 0 /\ w \in Nat /\ v \in Nat /\ offset + 0 = offset /\ Out(0) = 0
    <3>1. Out(0) = 0
      BY <1>2
    <3> HIDE DEF Out, Gap, Lost
    <3>2. Value(b1, 0) = 0 /\ Power(Radix, offset) \in Nat /\ Value(result, offset) \in Nat
      BY ValueIs, Weights
    <3>3. offset + 0 = offset
      OBVIOUS
    <3> QED BY <3>1, <3>2, <3>3
  <2>3. Gap(0) = (v + (c * 0) * w) - (v + 0 * w)
    <3> HIDE DEF Out
    <3> QED BY <2>1, <2>2
  <2> HIDE DEF w, v, Gap
  <2> QED BY <2>2, <2>3
<1>5. ASSUME NEW j \in Nat, j + 1 <= n, Gap(j) \in Nat
      PROVE  /\ Lost(j) => Gap(j + 1) \in Nat /\ Gap(j + 1) > 0
             /\ ~ Lost(j) => Gap(j + 1) = Gap(j)
  <2> DEFINE o == offset + j
             vs == Value(s, o)
             vr == Value(result, o)
             vb == Value(b1, j)
             po == Power(Radix, offset)
             pj == Power(Radix, j)
             w == Power(Radix, o)
             e == row[j + 1].cell
             y == At(result, offset + (j + 1))
             x == At(b1, j + 1)
             k0 == Out(j)
             k1 == Out(j + 1)
             d == Radix
             g == Gap(j)
             lost == IF Lost(j) THEN d ELSE 0
             t1 == (c * vb) * po
             t2 == (c * (vb + x * pj)) * po
  <2>1. o \in Nat /\ offset + (j + 1) = o + 1 /\ j \in 0 .. n - 1
    BY <1>0, <1>5
  <2>2. /\ vs \in Nat /\ vr \in Nat /\ vb \in Nat /\ po \in Nat /\ pj \in Nat /\ w \in Nat /\ w > 0
        /\ e \in Nat /\ y \in Nat /\ x \in Nat /\ k0 \in Nat /\ k1 \in Nat /\ d \in Nat
    <3> HIDE DEF Out, Gap, Lost
    <3> QED BY <1>0, <1>1, <1>3, <2>1, ValueIs, Weights
  <2>3. w = po * pj
    BY <1>0, PowerSum
  <2>4. e + d * k1 + lost = y + x * c + k0
    <3> HIDE DEF Out, Gap, Lost
    <3> QED BY <1>3
  <2>5. At(s, o + 1) = e
    <3> HIDE DEF Out, Gap, Lost
    <3> QED BY <1>1, <2>1
  <2>6. /\ Value(s, o + 1) = vs + e * w /\ Value(result, o + 1) = vr + y * w
        /\ Value(b1, j + 1) = vb + x * pj /\ Power(Radix, o + 1) = d * w
    <3>1. Value(s, o + 1) = Value(s, o) + At(s, o + 1) * Power(Radix, o)
      BY <1>1, <2>1, ValueIs
    <3>2. Value(result, o + 1) = Value(result, o) + At(result, o + 1) * Power(Radix, o)
      BY <2>1, ValueIs
    <3>3. Value(b1, j + 1) = Value(b1, j) + At(b1, j + 1) * Power(Radix, j)
      BY ValueIs
    <3>4. Power(Radix, o + 1) = Radix * Power(Radix, o)
      BY <2>1, Weights
    <3> QED BY <3>1, <3>2, <3>3, <3>4, <2>1, <2>5
  <2>7. g = (vr + t1) - (vs + k0 * w) /\ g \in Nat
    BY <1>5
  <2>8. Gap(j + 1) = (Value(result, o + 1) + (c * Value(b1, j + 1)) * po)
                        - (Value(s, o + 1) + k1 * Power(Radix, o + 1))
    BY <2>1
  <2>9. Gap(j + 1) = ((vr + y * w) + t2) - ((vs + e * w) + k1 * (d * w))
    <3> HIDE DEF o, vs, vr, vb, po, pj, w, e, y, x, k0, k1, d, g, Gap, Lost, lost, Out
    <3> QED BY <2>6, <2>8
  <2>10. lost \in Nat /\ (Lost(j) => lost = d) /\ (~ Lost(j) => lost = 0)
    <3> HIDE DEF Lost
    <3> QED BY <2>2
  <2> DEFINE h == Gap(j + 1)
  <2> HIDE DEF o, vs, vr, vb, po, pj, w, e, y, x, k0, k1, g, h, Gap, Lost, lost, Out
  <2>11. vs + k0 * w + g = vr + (c * vb) * po
    <3> DEFINE a == k0 * w
    <3>1. a \in Nat /\ t1 \in Nat
      BY <2>2
    <3> HIDE DEF a, t1
    <3>2. vs + a + g = vr + t1
      BY <2>2, <2>7, <3>1 DEF a
    <3> QED BY <3>2 DEF a, t1
  <2>12. (vs + e * w) + k1 * (d * w) + (g + lost * w) = (vr + y * w) + (c * (vb + x * pj)) * po
    <3> HIDE DEF d
    <3> QED BY <2>2, <2>3, <2>4, <2>7, <2>10, <2>11, RowSum
  <2>13. h = g + lost * w
    <3> DEFINE a1 == e * w
               a2 == k1 * (d * w)
               a3 == y * w
               a4 == lost * w
    <3>1. a1 \in Nat /\ a2 \in Nat /\ a3 \in Nat /\ a4 \in Nat /\ t2 \in Nat
      BY <2>2, <2>10
    <3>2. (vs + a1) + a2 + (g + a4) = (vr + a3) + t2
      BY <2>12
    <3>3. h = ((vr + a3) + t2) - ((vs + a1) + a2)
      BY <2>9 DEF h
    <3> HIDE DEF a1, a2, a3, a4, t2
    <3>4. h = g + a4
      BY <2>2, <2>7, <3>1, <3>2, <3>3
    <3> QED BY <3>4 DEF a4
  <2>14. CASE Lost(j)
    <3>1. d * w \in Nat /\ d * w > 0
      BY <1>0, <2>2
    <3>2. h = g + d * w
      BY <2>10, <2>13, <2>14
    <3>3. h \in Nat /\ h > 0
      <4> DEFINE z == d * w
      <4> HIDE DEF z, d
      <4>1. z \in Nat /\ z > 0 /\ h = g + z
        BY <3>1, <3>2 DEF z
      <4> QED BY <2>7, <4>1
    <3> QED BY <2>14, <3>3 DEF h
  <2>15. CASE ~ Lost(j)
    <3>1. h = g + 0 * w
      BY <2>10, <2>13, <2>15
    <3>2. h = g
      BY <2>2, <2>7, <3>1
    <3> QED BY <2>15, <3>2 DEF h, g
  <2> QED BY <2>14, <2>15
<1> DEFINE Part(j) == Gap(j) \in Nat /\ (Gap(j) = 0 <=> \A t \in 0 .. j - 1 : ~ Lost(t))
           T == {j \in Nat : j <= n => Part(j)}
<1> HIDE DEF Gap, Lost
<1>6. 0 \in T
  BY <1>4
<1>7. ASSUME NEW j \in Nat, j \in T
      PROVE  j + 1 \in T
  <2>1. CASE j + 1 <= n
    <3>1. Gap(j) \in Nat /\ (Gap(j) = 0 <=> \A t \in 0 .. j - 1 : ~ Lost(t))
      BY <1>0, <1>7, <2>1
    <3>2. (Lost(j) => Gap(j + 1) \in Nat /\ Gap(j + 1) > 0) /\ (~ Lost(j) => Gap(j + 1) = Gap(j))
      BY <1>5, <2>1, <3>1
    <3>3. \A t : t \in 0 .. (j + 1) - 1 <=> t \in 0 .. j - 1 \/ t = j
      OBVIOUS
    <3>4. (\A t \in 0 .. (j + 1) - 1 : ~ Lost(t)) <=> (\A t \in 0 .. j - 1 : ~ Lost(t)) /\ ~ Lost(j)
      BY <3>3
    <3>5. Gap(j + 1) \in Nat
      BY <3>1, <3>2
    <3>6. Lost(j) => Gap(j + 1) # 0
      BY <3>2
    <3>7. Gap(j + 1) = 0 <=> \A t \in 0 .. (j + 1) - 1 : ~ Lost(t)
      BY <3>1, <3>2, <3>4, <3>6
    <3>8. Part(j + 1)
      BY <3>5, <3>7
    <3> HIDE DEF Part
    <3> QED BY <3>8
  <2>2. CASE ~ (j + 1 <= n)
    BY <2>2
  <2> QED BY <2>1, <2>2
<1>8. \A j \in Nat : j \in T
  <2> HIDE DEF T
  <2> QED BY <1>6, <1>7, Induction
<1>10. ASSUME NEW j \in 0 .. n
       PROVE  LET gap == Total(b1, c, result, offset, j) - Kept(b1, c, result, offset, j)
              IN  /\ gap \in Nat
                  /\ gap = 0 <=> \A t \in 0 .. j - 1 : ~ LostAt(b1, c, result, offset, t)
  <2>1. j \in Nat /\ j <= n
    BY <1>0
  <2>2. Part(j)
    <3>1. j \in T
      <4> HIDE DEF T
      <4> QED BY <1>8, <2>1
    <3> HIDE DEF Part
    <3> QED BY <2>1, <3>1
  <2>3. \A t \in 0 .. j - 1 : t \in Nat
    OBVIOUS
  <2>4. (\A t \in 0 .. j - 1 : ~ Lost(t)) <=> \A t \in 0 .. j - 1 : ~ LostAt(b1, c, result, offset, t)
    BY <1>9, <2>3
  <2> QED BY <1>9, <2>1, <2>2, <2>4
<1> QED BY <1>10

(* A row has been added to the cells it goes over: all of it if none of its *)
(* columns lost a carry, and less than it otherwise.                        *)
Added(s, result, end, total, loses) ==
    /\ s \in Seq(Digit) /\ Len(s) = Len(result)
    /\ \A i \in Nat : i > end => At(s, i) = At(result, i)
    /\ end <= Len(result) /\ total < Power(Radix, end) =>
          Value(s, end) <= total /\ (Value(s, end) = total <=> ~ loses)

LEMMA MulRowIs ==
    ASSUME NEW b1 \in Seq(Digit), NEW c \in Nat, NEW result \in Seq(Digit), NEW offset \in Nat
    PROVE  Added(MulRow(b1, c, result, offset), result, offset + (Len(b1) + 1),
                 Value(result, offset + (Len(b1) + 1))
                     + (c * Value(b1, Len(b1))) * Power(Radix, offset),
                 RowLoses(b1, c, result, offset))
<1> DEFINE s == MulRow(b1, c, result, offset)
           row == Row(b1, c, result, offset)
           n == Len(b1)
           end == offset + (n + 1)
           Out(j) == row[j].overflow + row[j].carry
           loses == RowLoses(b1, c, result, offset)
<1>0. n \in Nat /\ end \in Nat /\ Radix \in Nat /\ Radix > 0
  BY Words
<1>1. /\ s \in Seq(Digit) /\ Len(s) = Len(result)
      /\ \A i \in Nat : i > end => At(s, i) = At(result, i)
      /\ end <= Len(result) => At(s, end) = (At(result, end) + Out(n)) % Radix
  <2>1. /\ s \in Seq(Digit) /\ Len(s) = Len(result)
        /\ \A i \in Nat : i > end => At(s, i) = At(result, i)
        /\ \A i \in 1 .. offset : At(s, i) = At(result, i)
        /\ end <= Len(result) =>
              /\ \A j \in 0 .. n - 1 : At(s, offset + (j + 1)) = row[j + 1].cell
              /\ At(s, end) = (At(result, end) + (row[n].overflow + row[n].carry)) % Radix
    BY MulRowCells, ZenonT(60)
  <2> HIDE DEF s, row, end, loses
  <2> QED BY <2>1
<1>2. Out(n) \in Nat
  <2>1. \A j \in Nat : row[j] \in RowState
    BY RowIs, ZenonT(60)
  <2> HIDE DEF row
  <2>2. row[n] \in RowState
    BY <1>0, <2>1
  <2> QED BY <2>2 DEF RowState
<1> DEFINE o == offset + n
           w == Power(Radix, o)
           vs == Value(s, o)
           vr == Value(result, o)
           add == (c * Value(b1, n)) * Power(Radix, offset)
           y == At(result, end)
           k0 == Out(n)
           z == y + k0
           gap == (vr + add) - (vs + k0 * w)
<1>3. ASSUME end <= Len(result)
      PROVE  gap \in Nat /\ (gap = 0 <=> ~ loses)
  <2>1. gap = Total(b1, c, result, offset, n) - Kept(b1, c, result, offset, n)
    BY DEF Total, Kept
  <2>2. n \in 0 .. Len(b1)
    BY <1>0
  <2>3. LET g == Total(b1, c, result, offset, n) - Kept(b1, c, result, offset, n)
        IN  /\ g \in Nat
            /\ g = 0 <=> \A t \in 0 .. n - 1 : ~ LostAt(b1, c, result, offset, t)
    <3>1. offset + (Len(b1) + 1) <= Len(result)
      BY <1>3
    <3> QED BY <2>2, <3>1, RowGap, Zenon
  <2>4. loses <=> \E t \in 0 .. n - 1 : LostAt(b1, c, result, offset, t)
    BY DEF RowLoses
  <2> HIDE DEF gap, loses, n
  <2> QED BY <2>1, <2>3, <2>4
<1> HIDE DEF row, s, loses
<1>8. ASSUME end <= Len(result), Value(result, end) + add < Power(Radix, end)
      PROVE  /\ Value(s, end) <= Value(result, end) + add
             /\ Value(s, end) = Value(result, end) + add <=> ~ loses
  <2>1. o \in Nat /\ o + 1 = end /\ end \in 1 .. Len(result)
    BY <1>0, <1>8
  <2>2. vs \in Nat /\ vr \in Nat /\ w \in Nat /\ w > 0 /\ y \in Nat /\ k0 \in Nat /\ add \in Nat
    <3>1. vs \in Nat /\ vr \in Nat /\ w \in Nat /\ w > 0
      BY <1>1, <2>1, ValueIs, Weights
    <3>2. y \in Nat
      BY <2>1, AtIs
    <3>4. Value(b1, n) \in Nat /\ Power(Radix, offset) \in Nat
      BY <1>0, ValueIs, Weights
    <3>5. c * Value(b1, n) \in Nat
      BY <3>4
    <3>6. add \in Nat
      BY <3>4, <3>5
    <3> QED BY <1>2, <3>1, <3>2, <3>6
  <2>3. gap \in Nat /\ (gap = 0 <=> ~ loses) /\ gap = (vr + add) - (vs + k0 * w)
    BY <1>3, <1>8
  <2>4. Value(result, end) = vr + y * w /\ Power(Radix, end) = Radix * w
        /\ Value(s, end) = vs + At(s, end) * w
    <3>1. Value(s, o + 1) = Value(s, o) + At(s, o + 1) * Power(Radix, o)
      BY <1>1, <2>1, ValueIs
    <3>2. Value(result, o + 1) = Value(result, o) + At(result, o + 1) * Power(Radix, o)
      BY <2>1, ValueIs
    <3>3. Power(Radix, o + 1) = Radix * Power(Radix, o)
      BY <2>1, Weights
    <3> QED BY <2>1, <3>1, <3>2, <3>3
  <2>5. At(s, end) = z % Radix
    BY <1>1, <1>8
  <2>6. vr + y * w + add < Radix * w
    <3> HIDE DEF o, w, vs, vr, add, y, k0, z, end
    <3> QED BY <1>8, <2>4 DEF add
  <2> HIDE DEF o, w, vs, vr, add, y, k0, gap
  <2>7. vs + z * w < Radix * w /\ vs + z * w + gap = vr + y * w + add /\ z \in Nat
    <3>1. z * w = y * w + k0 * w
      BY <2>2
    <3> DEFINE yw == y * w
               kw == k0 * w
               zw == z * w
               rw == Radix * w
    <3>2. yw \in Nat /\ kw \in Nat /\ zw \in Nat /\ zw = yw + kw /\ rw \in Nat
      BY <1>0, <2>2, <3>1
    <3>3. gap = (vr + add) - (vs + kw) /\ vr + yw + add < rw
      BY <2>3, <2>6
    <3>5. z \in Nat
      BY <2>2
    <3> HIDE DEF yw, kw, zw, rw, z
    <3>4. vs + zw + gap = vr + yw + add
      BY <2>2, <2>3, <3>2, <3>3
    <3>6. vs + zw < rw
      BY <2>2, <2>3, <3>2, <3>3, <3>4
    <3> QED BY <3>4, <3>5, <3>6 DEF yw, zw, rw
  <2> HIDE DEF z
  <2>8. z < Radix
    <3>1. ASSUME z >= Radix
          PROVE  FALSE
      <4>1. z * w >= Radix * w
        BY <1>0, <2>2, <2>7, <3>1
      <4> DEFINE zw == z * w
                 rw == Radix * w
      <4>2. zw \in Nat /\ rw \in Nat /\ zw >= rw /\ vs + zw < rw
        BY <1>0, <2>2, <2>7, <4>1
      <4> HIDE DEF zw, rw
      <4> QED BY <2>2, <4>2
    <3> QED BY <1>0, <2>7, <3>1
  <2>9. z % Radix = z
    <3>1. z = Radix * 0 + z
      BY <1>0, <2>7
    <3> QED BY <1>0, <2>7, <2>8, <3>1, DivUnique
  <2>10. Value(s, end) + gap = (vr + y * w) + add
    <3>1. Value(s, end) = vs + z * w
      BY <2>4, <2>5, <2>9
    <3> QED BY <3>1, <2>7
  <2> DEFINE x == Value(s, end)
             total == Value(result, end) + add
  <2>11. x + gap = total /\ x \in Nat /\ total \in Nat
    <3>1. x \in Nat /\ Value(result, end) \in Nat
      BY <1>0, <1>1, ValueIs
    <3> QED BY <2>2, <2>4, <2>10, <3>1
  <2>12. x <= total /\ (x = total <=> ~ loses)
    <3> HIDE DEF x, total
    <3> QED BY <2>3, <2>11
  <2> QED BY <2>12
<1> HIDE DEF end
<1>9. ASSUME end <= Len(result), Value(result, end) + add < Power(Radix, end)
      PROVE  Value(s, end) <= Value(result, end) + add
             /\ (Value(s, end) = Value(result, end) + add <=> ~ loses)
  BY <1>8, <1>9
<1>10. Added(s, result, end, Value(result, end) + add, loses)
  <2> HIDE DEF add
  <2> QED BY <1>1, <1>9 DEF Added
<1> QED BY <1>10 DEF s, end, loses

LEMMA DivAdd ==
    ASSUME NEW v \in Nat, NEW w \in Nat, w > 0, NEW z \in Nat
    PROVE  (v + z * w) \div w = (v \div w) + z /\ (v + z * w) % w = v % w
<1> DEFINE q == v \div w
           r == v % w
           n == v + z * w
           p == q + z
<1>1. q \in Nat /\ r \in Nat /\ r < w /\ v = w * q + r
  BY DivMod
<1> HIDE DEF q, r
<1>2. w * p = w * q + z * w
  BY <1>1
<1>3. p \in Int /\ n \in Int /\ n = w * p + r
  <2> DEFINE a == w * q
             b == z * w
  <2>1. a \in Nat /\ b \in Nat /\ w * p = a + b /\ v = a + r /\ n = v + b
    BY <1>1, <1>2
  <2>2. p \in Int
    BY <1>1
  <2> HIDE DEF a, b, p, n
  <2>3. n = w * p + r /\ n \in Int
    BY <1>1, <2>1
  <2> QED BY <2>2, <2>3
<1> HIDE DEF p, n
<1>4. n \div w = p /\ n % w = r
  BY <1>1, <1>3, DivUnique
<1> QED BY <1>4 DEF n, p, q, r

(* Two sets of numbers of which the first element is the same: both are     *)
(* empty or neither is.                                                     *)
LEMMA SameFirst ==
    ASSUME NEW A, NEW B, A \subseteq Nat, B \subseteq Nat,
           \A j \in Nat : (\A t \in A : j <= t) => (j \in A <=> j \in B)
    PROVE  A = {} <=> B = {}
<1>1. CASE A = {}
  BY <1>1
<1>2. CASE A # {}
  <2>1. PICK j \in A : \A t \in A : j <= t
    BY <1>2, LeastElement
  <2> QED BY <1>2, <2>1
<1> QED BY <1>1, <1>2

(* overflow is the high part of the row so far.                             *)
OverflowIs(b1, c, last, j) ==
    /\ last \in RowState
    /\ last.overflow = (c * Value(b1, j)) \div Power(Radix, j)
    /\ At(b1, j + 1) * c + last.overflow = (c * Value(b1, j + 1)) \div Power(Radix, j)

LEMMA RowOverflow ==
    ASSUME NEW b1 \in Seq(Digit), NEW c \in Nat, NEW result \in Seq(Digit), NEW offset \in Nat
    PROVE  \A j \in Nat : OverflowIs(b1, c, Row(b1, c, result, offset)[j], j)
<1> DEFINE row == Row(b1, c, result, offset)
<1>1. /\ row[0].overflow = 0 /\ row[0].carry = 0
      /\ \A j \in Nat : /\ row[j] \in RowState
                        /\ row[j + 1] = RowNext(At(b1, j + 1), c, At(result, offset + (j + 1)), row[j])
  BY RowIs, ZenonT(60)
<1> HIDE DEF row
<1> DEFINE Part(j) == row[j].overflow = (c * Value(b1, j)) \div Power(Radix, j)
           High(j) == At(b1, j + 1) * c + row[j].overflow
                           = (c * Value(b1, j + 1)) \div Power(Radix, j)
           T == {j \in Nat : Part(j)}
<1>2. ASSUME NEW j \in Nat, Part(j)
      PROVE  High(j)
  <2> DEFINE v == c * Value(b1, j)
             w == Power(Radix, j)
             x == At(b1, j + 1)
             z == x * c
  <2>1. w \in Nat /\ w > 0 /\ Value(b1, j) \in Nat /\ x \in Nat
    <3>1. j + 1 \in Int
      OBVIOUS
    <3> QED BY <3>1, Weights, ValueIs, AtIs
  <2>2. v \in Nat /\ z \in Nat
    BY <2>1
  <2>3. c * Value(b1, j + 1) = v + z * w
    <3>1. Value(b1, j + 1) = Value(b1, j) + x * w
      BY ValueIs
    <3> DEFINE a == Value(b1, j)
    <3> HIDE DEF x, w, a
    <3>2. x * w \in Nat /\ a \in Nat
      BY <2>1 DEF a
    <3>3. c * (a + x * w) = c * a + c * (x * w)
      BY <3>2
    <3>4. c * (x * w) = (x * c) * w
      BY <2>1
    <3> QED BY <3>1, <3>3, <3>4 DEF a
  <2>4. row[j].overflow = v \div w
    BY <1>2
  <2> HIDE DEF v, w, z
  <2>5. (v + z * w) \div w = (v \div w) + z
    BY <2>1, <2>2, DivAdd
  <2>6. v \div w \in Nat
    BY <2>1, <2>2, DivMod
  <2> QED BY <2>2, <2>3, <2>4, <2>5, <2>6 DEF z, w
<1>3. 0 \in T
  <2>1. Value(b1, 0) = 0 /\ Power(Radix, 0) = 1
    BY ValueIs, Weights
  <2>2. (c * 0) \div 1 = 0
    <3>1. c * 0 = 0
      OBVIOUS
    <3>2. 0 \div 1 = 0
      OBVIOUS
    <3> QED BY <3>1, <3>2
  <2> QED BY <1>1, <2>1, <2>2
<1>4. ASSUME NEW j \in Nat, j \in T
      PROVE  j + 1 \in T
  <2> DEFINE v == c * Value(b1, j + 1)
             w == Power(Radix, j)
             x == At(b1, j + 1)
             y == At(result, offset + (j + 1))
             l == row[j]
  <2>1. x * c + l.overflow = v \div w
    BY <1>2, <1>4
  <2>2. w \in Nat /\ w > 0 /\ v \in Nat /\ Power(Radix, j + 1) = Radix * w /\ x \in Nat /\ y \in Digit
    <3>1. j + 1 \in Int /\ offset + (j + 1) \in Int /\ j + 1 \in Nat
      OBVIOUS
    <3>2. x \in Nat /\ y \in Digit
      BY <3>1, AtIs
    <3>3. w \in Nat /\ w > 0 /\ Power(Radix, j + 1) = Radix * w
      BY Weights
    <3>4. Value(b1, j + 1) \in Nat
      BY <3>1, ValueIs
    <3> HIDE DEF x, y, w
    <3>5. v \in Nat
      BY <3>4
    <3> QED BY <3>2, <3>3, <3>5
  <2>3. l \in RowState /\ row[j + 1] = RowNext(x, c, y, l)
    BY <1>1
  <2> HIDE DEF v, w, x, y, l
  <2>4. row[j + 1].overflow = (x * c + l.overflow) \div Radix
    BY <2>2, <2>3, RowNextIs
  <2>5. v \div (Radix * w) = (v \div w) \div Radix
    <3>1. Radix \in Nat /\ Radix > 0
      BY Words
    <3> QED BY <2>2, <3>1, ModSplit
  <2>6. row[j + 1].overflow = v \div Power(Radix, j + 1)
    BY <2>1, <2>2, <2>4, <2>5
  <2> QED BY <2>6 DEF v
<1>5. \A j \in Nat : j \in T
  <2> HIDE DEF T
  <2> QED BY <1>3, <1>4, Induction
<1>6. ASSUME NEW j \in Nat
      PROVE  row[j] \in RowState /\ Part(j) /\ High(j)
  <2>1. Part(j)
    BY <1>5
  <2> HIDE DEF Part, High
  <2> QED BY <1>1, <1>2, <2>1
<1>7. ASSUME NEW j \in Nat
      PROVE  OverflowIs(b1, c, row[j], j)
  <2>1. row[j] \in RowState /\ Part(j) /\ High(j)
    BY <1>6
  <2> QED BY <2>1 DEF OverflowIs
<1> QED BY <1>7 DEF row

(* The carry into a column.                                                *)
LEMMA CarryTaken ==
    ASSUME NEW vs \in Nat, NEW p \in Nat, NEW w \in Nat, p > 0, w > 0, NEW k0 \in {0, 1},
           NEW low \in Nat, low < p, NEW x \in Nat, vs < p * w,
           vs + k0 * (p * w) = low + x * p
    PROVE  k0 = 1 <=> x >= w
<1>1. CASE k0 = 1
  <2>1. ASSUME x < w
        PROVE  FALSE
    <3>1. x + 1 <= w
      BY <2>1
    <3>2. (x + 1) * p <= w * p
      BY <3>1
    <3>3. (x + 1) * p = x * p + p /\ w * p = p * w
      OBVIOUS
    <3> DEFINE a == x * p
               b == p * w
    <3>4. a \in Nat /\ b \in Nat /\ a + p <= b /\ vs + 1 * b = low + a
      BY <1>1, <3>2, <3>3
    <3> HIDE DEF a, b
    <3> QED BY <3>4
  <2> QED BY <1>1, <2>1
<1>2. CASE k0 = 0
  <2>1. ASSUME x >= w
        PROVE  FALSE
    <3>1. x * p >= w * p
      BY <2>1
    <3>2. w * p = p * w
      OBVIOUS
    <3> DEFINE a == x * p
               b == p * w
    <3>3. a \in Nat /\ b \in Nat /\ a >= b /\ vs + 0 * b = low + a /\ vs < b
      BY <1>2, <3>1, <3>2
    <3> HIDE DEF a, b
    <3> QED BY <3>3
  <2> QED BY <1>2, <2>1
<1> QED BY <1>1, <1>2

(* The first column of a row that loses its carry is one whose product has  *)
(* an all ones low word, where the row so far and what it is added to carry *)
(* into it.                                                                 *)
LEMMA LostIs ==
    ASSUME NEW b1 \in Seq(Digit), NEW c \in Nat, NEW result \in Seq(Digit), NEW offset \in Nat,
           offset + (Len(b1) + 1) <= Len(result), NEW j \in 0 .. Len(b1) - 1,
           \A t \in 0 .. j - 1 : ~ LostAt(b1, c, result, offset, t)
    PROVE  LET row == Magnitude(b1) * c
               w == Power(Radix, j)
           IN  LostAt(b1, c, result, offset, j)
               <=> /\ (row \div w) % Radix = Radix - 1
                   /\ (row % w) + (Value(result, offset + j) \div Power(Radix, offset)) >= w
<1> DEFINE m == Magnitude(b1)
           w == Power(Radix, j)
           po == Power(Radix, offset)
           last == Row(b1, c, result, offset)[j]
           k0 == last.carry
           ov == last.overflow
           x == At(b1, j + 1)
           v0 == Value(b1, j)
           v1 == Value(b1, j + 1)
           vr == Value(result, offset + j)
           vs == Value(MulRow(b1, c, result, offset), offset + j)
           low == (x * c + ov) % Radix
           rest == (c * v0) % w
           A == vr \div po
           Lost == LostAt(b1, c, result, offset, j)
<1>1. j \in Nat /\ j \in 0 .. Len(b1) /\ j + 1 \in 0 .. Len(b1) /\ j + 1 \in Nat
      /\ Radix \in Nat /\ Radix > 0 /\ offset + j \in Nat
  BY Words
<1>2. /\ w \in Nat /\ w > 0 /\ po \in Nat /\ po > 0 /\ Power(Radix, j + 1) = Radix * w
      /\ Power(Radix, offset + j) = po * w
  <2>1. Power(Radix, offset + j) = po * w
    BY <1>1, PowerSum
  <2>2. w \in Nat /\ w > 0 /\ Power(Radix, j + 1) = Radix * w
    BY <1>1, Weights
  <2>3. po \in Nat /\ po > 0
    BY Weights
  <2> QED BY <2>1, <2>2, <2>3
<1>3. m \in Nat /\ v0 \in Nat /\ v1 \in Nat /\ vr \in Nat /\ x \in Nat
  <2>1. x \in Nat
    <3>1. j + 1 \in Int
      BY <1>1
    <3> QED BY <3>1, AtIs
  <2>2. m \in Nat
    BY MagnitudeIs
  <2>3. v0 \in Nat /\ v1 \in Nat /\ vr \in Nat
    BY <1>1, ValueIs
  <2> QED BY <2>1, <2>2, <2>3
<1>4. vs \in Nat /\ vs < po * w
  <2> DEFINE s == MulRow(b1, c, result, offset)
  <2>1. s \in Seq(Digit)
    BY MulRowCells, ZenonT(60)
  <2> HIDE DEF s
  <2>2. Value(s, offset + j) \in Nat /\ Value(s, offset + j) < Power(Radix, offset + j)
    BY <1>1, <2>1, ValueIs, ValueBound
  <2> QED BY <1>2, <2>2 DEF s
<1>5. /\ last \in RowState /\ ov = (c * v0) \div w /\ x * c + ov = (c * v1) \div w
  <2>1. OverflowIs(b1, c, last, j)
    BY <1>1, RowOverflow
  <2> HIDE DEF last, w
  <2> QED BY <2>1 DEF OverflowIs, w
<1>6. k0 \in {0, 1} /\ ov \in Nat
  <2> HIDE DEF last
  <2> QED BY <1>5 DEF RowState
<1>7. v0 = m % w /\ v1 = m % (Radix * w)
  BY <1>1, <1>2, DigitsOf
<1>8. Lost <=> low + k0 >= Radix
  BY DEF LostAt, RowLost
<1>9. (vr + (c * v0) * po) - (vs + (ov + k0) * (po * w)) = 0
  <2> DEFINE gap == Total(b1, c, result, offset, j) - Kept(b1, c, result, offset, j)
  <2>1. gap = 0
    <3>1. gap \in Nat /\ (gap = 0 <=> \A t \in 0 .. j - 1 : ~ LostAt(b1, c, result, offset, t))
      BY <1>1, RowGap, ZenonT(60)
    <3> QED BY <3>1
  <2>2. gap = (vr + (c * v0) * po) - (vs + (ov + k0) * Power(Radix, offset + j))
    BY DEF Total, Kept
  <2> HIDE DEF gap, vr, vs, v0, ov, k0
  <2> QED BY <1>2, <2>1, <2>2
<1> HIDE DEF m, w, po, last, k0, ov, x, v0, v1, vr, vs, Lost
<1>10. (m * c) % w = rest
  <2> DEFINE h == m \div w
             z == c * h
             v == c * v0
  <2>1. h \in Nat /\ m = w * h + v0
    BY <1>2, <1>3, <1>7, DivMod
  <2> HIDE DEF h
  <2>2. z \in Nat /\ v \in Nat
    BY <1>3, <2>1
  <2>3. m * c = v + z * w
    <3> DEFINE a == w * h
    <3>1. a \in Nat /\ m = a + v0
      BY <1>2, <2>1
    <3>2. a * c = z * w
      BY <1>2, <2>1
    <3> HIDE DEF a
    <3>3. (a + v0) * c = a * c + c * v0
      BY <1>3, <3>1
    <3>4. m * c = z * w + v
      BY <3>1, <3>2, <3>3
    <3> DEFINE b == z * w
    <3>5. b \in Nat /\ m * c = b + v
      BY <1>2, <2>2, <3>4
    <3> HIDE DEF b, v
    <3>6. m * c = v + b
      BY <2>2, <3>5
    <3> QED BY <3>6 DEF b
  <2> HIDE DEF z, v
  <2>4. (v + z * w) % w = v % w
    BY <1>2, <2>2, DivAdd
  <2> QED BY <2>3, <2>4 DEF v
<1>11. ((m * c) \div w) % Radix = low
  <2> DEFINE h == m \div (Radix * w)
             z == c * h
             v == c * v1
             rw == Radix * w
             y == z * Radix
             p == v \div w
  <2>0. rw \in Nat /\ rw > 0
    BY <1>1, <1>2
  <2>1. h \in Nat /\ m = rw * h + v1
    <3> HIDE DEF h, rw
    <3> DEFINE g == m \div rw
    <3>1. g \in Nat /\ m = rw * g + (m % rw)
      BY <1>3, <2>0, DivMod
    <3>2. g = h
      BY DEF h, rw
    <3>3. m % rw = v1
      BY <1>7 DEF rw
    <3> QED BY <3>1, <3>2, <3>3
  <2> HIDE DEF h
  <2>2. z \in Nat /\ v \in Nat /\ y \in Nat
    BY <1>1, <1>3, <2>1
  <2>3. m * c = v + y * w
    <3> DEFINE a == rw * h
    <3>1. a \in Nat /\ m = a + v1
      BY <2>0, <2>1
    <3>2. a * c = y * w
      <4>1. ((Radix * w) * h) * c = ((c * h) * Radix) * w
        BY <1>1, <1>2, <2>1
      <4> QED BY <4>1
    <3> HIDE DEF a
    <3>3. (a + v1) * c = a * c + c * v1
      BY <1>3, <3>1
    <3>4. m * c = y * w + v
      BY <3>1, <3>2, <3>3
    <3> DEFINE b == y * w
    <3>5. b \in Nat /\ m * c = b + v
      BY <1>2, <2>2, <3>4
    <3> HIDE DEF b, v
    <3>6. m * c = v + b
      BY <2>2, <3>5
    <3> QED BY <3>6 DEF b
  <2>4. p = x * c + ov
    BY <1>5
  <2> HIDE DEF v, p, z
  <2>5. (v + y * w) \div w = p + y
    <3> HIDE DEF y
    <3> QED BY <1>2, <2>2, DivAdd DEF p
  <2>6. p \in Nat
    BY <1>2, <2>2, DivMod DEF p
  <2>7. (p + z * Radix) % Radix = p % Radix
    BY <1>1, <2>2, <2>6, DivAdd
  <2> QED BY <2>3, <2>4, <2>5, <2>7
<1>12. rest \in Nat /\ c * v0 = w * ov + rest
  <2> DEFINE v == c * v0
  <2>1. v \in Nat
    BY <1>3
  <2> HIDE DEF v
  <2>2. v % w \in Nat /\ v = w * (v \div w) + (v % w)
    BY <1>2, <2>1, DivMod
  <2> QED BY <1>5, <2>2 DEF v
<1>13. A \in Nat /\ vr % po \in Nat /\ vr % po < po /\ vr = po * A + (vr % po)
  BY <1>2, <1>3, DivMod
<1> HIDE DEF A, rest
<1>14. vs + k0 * (po * w) = (vr % po) + (A + rest) * po
  <2> DEFINE u == vr % po
             a1 == (w * ov) * po
             a2 == rest * po
             a3 == po * A
             a4 == k0 * (po * w)
  <2>1. (c * v0) * po = a1 + a2
    <3> DEFINE a == w * ov
    <3>1. a \in Nat
      BY <1>2, <1>6
    <3> HIDE DEF a
    <3>2. (a + rest) * po = a * po + rest * po
      BY <1>2, <1>12, <3>1
    <3> QED BY <1>12, <3>2 DEF a
  <2>2. (ov + k0) * (po * w) = a1 + a4
    <3>1. k0 \in Nat
      BY <1>6
    <3>2. (ov + k0) * (po * w) = ov * (po * w) + k0 * (po * w)
      <4> DEFINE b == po * w
      <4>1. b \in Nat
        BY <1>2
      <4> HIDE DEF b
      <4>2. (ov + k0) * b = ov * b + k0 * b
        BY <1>6, <3>1, <4>1
      <4> QED BY <4>2 DEF b
    <3>3. ov * (po * w) = (w * ov) * po
      BY <1>2, <1>6
    <3> QED BY <3>2, <3>3
  <2>3. (A + rest) * po = a3 + a2
    <3>1. (A + rest) * po = po * A + rest * po
      BY <1>2, <1>12, <1>13
    <3> QED BY <3>1
  <2>4. a1 \in Nat /\ a2 \in Nat /\ a3 \in Nat /\ a4 \in Nat /\ u \in Nat
    <3>1. k0 \in Nat
      BY <1>6
    <3> QED BY <1>2, <1>6, <1>12, <1>13, <3>1
  <2>5. (vr + (a1 + a2)) - (vs + (a1 + a4)) = 0 /\ vr = a3 + u
    <3>1. vr = a3 + u
      BY <1>13
    <3> DEFINE all == (c * v0) * po
               kept == (ov + k0) * (po * w)
    <3>2. all = a1 + a2 /\ kept = a1 + a4 /\ (vr + all) - (vs + kept) = 0
      BY <1>9, <2>1, <2>2
    <3> HIDE DEF a1, a2, a3, a4, u, all, kept
    <3> QED BY <3>1, <3>2
  <2> HIDE DEF a1, a2, a3, a4, u
  <2>6. vs + a4 = u + (a3 + a2)
    BY <1>3, <1>4, <2>4, <2>5
  <2> QED BY <2>3, <2>6 DEF a4, u
<1>15. k0 = 1 <=> rest + A >= w
  <2> DEFINE u == vr % po
             y == A + rest
  <2>1. u \in Nat /\ u < po /\ y \in Nat /\ vs + k0 * (po * w) = u + y * po
    BY <1>12, <1>13, <1>14
  <2> HIDE DEF u, y
  <2>2. k0 = 1 <=> y >= w
    BY <1>2, <1>4, <1>6, <2>1, CarryTaken
  <2>3. y = rest + A
    BY <1>12, <1>13 DEF y
  <2> QED BY <2>2, <2>3
<1>16. low \in Nat /\ low < Radix
  <2> DEFINE y == x * c
  <2>1. y \in Nat /\ y + ov \in Nat
    BY <1>3, <1>6
  <2> HIDE DEF y
  <2>2. (y + ov) % Radix \in Nat /\ (y + ov) % Radix < Radix
    BY <1>1, <2>1, DivMod
  <2> QED BY <2>2 DEF y
<1> HIDE DEF low
<1>17. Lost <=> low = Radix - 1 /\ k0 = 1
  BY <1>1, <1>6, <1>8, <1>16
<1>18. Lost <=> /\ ((m * c) \div w) % Radix = Radix - 1
                /\ ((m * c) % w) + A >= w
  BY <1>10, <1>11, <1>15, <1>17
<1> QED BY <1>18 DEF Lost, m, w, A, vr, po

(* The sum of above carries into the column of weight w of row, whose cell  *)
(* there is all ones.                                                       *)
CarriesInto(row, above, w) ==
    /\ (row \div w) % Radix = Radix - 1
    /\ (row % w) + (above % w) >= w

LEMMA RowLosesIs ==
    ASSUME NEW b1 \in Seq(Digit), NEW c \in Nat, NEW r \in Seq(Digit), NEW i \in Nat,
           i + (Len(b1) + 1) <= Len(r)
    PROVE  RowLoses(b1, c, r, i)
           <=> \E j \in 0 .. Len(b1) - 1 :
                  CarriesInto(Magnitude(b1) * c, Magnitude(r) \div Power(Radix, i), Power(Radix, j))
<1> DEFINE n == Len(b1)
           y == Magnitude(r)
           po == Power(Radix, i)
           A == {j \in 0 .. n - 1 : LostAt(b1, c, r, i, j)}
           B == {j \in 0 .. n - 1 : CarriesInto(Magnitude(b1) * c, y \div po, Power(Radix, j))}
<1>1. n \in Nat /\ po \in Nat /\ po > 0 /\ y \in Nat /\ Len(r) \in Nat
  BY Weights, MagnitudeIs
<1>2. ASSUME NEW j \in 0 .. n - 1, \A t \in 0 .. j - 1 : ~ LostAt(b1, c, r, i, t)
      PROVE  LostAt(b1, c, r, i, j) <=> CarriesInto(Magnitude(b1) * c, y \div po, Power(Radix, j))
  <2> DEFINE w == Power(Radix, j)
             vr == Value(r, i + j)
             u == y % po
             q == y \div po
  <2>1. LostAt(b1, c, r, i, j)
        <=> /\ ((Magnitude(b1) * c) \div w) % Radix = Radix - 1
            /\ ((Magnitude(b1) * c) % w) + (vr \div po) >= w
    BY <1>2, LostIs
  <2>2. w \in Nat /\ w > 0 /\ j \in Nat /\ i + j \in 0 .. Len(r)
    <3>1. j \in Nat /\ i + j \in 0 .. Len(r)
      BY <1>1
    <3>2. w \in Nat /\ w > 0
      BY <3>1, Weights
    <3> QED BY <3>1, <3>2
  <2>3. vr = y % (w * po)
    <3>1. Power(Radix, i + j) = po * w
      BY <2>2, Words, PowerSum
    <3>2. vr = y % Power(Radix, i + j)
      BY <2>2, DigitsOf
    <3>3. po * w = w * po
      BY <1>1, <2>2
    <3> QED BY <3>1, <3>2, <3>3
  <2> HIDE DEF w, vr, po, y
  <2>4. vr = u + (q % w) * po
    BY <1>1, <2>2, <2>3, ModSplit
  <2>5. u \in Nat /\ u < po /\ q \in Nat
    BY <1>1, DivMod
  <2> HIDE DEF u, q
  <2>6. vr \div po = q % w
    <3> DEFINE a == q % w
               b == a * po
    <3>1. a \in Nat
      BY <2>2, <2>5, DivMod
    <3> HIDE DEF a
    <3>2. b \in Nat /\ b = po * a
      BY <1>1, <3>1
    <3>3. vr = u + b
      BY <2>4 DEF a
    <3> HIDE DEF b
    <3>4. vr = po * a + u /\ vr \in Int /\ a \in Int
      BY <1>1, <2>5, <3>1, <3>2, <3>3
    <3>5. vr \div po = a
      BY <1>1, <2>5, <3>4, DivUnique
    <3> QED BY <3>5 DEF a
  <2> QED BY <2>1, <2>6 DEF CarriesInto, w, q
<1>3. A \subseteq Nat /\ B \subseteq Nat
  BY <1>1
<1>4. ASSUME NEW j \in Nat, \A t \in A : j <= t
      PROVE  j \in A <=> j \in B
  <2>1. CASE j \in 0 .. n - 1
    <3>1. ASSUME NEW t \in 0 .. j - 1, LostAt(b1, c, r, i, t)
          PROVE  FALSE
      <4>1. t \in A
        BY <1>1, <2>1, <3>1
      <4>2. t < j
        BY <3>1
      <4> QED BY <1>3, <1>4, <4>1, <4>2
    <3>2. LostAt(b1, c, r, i, j) <=> CarriesInto(Magnitude(b1) * c, y \div po, Power(Radix, j))
      BY <1>2, <2>1, <3>1
    <3> QED BY <2>1, <3>2
  <2>2. CASE ~ (j \in 0 .. n - 1)
    BY <2>2
  <2> QED BY <2>1, <2>2
<1>5. A = {} <=> B = {}
  <2> HIDE DEF A, B
  <2> QED BY <1>3, <1>4, SameFirst
<1>6. RowLoses(b1, c, r, i) <=> A # {}
  BY DEF RowLoses
<1>7. (\E j \in 0 .. n - 1 : CarriesInto(Magnitude(b1) * c, y \div po, Power(Radix, j))) <=> B # {}
  OBVIOUS
<1> HIDE DEF A, B
<1> QED BY <1>5, <1>6, <1>7

LEMMA ZeroCells ==
    ASSUME NEW len \in Nat
    PROVE  /\ Cells(0, len) \in Seq(Digit) /\ Len(Cells(0, len)) = len
           /\ \A i \in Int : At(Cells(0, len), i) = 0
           /\ \A n \in Nat : Value(Cells(0, len), n) = 0
<1> DEFINE c == Cells(0, len)
<1>1. c \in Seq(Digit) /\ Len(c) = len
  BY CellsAre
<1>2. ASSUME NEW i \in Int
      PROVE  At(c, i) = 0
  <2>1. CASE i \in 1 .. len
    <3> DEFINE w == Power(Radix, i - 1)
    <3>1. w \in Nat /\ w > 0
      <4>1. i - 1 \in Nat
        BY <2>1
      <4> QED BY <4>1, Weights
    <3>2. At(c, i) = (0 \div w) % Radix
      BY <2>1, CellsAre
    <3> HIDE DEF w
    <3>3. 0 = w * 0 + 0 /\ 0 = Radix * 0 + 0 /\ Radix \in Nat /\ Radix > 0
      BY <3>1, Words
    <3>4. 0 \div w = 0 /\ 0 % Radix = 0
      BY <3>1, <3>3, DivUnique
    <3> QED BY <3>2, <3>4
  <2>2. CASE i < 1 \/ i > len
    <3> HIDE DEF c
    <3> QED BY <1>1, <2>2, AtIs
  <2> QED BY <2>1, <2>2
<1> DEFINE T == {n \in Nat : Value(c, n) = 0}
<1> HIDE DEF c
<1>3. 0 \in T
  BY <1>1, ValueIs
<1>4. ASSUME NEW n \in Nat, n \in T
      PROVE  n + 1 \in T
  <2>1. Value(c, n + 1) = Value(c, n) + At(c, n + 1) * Power(Radix, n) /\ Power(Radix, n) \in Nat
    BY <1>1, ValueIs, Weights
  <2>2. At(c, n + 1) = 0 /\ Value(c, n) = 0
    BY <1>2, <1>4
  <2> QED BY <2>1, <2>2
<1>5. \A n \in Nat : n \in T
  <2> HIDE DEF T
  <2> QED BY <1>3, <1>4, Induction
<1> QED BY <1>1, <1>2, <1>5 DEF c

(* The rows add up to the product, or to less when a carry is lost.         *)
LEMMA ProductIs ==
    ASSUME NEW b1 \in Seq(Digit), NEW b2 \in Seq(Digit)
    PROVE  /\ MulBignumWords(b1, b2) \in Seq(Digit)
           /\ Len(MulBignumWords(b1, b2)) = Len(b1) + Len(b2)
           /\ Magnitude(MulBignumWords(b1, b2)) <= Magnitude(b1) * Magnitude(b2)
           /\ Magnitude(MulBignumWords(b1, b2)) = Magnitude(b1) * Magnitude(b2)
                 <=> ~ LosesCarry(b1, b2)
<1> DEFINE n1 == Len(b1)
           n2 == Len(b2)
           S == {c \in Seq(Digit) : Len(c) = n1 + n2}
           zero == Cells(0, n1 + n2)
           Step(i, x) == MulRow(b1, At(b2, i), x, i - 1)
           G == [i \in Nat |-> [x \in S |-> IF i = 0 THEN x ELSE Step(i, x)]]
           Is(q) == q = [i \in Nat |-> IF i = 0 THEN Cells(0, Len(b1) + Len(b2))
                                       ELSE MulRow(b1, At(b2, i), q[i - 1], i - 1)]
           p == CHOOSE q : Is(q)
<1>0. n1 \in Nat /\ n2 \in Nat /\ n1 + n2 \in Nat
  OBVIOUS
<1>1. ASSUME NEW i \in Nat, i # 0, NEW x \in S
      PROVE  Step(i, x) \in S
  <2> DEFINE c == At(b2, i)
             o == i - 1
  <2>1. c \in Nat
    <3>1. i \in Int
      OBVIOUS
    <3> QED BY <3>1, AtIs
  <2>2. o \in Nat
    BY <1>1
  <2>3. x \in Seq(Digit)
    BY <1>1
  <2> HIDE DEF c, o
  <2>4. MulRow(b1, c, x, o) \in Seq(Digit) /\ Len(MulRow(b1, c, x, o)) = Len(x)
    <3> DEFINE t == MulRow(b1, c, x, o)
               e == o + (Len(b1) + 1)
    <3>1. Added(t, x, e, Value(x, e) + (c * Value(b1, Len(b1))) * Power(Radix, o),
                RowLoses(b1, c, x, o))
      BY <2>1, <2>2, <2>3, MulRowIs, Zenon
    <3> QED BY <3>1 DEF Added
  <2>5. Step(i, x) \in Seq(Digit) /\ Len(Step(i, x)) = Len(x)
    BY <2>4 DEF c, o
  <2> HIDE DEF Step
  <2> QED BY <1>1, <2>5
<1>2. zero \in S
  BY <1>0, ZeroCells
<1>3. G \in [Nat -> [S -> S]]
  <2> HIDE DEF S, Step
  <2> QED BY <1>1
<1>4. \A i \in Nat : \A x \in S : i # 0 => G[i][x] = Step(i, x)
  <2> HIDE DEF S, Step
  <2> QED OBVIOUS
<1>5. \A q : Is(q) <=> q = [i \in Nat |-> IF i = 0 THEN zero ELSE Step(i, q[i - 1])]
  OBVIOUS
<1> HIDE DEF G, zero
<1>6. \E q : Is(q)
  <2>1. PICK q \in [Nat -> S] : Recurs(q, zero, G)
    <3> HIDE DEF Is, Step, S
    <3> QED BY <1>2, <1>3, RecursionExists
  <2>2. \A i \in Nat : i # 0 => i - 1 \in Nat /\ q[i - 1] \in S
    <3> HIDE DEF S
    <3> QED OBVIOUS
  <2>3. \A i \in Nat : q[i] = IF i = 0 THEN zero ELSE Step(i, q[i - 1])
    <3> HIDE DEF Step, S, Is
    <3> QED BY <1>4, <2>1, <2>2 DEF Recurs
  <2>4. q = [j \in Nat |-> IF j = 0 THEN zero ELSE Step(j, q[j - 1])]
    <3> HIDE DEF Step, S, Is
    <3> QED BY <2>3
  <2>5. Is(q)
    <3> HIDE DEF Step, S, Is
    <3> QED BY <1>5, <2>4
  <2> HIDE DEF Is
  <2> QED BY <2>5
<1>7. MulBignumWords(b1, b2) = p[n2]
  BY DEF MulBignumWords
<1>8. p = [j \in Nat |-> IF j = 0 THEN zero ELSE Step(j, p[j - 1])]
  <2>1. Is(p)
    <3> HIDE DEF Is
    <3> QED BY <1>6
  <2> HIDE DEF Is, p, Step
  <2> QED BY <1>5, <2>1
<1> HIDE DEF p, Is
<1>9. \A i \in Nat : p[i] = IF i = 0 THEN zero ELSE Step(i, p[i - 1])
  <2> HIDE DEF Step
  <2> QED BY <1>8
<1>10. ASSUME NEW i \in Nat
       PROVE  p[i + 1] = MulRow(b1, At(b2, i + 1), p[i], i)
  <2>1. i + 1 \in Nat /\ i + 1 # 0 /\ (i + 1) - 1 = i
    OBVIOUS
  <2>2. p[i + 1] = Step(i + 1, p[(i + 1) - 1])
    <3> HIDE DEF Step
    <3> QED BY <2>1, <1>9
  <2> QED BY <2>1, <2>2
<1>11. \A i \in Nat : p[i] \in S
  <2>1. p[0] \in S
    <3> HIDE DEF S, Step
    <3> QED BY <1>2, <1>9
  <2>2. ASSUME NEW i \in Nat, p[i] \in S
        PROVE  p[i + 1] \in S
    <3>1. i + 1 \in Nat /\ i + 1 # 0 /\ (i + 1) - 1 = i
      OBVIOUS
    <3>2. p[i + 1] = Step(i + 1, p[i])
      <4> HIDE DEF Step
      <4> QED BY <3>1, <1>9
    <3> HIDE DEF S, Step
    <3> QED BY <1>1, <2>2, <3>1, <3>2
  <2>3. Stays(p, S)
    <3> HIDE DEF S
    <3> QED BY <2>1, <2>2 DEF Stays
  <2> HIDE DEF S
  <2> QED BY <2>3, StaysIn
<1> DEFINE m == Value(b1, n1)
           Loses(i) == RowLoses(b1, At(b2, i + 1), p[i], i)
           Part(i) == /\ Value(p[i], n1 + i) <= m * Value(b2, i)
                      /\ Value(p[i], n1 + i) = m * Value(b2, i) <=> \A t \in 0 .. i - 1 : ~ Loses(t)
                      /\ \A j \in Nat : j > n1 + i => At(p[i], j) = 0
           T == {i \in Nat : i <= n2 => Part(i)}
<1>12. m \in Nat /\ m < Power(Radix, n1)
  BY <1>0, ValueIs, ValueBound
<1>13. 0 \in T
  <2>1. p[0] = zero
    BY <1>9
  <2>2. Value(zero, n1 + 0) = 0 /\ \A j \in Nat : At(zero, j) = 0
    BY <1>0, ZeroCells DEF zero
  <2>3. Value(b2, 0) = 0 /\ m * 0 = 0
    BY <1>12, ValueIs
  <2>4. \A t \in 0 .. 0 - 1 : ~ Loses(t)
    OBVIOUS
  <2> HIDE DEF m, Loses
  <2> QED BY <2>1, <2>2, <2>3, <2>4
<1>14. ASSUME NEW i \in Nat, i \in T
       PROVE  i + 1 \in T
  <2>1. CASE i + 1 <= n2
    <3> DEFINE c == At(b2, i + 1)
               r == p[i]
               s == p[i + 1]
               end == i + (n1 + 1)
               w == Power(Radix, i)
               v == Value(b2, i)
               x == Value(r, n1 + i)
               lost == RowLoses(b1, c, r, i)
               before == \A t \in 0 .. i - 1 : ~ Loses(t)
    <3>1. r \in Seq(Digit) /\ Len(r) = n1 + n2 /\ s = MulRow(b1, c, r, i) /\ c \in Nat
      <4>1. c \in Nat
        <5>1. i + 1 \in Int
          OBVIOUS
        <5> QED BY <5>1, AtIs
      <4> QED BY <4>1, <1>10, <1>11
    <3>2. /\ x <= m * v /\ (x = m * v <=> before)
          /\ \A j \in Nat : j > n1 + i => At(r, j) = 0
      <4>1. Part(i)
        BY <1>14, <2>1
      <4> QED BY <4>1
    <3>14. lost <=> Loses(i)
      OBVIOUS
    <3>3. end = (n1 + i) + 1 /\ end = n1 + (i + 1) /\ end \in Nat /\ n1 + i \in Nat /\ end <= n1 + n2
      BY <1>0, <2>1
    <3>15. x \in Nat
      BY <3>1, <3>3, ValueIs
    <3> HIDE DEF end, m, r, s, c, lost, before, Loses
    <3>4. Value(r, end) = x
      <4> DEFINE top == n1 + i
      <4>1. top \in Nat /\ end \in Nat /\ end >= top /\ \A j \in Nat : j > top => At(r, j) = 0
        BY <3>2, <3>3
      <4> HIDE DEF top, S, T, Step, n1, n2
      <4>2. Value(r, end) = Value(r, top)
        BY <3>1, <4>1, ValueTop
      <4> QED BY <3>2, <4>2 DEF top
    <3>5. w \in Nat /\ w > 0 /\ v \in Nat /\ Value(b2, i + 1) = v + c * w
          /\ Value(b2, i + 1) < Power(Radix, i + 1) /\ Power(Radix, i + 1) = Radix * w
      <4>1. i + 1 \in Nat
        OBVIOUS
      <4> QED BY <4>1, ValueIs, ValueBound, Weights DEF c
    <3>6. Power(Radix, end) = Power(Radix, n1) * Power(Radix, i + 1)
      <4>1. i + 1 \in Nat /\ Radix \in Nat
        BY Words
      <4> QED BY <1>0, <3>3, <4>1, PowerSum
    <3>13. LET t == MulRow(b1, c, r, i)
               tot == Value(r, end) + (c * Value(b1, n1)) * Power(Radix, i)
           IN  /\ \A j \in Nat : j > end => At(t, j) = At(r, j)
               /\ end <= Len(r) /\ tot < Power(Radix, end) =>
                     Value(t, end) <= tot /\ (Value(t, end) = tot <=> ~ lost)
      <4>1. c \in Nat /\ r \in Seq(Digit) /\ i \in Nat
        BY <3>1
      <4>2. Added(MulRow(b1, c, r, i), r, i + (Len(b1) + 1),
                  Value(r, i + (Len(b1) + 1)) + (c * Value(b1, Len(b1))) * Power(Radix, i),
                  RowLoses(b1, c, r, i))
        BY <4>1, MulRowIs, Zenon
      <4> QED BY <4>2 DEF Added, end, lost
    <3> DEFINE w1 == Power(Radix, n1)
               w2 == Power(Radix, i + 1)
               v1 == Value(b2, i + 1)
    <3>7. w1 \in Nat /\ w2 \in Nat /\ v1 \in Nat /\ v1 < w2 /\ m < w1 /\ m \in Nat
      <4>1. i + 1 \in Nat
        OBVIOUS
      <4> QED BY <4>1, <1>0, <1>12, <3>5, Weights, ValueIs
    <3>8. m * v + (c * m) * w = m * v1
      <4>1. v1 = v + c * w
        BY <3>5
      <4> HIDE DEF v, w, v1
      <4>2. m * (v + c * w) = m * v + m * (c * w)
        <5>1. c * w \in Nat
          BY <3>1, <3>5
        <5> QED BY <3>5, <3>7, <5>1
      <4>3. m * (c * w) = (c * m) * w
        BY <3>1, <3>5, <3>7
      <4> QED BY <4>1, <4>2, <4>3
    <3>9. m * v1 < w1 * w2
      <4> HIDE DEF w1, w2, v1
      <4>1. m + 1 <= w1 /\ v1 + 1 <= w2
        BY <3>7
      <4>2. m * v1 <= m * w2
        BY <3>7
      <4>3. (m + 1) * w2 <= w1 * w2
        BY <3>7, <4>1
      <4>4. (m + 1) * w2 = m * w2 + w2
        BY <3>7
      <4> DEFINE a == m * v1
                 b == m * w2
                 d == w1 * w2
      <4>5. a \in Nat /\ b \in Nat /\ d \in Nat /\ a <= b /\ b + w2 <= d /\ w2 > 0
        BY <3>7, <4>2, <4>3, <4>4
      <4> HIDE DEF a, b, d
      <4> QED BY <3>7, <4>5
    <3>10. /\ Value(s, end) <= m * v1
           /\ Value(s, end) = m * v1 <=> before /\ ~ lost
      <4> DEFINE add == (c * Value(b1, n1)) * Power(Radix, i)
                 total == Value(r, end) + add
                 mv == m * v
                 all == m * v1
                 z == Value(s, end)
      <4>1. add = (c * m) * w /\ add \in Nat /\ mv \in Nat /\ all \in Nat
        <5>1. add = (c * m) * w
          BY DEF m
        <5>2. (c * m) * w \in Nat
          BY <3>1, <3>5, <3>7
        <5>3. mv \in Nat /\ all \in Nat
          BY <3>5, <3>7
        <5> HIDE DEF add, mv, all
        <5> QED BY <5>1, <5>2, <5>3
      <4>2. all = mv + add /\ total = x + add
        BY <3>4, <3>8, <4>1
      <4>3. all < Power(Radix, end)
        BY <3>6, <3>9
      <4>4. Power(Radix, end) \in Nat
        BY <3>3, Weights
      <4>5. z \in Nat
        <5>1. s \in Seq(Digit)
          BY <1>11 DEF s
        <5> HIDE DEF S, T, Step
        <5> QED BY <3>3, <5>1, ValueIs
      <4> HIDE DEF add, mv, all, x
      <4>6. total < Power(Radix, end)
        BY <3>2, <3>15, <4>1, <4>2, <4>3, <4>4 DEF mv
      <4>7. z <= total /\ (z = total <=> ~ lost)
        <5>1. end <= Len(r)
          BY <3>1, <3>3
        <5>2. MulRow(b1, c, r, i) = s
          BY <3>1
        <5> HIDE DEF total
        <5> QED BY <3>13, <4>6, <5>1, <5>2 DEF total, add
      <4> HIDE DEF total, z
      <4>8. z <= all /\ (z = all <=> before /\ ~ lost)
        BY <3>2, <3>15, <4>1, <4>2, <4>5, <4>7 DEF mv
      <4> QED BY <4>8 DEF z, all
    <3>11. \A j \in Nat : j > end => At(s, j) = 0
      <4>1. \A j \in Nat : j > end => At(s, j) = At(r, j)
        BY <3>1, <3>13
      <4> QED BY <1>0, <3>2, <3>3, <4>1
    <3>16. (\A t \in 0 .. (i + 1) - 1 : ~ Loses(t)) <=> before /\ ~ lost
      <4>1. \A t : t \in 0 .. (i + 1) - 1 <=> t \in 0 .. i - 1 \/ t = i
        OBVIOUS
      <4> QED BY <3>14, <4>1 DEF before
    <3>12. Part(i + 1)
      <4>1. n1 + (i + 1) = end
        BY <3>3
      <4> HIDE DEF Loses, before, lost
      <4> QED BY <3>10, <3>11, <3>16, <4>1 DEF s
    <3> HIDE DEF Part
    <3> QED BY <3>12
  <2>2. CASE ~ (i + 1 <= n2)
    BY <1>0, <2>2
  <2> QED BY <2>1, <2>2
<1>15. \A i \in 0 .. n2 : Part(i)
  <2>1. \A i \in Nat : i \in T
    <3> HIDE DEF T
    <3> QED BY <1>13, <1>14, Induction
  <2>2. \A i \in 0 .. n2 : i \in Nat /\ i <= n2
    BY <1>0
  <2> HIDE DEF Part
  <2> QED BY <2>1, <2>2
<1> DEFINE m2 == Magnitude(b2)
           Crit(i, j) == CarriesInto(m * ((m2 \div Power(Radix, i)) % Radix),
                                     (m * (m2 % Power(Radix, i))) \div Power(Radix, i),
                                     Power(Radix, j))
           A == {i \in 0 .. n2 - 1 : Loses(i)}
           B == {i \in 0 .. n2 - 1 : \E j \in 0 .. n1 - 1 : Crit(i, j)}
<1>18. Magnitude(b1) = m /\ Value(b2, n2) = m2
  BY DEF Magnitude
<1>19. ASSUME NEW i \in 0 .. n2 - 1, \A t \in 0 .. i - 1 : ~ Loses(t)
       PROVE  Loses(i) <=> \E j \in 0 .. n1 - 1 : Crit(i, j)
  <2> DEFINE c == At(b2, i + 1)
             r == p[i]
             w == Power(Radix, i)
  <2>1. i \in Nat /\ i \in 0 .. n2 /\ n1 + i \in Nat /\ i + (n1 + 1) <= n1 + n2 /\ n1 + n2 >= n1 + i
    BY <1>0
  <2>2. r \in Seq(Digit) /\ Len(r) = n1 + n2 /\ c \in Nat
    <3>1. c \in Nat
      <4>1. i + 1 \in Int
        BY <2>1
      <4> QED BY <4>1, AtIs
    <3>2. r \in S
      BY <1>11, <2>1
    <3> QED BY <3>1, <3>2
  <2>3. Value(r, n1 + i) = m * Value(b2, i) /\ \A j \in Nat : j > n1 + i => At(r, j) = 0
    <3>1. Part(i)
      BY <1>15, <2>1
    <3> QED BY <1>19, <3>1
  <2>4. Value(b2, i) = m2 % w /\ c = (m2 \div w) % Radix
    BY <2>1, DigitsOf
  <2>5. Loses(i) <=> RowLoses(b1, c, r, i)
    OBVIOUS
  <2> HIDE DEF r, c, m2, m, w, Loses, Part, S, T, Step
  <2>6. Magnitude(r) = m * (m2 % w)
    <3> DEFINE top == n1 + i
               l == n1 + n2
    <3>1. top \in Nat /\ l \in Nat /\ l >= top /\ \A j \in Nat : j > top => At(r, j) = 0
      BY <1>0, <2>1, <2>3
    <3>2. Len(r) = l
      BY <2>2
    <3>3. Value(r, top) = m * (m2 % w)
      BY <2>3, <2>4
    <3> HIDE DEF top, l, n1, n2
    <3>4. Value(r, l) = Value(r, top)
      BY <2>2, <3>1, ValueTop
    <3> QED BY <3>2, <3>3, <3>4 DEF Magnitude
  <2>7. RowLoses(b1, c, r, i)
        <=> \E j \in 0 .. n1 - 1 : CarriesInto(Magnitude(b1) * c, Magnitude(r) \div w, Power(Radix, j))
    BY <2>1, <2>2, RowLosesIs DEF w
  <2> QED BY <1>18, <2>4, <2>5, <2>6, <2>7 DEF w
<1> HIDE DEF Loses, Crit
<1>20. A \subseteq Nat /\ B \subseteq Nat
  BY <1>0
<1>21. ASSUME NEW i \in Nat, \A t \in A : i <= t
       PROVE  i \in A <=> i \in B
  <2>1. CASE i \in 0 .. n2 - 1
    <3>1. ASSUME NEW t \in 0 .. i - 1, Loses(t)
          PROVE  FALSE
      <4>1. t \in A
        BY <1>0, <2>1, <3>1
      <4>2. t < i
        BY <3>1
      <4> QED BY <1>20, <1>21, <4>1, <4>2
    <3>2. Loses(i) <=> \E j \in 0 .. n1 - 1 : Crit(i, j)
      BY <1>19, <2>1, <3>1
    <3> QED BY <2>1, <3>2
  <2>2. CASE ~ (i \in 0 .. n2 - 1)
    BY <2>2
  <2> QED BY <2>1, <2>2
<1>22. A = {} <=> B = {}
  <2> HIDE DEF A, B
  <2> QED BY <1>20, <1>21, SameFirst
<1>23. LosesCarry(b1, b2) <=> B # {}
  <2>1. LosesCarry(b1, b2) <=> \E i \in 0 .. n2 - 1, j \in 0 .. n1 - 1 : Crit(i, j)
    BY <1>18 DEF LosesCarry, Crit, CarriesInto
  <2> HIDE DEF n1, n2
  <2> QED BY <2>1
<1>16. /\ Magnitude(p[n2]) <= Magnitude(b1) * Magnitude(b2)
       /\ Magnitude(p[n2]) = Magnitude(b1) * Magnitude(b2) <=> ~ LosesCarry(b1, b2)
  <2>1. p[n2] \in S
    BY <1>0, <1>11
  <2>2. Len(p[n2]) = n1 + n2
    BY <2>1
  <2>3. Part(n2)
    <3>1. n2 \in 0 .. n2
      BY <1>0
    <3> QED BY <1>15, <3>1
  <2>4. /\ Magnitude(p[n2]) <= m * m2
        /\ Magnitude(p[n2]) = m * m2 <=> \A t \in 0 .. n2 - 1 : ~ Loses(t)
    <3> HIDE DEF m, m2
    <3> QED BY <1>18, <2>2, <2>3 DEF Magnitude
  <2>5. (\A t \in 0 .. n2 - 1 : ~ Loses(t)) <=> A = {}
    OBVIOUS
  <2> HIDE DEF A, B, m, m2
  <2> QED BY <1>18, <1>22, <1>23, <2>4, <2>5 DEF m2
<1>17. p[n2] \in S
  BY <1>0, <1>11
<1> QED BY <1>7, <1>16, <1>17

(* The integer an object stands for. *)
Denotes(o) == IF o.tag = "fixnum" THEN o.n ELSE Signed(o.neg, o.cells)

LEMMA CanonicalDenotes ==
    ASSUME NEW v \in Int
    PROVE  Denotes(Canonical(v)) = v
<1> DEFINE m == Abs(v)
           neg == v < 0
           b == Cells(m, Length(m))
           c == Reduce(b)
           n == IF neg THEN -Magnitude(c) ELSE Magnitude(c)
<1>1. m \in Nat /\ v = IF neg THEN -m ELSE m
  BY AbsIs
<1>2. b \in Seq(Digit) /\ Magnitude(b) = m
  <2> HIDE DEF m
  <2> QED BY <1>1, CanonicalCells
<1>3. Canonical(v) = Normalize(neg, b)
  BY DEF Canonical
<1> HIDE DEF b
<1>4. Magnitude(c) = m
  BY <1>2, ReduceIs
<1>5. Normalize(neg, b) = IF Len(c) <= 1 /\ IsFixnum(n) THEN Fixnum(n) ELSE Bignum(neg, c)
  BY DEF Normalize
<1> HIDE DEF c, m, neg
<1>6. n = v
  BY <1>1, <1>4
<1> HIDE DEF n
<1>7. Denotes(Fixnum(n)) = n
  BY DEF Denotes, Fixnum
<1>8. Denotes(Bignum(neg, c)) = IF neg THEN -Magnitude(c) ELSE Magnitude(c)
  BY DEF Denotes, Bignum, Signed
<1>9. Denotes(Bignum(neg, c)) = v
  BY <1>6, <1>8 DEF n
<1> QED BY <1>3, <1>5, <1>6, <1>7, <1>9

LEMMA CanonicalDiffers ==
    ASSUME NEW v \in Int, NEW w \in Int
    PROVE  Canonical(v) = Canonical(w) <=> v = w
<1>1. Denotes(Canonical(v)) = v /\ Denotes(Canonical(w)) = w
  BY CanonicalDenotes
<1> QED BY <1>1

(* What MultiplyBignums makes of two magnitudes.                            *)
Drops(x, y) == IF Len(x) < Len(y) THEN LosesCarry(y, x) ELSE LosesCarry(x, y)

LEMMA MultiplyBignumsIs ==
    ASSUME NEW a, NEW b, IsBignum(a), IsBignum(b)
    PROVE  MultiplyBignums(a, b) = Canonical(Number(a) * Number(b))
              <=> ~ Drops(a.cells, b.cells)
<1> DEFINE x == Magnitude(a.cells)
           y == Magnitude(b.cells)
           s == IF Len(a.cells) < Len(b.cells)
                THEN MulBignumWords(b.cells, a.cells)
                ELSE MulBignumWords(a.cells, b.cells)
           neg == a.neg # b.neg
<1>1. x \in Nat /\ y \in Nat /\ a.neg \in BOOLEAN /\ b.neg \in BOOLEAN
  BY MagnitudeIs DEF IsBignum
<1> DEFINE lost == Drops(a.cells, b.cells)
<1>2. s \in Seq(Digit) /\ Magnitude(s) \in Nat /\ (Magnitude(s) = x * y <=> ~ lost)
  <2>1. a.cells \in Seq(Digit) /\ b.cells \in Seq(Digit)
    BY DEF IsBignum
  <2>2. /\ MulBignumWords(a.cells, b.cells) \in Seq(Digit)
        /\ Magnitude(MulBignumWords(a.cells, b.cells)) = Magnitude(a.cells) * Magnitude(b.cells)
             <=> ~ LosesCarry(a.cells, b.cells)
    BY <2>1, ProductIs
  <2>3. /\ MulBignumWords(b.cells, a.cells) \in Seq(Digit)
        /\ Magnitude(MulBignumWords(b.cells, a.cells)) = Magnitude(b.cells) * Magnitude(a.cells)
             <=> ~ LosesCarry(b.cells, a.cells)
    BY <2>1, ProductIs
  <2>4. y * x = x * y
    <3> HIDE DEF x, y
    <3> QED BY <1>1
  <2>5. s \in Seq(Digit)
    BY <2>2, <2>3
  <2>6. Magnitude(s) \in Nat
    <3> HIDE DEF s
    <3> QED BY <2>5, MagnitudeIs
  <2>7. CASE Len(a.cells) < Len(b.cells)
    BY <2>3, <2>4, <2>5, <2>6, <2>7 DEF Drops
  <2>8. CASE ~ (Len(a.cells) < Len(b.cells))
    BY <2>2, <2>5, <2>6, <2>8 DEF Drops
  <2> QED BY <2>7, <2>8
<1>3. MultiplyBignums(a, b) = Normalize(neg, s)
  BY DEF MultiplyBignums
<1>4. Normalize(neg, s) = Canonical(Signed(neg, s))
  <2> HIDE DEF s
  <2> QED BY <1>1, <1>2, NormalizeIs
<1>5. Number(a) = (IF a.neg THEN -x ELSE x) /\ Number(b) = IF b.neg THEN -y ELSE y
  BY DEF Number, Signed
<1>6. Signed(neg, s) = IF neg THEN -Magnitude(s) ELSE Magnitude(s)
  BY DEF Signed
<1> DEFINE p == Number(a)
           q == Number(b)
<1> HIDE DEF x, y, s, p, q
<1>7. p = (IF a.neg THEN -x ELSE x) /\ q = IF b.neg THEN -y ELSE y
  BY <1>5 DEF p, q
<1>8. (-x) * y = -(x * y) /\ x * (-y) = -(x * y) /\ (-x) * (-y) = x * y
  BY <1>1
<1>9. p * q = IF neg THEN -(x * y) ELSE x * y
  <2>1. CASE a.neg /\ b.neg
    BY <1>7, <1>8, <2>1
  <2>2. CASE ~ a.neg /\ ~ b.neg
    BY <1>1, <1>7, <1>8, <2>2
  <2>3. CASE a.neg /\ ~ b.neg
    BY <1>1, <1>7, <1>8, <2>3
  <2>4. CASE ~ a.neg /\ b.neg
    BY <1>1, <1>7, <1>8, <2>4
  <2> QED BY <1>1, <2>1, <2>2, <2>3, <2>4
<1>10. x * y \in Nat
  BY <1>1
<1> DEFINE xy == x * y
           z == Magnitude(s)
           signed == Signed(neg, s)
<1>11. /\ signed \in Int /\ p * q \in Int
       /\ signed = p * q <=> ~ lost
  <2>1. xy \in Nat /\ z \in Nat /\ (z = xy <=> ~ lost)
    BY <1>2, <1>10
  <2>2. signed = (IF neg THEN -z ELSE z) /\ p * q = IF neg THEN -xy ELSE xy
    BY <1>6, <1>9
  <2> HIDE DEF xy, z, signed, lost, neg
  <2> QED BY <2>1, <2>2
<1>12. Canonical(signed) = Canonical(p * q) <=> signed = p * q
  <2> DEFINE w == p * q
  <2>1. w \in Int /\ signed \in Int
    BY <1>11
  <2> HIDE DEF w, signed
  <2>2. Canonical(signed) = Canonical(w) <=> signed = w
    BY <2>1, CanonicalDiffers
  <2> QED BY <2>2 DEF w
<1> QED BY <1>3, <1>4, <1>11, <1>12 DEF p, q

-----------------------------------------------------------------------------
(* Sums, differences and products of integers. *)
LEMMA CanonicalIs ==
    ASSUME NEW v \in Int
    PROVE  /\ IsFixnum(v) => Canonical(v) = Fixnum(v)
           /\ ~ IsFixnum(v) => Canonical(v).tag = "bignum"
<1> DEFINE m == Abs(v)
           c == Cells(m, Length(m))
           r == Reduce(c)
<1>1. m \in Nat /\ v = IF v < 0 THEN -m ELSE m
  BY AbsIs
<1>2. c \in Seq(Digit) /\ Magnitude(c) = m
  <2> HIDE DEF m
  <2> QED BY <1>1, CanonicalCells
<1> HIDE DEF c
<1>3. Magnitude(r) = m /\ Len(r) = Top(c) /\ Top(c) \in Nat
  BY <1>2, ReduceIs, TopIs
<1> HIDE DEF r
<1>4. Canonical(v) = IF Len(r) <= 1 /\ IsFixnum(v) THEN Fixnum(v) ELSE Bignum(v < 0, r)
  <2>1. Canonical(v) = Normalize(v < 0, c)
    BY DEF Canonical, c
  <2> HIDE DEF m
  <2> QED BY <1>1, <1>3, <2>1 DEF Normalize, r
<1>5. IsFixnum(v) => Len(r) <= 1
  <2>1. ASSUME IsFixnum(v), Top(c) >= 2
        PROVE  FALSE
    <3> DEFINE t == Top(c) - 1
               w == Power(Radix, t)
    <3>1. t \in Nat /\ w <= m /\ t >= 1
      BY <1>2, <1>3, <2>1, TopWeight
    <3>2. Radix \in Nat /\ Radix >= 2 /\ Power(Radix, 0) = 1
      BY Words, Weights
    <3>3. w \in Nat /\ Radix <= w
      <4> HIDE DEF t
      <4>1. 0 \in Nat /\ 0 <= t /\ 0 < t
        BY <3>1
      <4>2. w \in Nat
        BY <3>1, Weights
      <4>3. Radix * Power(Radix, 0) <= w
        BY <3>1, <3>2, <4>1, PowerGrows
      <4> QED BY <3>2, <4>2, <4>3
    <3>4. FixLimit \in Nat /\ 2 * FixLimit <= Radix /\ FixLimit > 0
      BY Words
    <3> HIDE DEF w, t, m
    <3> QED BY <1>1, <2>1, <3>1, <3>2, <3>3, <3>4 DEF IsFixnum
  <2> QED BY <1>3, <2>1
<1>6. Bignum(v < 0, r).tag = "bignum"
  BY DEF Bignum
<1> QED BY <1>4, <1>5, <1>6

(* The machine's product of two fixnums. *)
LEMMA FixnumProduct ==
    ASSUME NEW m \in Int, NEW n \in Int, IsFixnum(m), IsFixnum(n), IsFixnum(FixnumOp("mul", m, n))
    PROVE  /\ ~ (m = -FixLimit /\ n = -1) => FixnumOp("mul", m, n) = m * n
           /\ m = -FixLimit /\ n = -1 => FixnumOp("mul", m, n) = -FixLimit
<1> DEFINE f == FixLimit
           p == m % (2 * f)
<1>1. f \in Nat /\ f > 0 /\ f >= 2
  BY Words
<1>2. FixnumOp("mul", m, n) = p * n /\ -f <= p * n /\ p * n < f
  BY DEF FixnumOp, IsFixnum
<1>3. -f <= m /\ m < f
  BY DEF IsFixnum
<1>4. p = IF m >= 0 THEN m ELSE m + 2 * f
  <2> DEFINE d == 2 * f
  <2>1. d \in Nat /\ d > 0
    BY <1>1
  <2>2. m >= 0 => m \in Nat /\ m < d /\ m = d * 0 + m
    BY <1>1, <1>3
  <2>3. ~ (m >= 0) => m + d \in Nat /\ m + d < d /\ m = d * (-1) + (m + d)
    BY <1>1, <1>3
  <2> HIDE DEF d
  <2>4. CASE m >= 0
    <3>1. m % d = m
      BY <2>1, <2>2, <2>4, DivUnique
    <3> QED BY <2>4, <3>1 DEF d
  <2>5. CASE ~ (m >= 0)
    <3>1. m % d = m + d
      <4> DEFINE q == m + d
                 o == -1
      <4>1. q \in Nat /\ q < d /\ m = d * o + q /\ o \in Int
        BY <2>3, <2>5
      <4> HIDE DEF q, o
      <4>2. m % d = q
        BY <2>1, <4>1, DivUnique
      <4> QED BY <4>2 DEF q
    <3> QED BY <2>5, <3>1 DEF d
  <2> QED BY <2>4, <2>5
<1> HIDE DEF p, f
<1>5. CASE m >= 0
  BY <1>1, <1>2, <1>4, <1>5 DEF f
<1>6. CASE m < 0
  <2>1. p = m + 2 * f /\ p >= f /\ p \in Nat
    BY <1>1, <1>3, <1>4, <1>6
  <2>2. ~ (n >= 1)
    <3>1. ASSUME n >= 1
          PROVE  FALSE
      <4>1. p * n >= p
        BY <2>1, <3>1
      <4> QED BY <1>1, <1>2, <2>1, <4>1
    <3> QED BY <3>1
  <2>3. ~ (n <= -2)
    <3>1. ASSUME n <= -2
          PROVE  FALSE
      <4> DEFINE k1 == -n
      <4>1. k1 \in Nat /\ k1 >= 2 /\ n = -k1
        BY <3>1
      <4> HIDE DEF k1
      <4>2. p * k1 >= 2 * p
        BY <2>1, <4>1
      <4>3. p * n = -(p * k1) /\ p * k1 \in Nat
        BY <2>1, <4>1
      <4> QED BY <1>1, <1>2, <2>1, <4>2, <4>3
    <3> QED BY <3>1
  <2>4. n = 0 \/ n = -1
    BY <2>2, <2>3
  <2>5. CASE n = 0
    <3>1. p * n = 0 /\ m * n = 0
      BY <2>1, <2>5
    <3>2. n # -1
      BY <2>5
    <3> QED BY <1>2, <3>1, <3>2
  <2>6. CASE n = -1
    <3>1. p * n = -p
      BY <2>1, <2>6
    <3>2. m = -f
      BY <1>1, <1>2, <1>3, <2>1, <3>1
    <3>3. p = f
      BY <1>1, <2>1, <3>2
    <3> QED BY <1>2, <2>6, <3>1, <3>2, <3>3 DEF f
  <2> QED BY <2>4, <2>5, <2>6
<1> QED BY <1>5, <1>6

Meant(op, m, n) ==
    CASE op = "add" -> m + n
      [] op = "sub" -> m - n
      [] op = "mul" -> m * n

(* A row that is added to nothing loses no carry.                           *)
LEMMA OneRow ==
    ASSUME NEW x \in Seq(Digit), NEW y \in Seq(Digit), Len(y) = 1
    PROVE  ~ LosesCarry(x, y)
<1> DEFINE m == Magnitude(x)
           n == Magnitude(y)
           row(i) == m * ((n \div Power(Radix, i)) % Radix)
           above(i) == (m * (n % Power(Radix, i))) \div Power(Radix, i)
<1>1. m \in Nat /\ n \in Nat /\ Power(Radix, 0) = 1 /\ Len(x) \in Nat
  BY MagnitudeIs, Weights
<1>2. LosesCarry(x, y) =>
         \E i \in 0 .. Len(y) - 1, j \in 0 .. Len(x) - 1 :
            (row(i) % Power(Radix, j)) + (above(i) % Power(Radix, j)) >= Power(Radix, j)
  BY DEF LosesCarry
<1> HIDE DEF m, n
<1>3. above(0) = 0
  <2>1. n % 1 = 0 /\ m * 0 = 0 /\ 0 \div 1 = 0
    BY <1>1
  <2> QED BY <1>1, <2>1
<1>4. row(0) \in Nat
  <2> DEFINE c == (n \div Power(Radix, 0)) % Radix
  <2>1. c \in Nat
    <3>1. n \div Power(Radix, 0) \in Nat
      BY <1>1, DivMod
    <3> QED BY <3>1, Words, DivMod
  <2> HIDE DEF c
  <2>2. m * c \in Nat
    BY <1>1, <2>1
  <2> QED BY <2>2 DEF c
<1> HIDE DEF row, above
<1>5. ASSUME NEW j \in 0 .. Len(x) - 1
      PROVE  ~ ((row(0) % Power(Radix, j)) + (above(0) % Power(Radix, j)) >= Power(Radix, j))
  <2> DEFINE w == Power(Radix, j)
             z == row(0)
  <2>1. w \in Nat /\ w > 0
    <3>1. j \in Nat
      BY <1>1
    <3> QED BY <3>1, Weights
  <2> HIDE DEF w
  <2>2. 0 % w = 0
    <3>1. 0 = w * 0 + 0
      BY <2>1
    <3> QED BY <2>1, <3>1, DivUnique
  <2>3. z \in Nat
    BY <1>4
  <2> HIDE DEF z
  <2>4. z % w \in Nat /\ z % w < w
    BY <2>1, <2>3, DivMod
  <2>5. ~ ((z % w) + (0 % w) >= w)
    BY <2>1, <2>2, <2>4
  <2> QED BY <1>3, <2>5 DEF w, z
<1>6. \A i \in 0 .. Len(y) - 1 : i = 0
  OBVIOUS
<1> QED BY <1>2, <1>5, <1>6

LEMMA FixnumCells ==
    ASSUME NEW m \in Int, IsFixnum(m)
    PROVE  Len(AsBignum(m).cells) = 1
<1>1. AsBignum(m).cells = <<Abs(m)>>
  BY DEF AsBignum, FixnumToBignum, Bignum
<1> QED BY <1>1

LEMMA ArithmeticIs ==
    ASSUME NEW op \in Products, NEW m \in Int, NEW n \in Int
    PROVE  Arithmetic(op, m, n) = Canonical(Meant(op, m, n))
              <=> ~ \/ op = "mul" /\ m = -FixLimit /\ n = -1
                    \/ op = "mul" /\ Drops(AsBignum(m).cells, AsBignum(n).cells)
<1> DEFINE a == AsBignum(m)
           b == AsBignum(n)
           v == Meant(op, m, n)
           Wraps == op = "mul" /\ m = -FixLimit /\ n = -1
           f == FixnumOp(op, m, n)
           Lost == op = "mul" /\ Drops(a.cells, b.cells)
<1>1. v \in Int
  <2>1. op \in {"add", "sub", "mul"}
    BY DEF Products
  <2> QED BY <2>1 DEF Meant
<1>2. FixLimit \in Nat /\ FixLimit > 1
  BY Words
<1>3. IsBignum(a) /\ IsBignum(b) /\ Number(a) = m /\ Number(b) = n
  BY AsBignumIs
<1>7. IsFixnum(m) /\ IsFixnum(n) => ~ Lost
  <2>1. ASSUME IsFixnum(m), IsFixnum(n)
        PROVE  ~ Drops(a.cells, b.cells)
    <3>1. Len(a.cells) = 1 /\ Len(b.cells) = 1
      BY <2>1, FixnumCells
    <3> HIDE DEF a, b
    <3>2. a.cells \in Seq(Digit) /\ b.cells \in Seq(Digit)
      BY <1>3 DEF IsBignum
    <3>3. ~ LosesCarry(a.cells, b.cells)
      BY <3>1, <3>2, OneRow
    <3> QED BY <3>1, <3>3 DEF Drops
  <2> QED BY <2>1
<1>8. Lost <=> op = "mul" /\ Drops(AsBignum(m).cells, AsBignum(n).cells)
  OBVIOUS
<1> HIDE DEF a, b
<1>4. BignumOp(op, a, b) = Canonical(v) <=> ~ Lost
  <2>1. CASE op = "add"
    <3>1. AddBignums(a, b) = Canonical(m + n)
      BY <1>3, AddBignumsIs
    <3> QED BY <2>1, <3>1 DEF BignumOp, Meant
  <2>2. CASE op = "sub"
    <3>1. SubBignums(a, b) = Canonical(m - n)
      BY <1>3, AddBignumsIs
    <3> QED BY <2>2, <3>1 DEF BignumOp, Meant
  <2>3. CASE op = "mul"
    <3>1. MultiplyBignums(a, b) = Canonical(m * n) <=> ~ Drops(a.cells, b.cells)
      BY <1>3, MultiplyBignumsIs
    <3> QED BY <2>3, <3>1 DEF BignumOp, Meant
  <2> QED BY <2>1, <2>2, <2>3 DEF Products
<1>5. CASE IsFixnum(m) /\ IsFixnum(n) /\ IsFixnum(f)
  <2>1. Arithmetic(op, m, n) = Fixnum(f)
    BY <1>5 DEF Arithmetic
  <2>2. CASE ~ Wraps
    <3>1. f = v
      <4>1. CASE op = "add"
        BY <4>1 DEF FixnumOp, Meant
      <4>2. CASE op = "sub"
        BY <4>2 DEF FixnumOp, Meant
      <4>3. CASE op = "mul"
        <5>1. FixnumOp("mul", m, n) = m * n
          BY <1>5, <2>2, <4>3, FixnumProduct
        <5> QED BY <4>3, <5>1 DEF Meant
      <4> QED BY <4>1, <4>2, <4>3 DEF Products
    <3>2. Canonical(v) = Fixnum(v)
      <4> HIDE DEF v, f
      <4> QED BY <1>1, <1>5, <3>1, CanonicalIs
    <3>3. Arithmetic(op, m, n) = Canonical(v)
      <4> HIDE DEF v, f
      <4> QED BY <2>1, <3>1, <3>2
    <3> HIDE DEF v, f, Lost
    <3> QED BY <1>5, <1>7, <1>8, <2>2, <3>3 DEF v
  <2>3. CASE Wraps
    <3>1. v = FixLimit
      <4>1. v = m * n /\ m = -FixLimit /\ n = -1
        BY <2>3 DEF Meant
      <4> HIDE DEF v
      <4> QED BY <1>2, <4>1
    <3>2. ~ IsFixnum(v)
      <4> HIDE DEF v
      <4> QED BY <1>2, <3>1 DEF IsFixnum
    <3>3. Canonical(v).tag = "bignum"
      <4> HIDE DEF v
      <4> QED BY <1>1, <3>2, CanonicalIs
    <3>4. Fixnum(f).tag = "fixnum"
      <4> HIDE DEF f
      <4> QED BY DEF Fixnum
    <3> QED BY <2>1, <2>3, <3>3, <3>4
  <2> QED BY <2>2, <2>3
<1>6. CASE ~ (IsFixnum(m) /\ IsFixnum(n) /\ IsFixnum(f))
  <2>1. Arithmetic(op, m, n) = BignumOp(op, a, b)
    BY <1>6 DEF Arithmetic, a, b
  <2>2. ~ Wraps
    <3>1. ASSUME Wraps
          PROVE  FALSE
      <4>1. IsFixnum(m) /\ IsFixnum(n)
        BY <1>2, <3>1 DEF IsFixnum
      <4>2. f = -FixLimit
        <5> DEFINE d == 2 * FixLimit
                   g == FixLimit
                   o == -1
        <5>1. f = (m % d) * n /\ m = -g /\ n = o /\ o = -1
          BY <3>1 DEF FixnumOp
        <5>2. d \in Nat /\ d > 0 /\ g \in Nat /\ g < d /\ m = d * o + g /\ o \in Int /\ m \in Int
          BY <1>2, <5>1
        <5> HIDE DEF d, g, o, f
        <5>3. m % d = g
          BY <5>2, DivUnique
        <5>4. f = g * (-1)
          BY <5>1, <5>3
        <5>5. f = -g
          BY <5>2, <5>4
        <5> QED BY <5>5 DEF g
      <4>3. IsFixnum(f)
        <5> HIDE DEF f
        <5> QED BY <1>2, <4>2 DEF IsFixnum
      <4> QED BY <1>6, <4>1, <4>3
    <3> QED BY <3>1
  <2> HIDE DEF v, f, Lost
  <2>3. Arithmetic(op, m, n) = Canonical(v) <=> ~ Lost
    BY <1>4, <2>1
  <2> QED BY <1>8, <2>2, <2>3 DEF v
<1> QED BY <1>5, <1>6, <1>8

-----------------------------------------------------------------------------
InDivision == phase = "divide" => call.op \in {"div", "rem"}
ArithmeticInv == InDivision /\ ArithmeticExact

LEMMA ArithmeticStep ==
    ASSUME ArithmeticInv, [Next]_vars
    PROVE  ArithmeticInv'
<1>0. "add" # "div" /\ "add" # "rem" /\ Products = {"add", "sub", "mul"}
  BY DEF Products
<1>1. CASE Calculate
  <2>1. PICK m \in Terms, n \in Terms, op \in Products :
           /\ call' = [op |-> op, by |-> "library", a |-> m, b |-> n]
           /\ phase' = "done" /\ answer' = Arithmetic(op, m, n)
    BY <1>1 DEF Calculate, Finish
  <2>2. m \in Int /\ n \in Int
    BY OperandsAssumption
  <2>3. call'.op = op /\ call'.a = m /\ call'.b = n
    BY <2>1
  <2>4. Result' = Meant(op, m, n)
    <3>1. op = "add" \/ op = "sub" \/ op = "mul"
      BY DEF Products
    <3> QED BY <2>3, <3>1 DEF Result, Meant
  <2>5. FixnumWraps' <=> (op = "mul" /\ m = -FixLimit /\ n = -1)
    BY <2>3 DEF FixnumWraps, Products
  <2>8. CarryLost' <=> (op = "mul" /\ Drops(AsBignum(m).cells, AsBignum(n).cells))
    BY <2>3 DEF CarryLost, Drops
  <2>6. answer' = Canonical(Result') <=> ~ (FixnumWraps' \/ CarryLost')
    <3>1. Arithmetic(op, m, n) = Canonical(Meant(op, m, n))
             <=> ~ \/ op = "mul" /\ m = -FixLimit /\ n = -1
                   \/ op = "mul" /\ Drops(AsBignum(m).cells, AsBignum(n).cells)
      BY <2>2, ArithmeticIs
    <3> QED BY <2>1, <2>4, <2>5, <2>8, <3>1
  <2>7. phase' # "divide"
    BY <2>1
  <2> QED BY <2>6, <2>7 DEF ArithmeticInv, ArithmeticExact, InDivision
<1>2. CASE ShiftInteger
  <2>1. phase' = "done" /\ call'.op = "ash"
    BY <1>2 DEF ShiftInteger, Finish
  <2> QED BY <2>1 DEF ArithmeticInv, ArithmeticExact, InDivision, Products
<1>3. CASE DivideFixnums
  <2>1. phase' = "done" /\ call'.op = "div"
    BY <1>3 DEF DivideFixnums, Finish
  <2> QED BY <2>1 DEF ArithmeticInv, ArithmeticExact, InDivision, Products
<1>4. CASE DivideBignums
  <2>1. call'.op \in {"div", "rem"}
    BY <1>4 DEF DivideBignums
  <2> QED BY <2>1 DEF ArithmeticInv, ArithmeticExact, InDivision, Products
<1>5. CASE QuotientStep
  <2>1. phase = "divide" /\ call' = call /\ phase' \in {"divide", "fault"}
    BY <1>5 DEF QuotientStep, Stop
  <2> QED BY <2>1 DEF ArithmeticInv, ArithmeticExact, InDivision, Products
<1>6. CASE FinishDivision
  <2>1. phase = "divide" /\ call' = call /\ phase' = "done"
    BY <1>6 DEF FinishDivision, Return, Finish
  <2> QED BY <2>1 DEF ArithmeticInv, ArithmeticExact, InDivision, Products
<1>7. CASE NextCall
  <2>1. phase' = "idle"
    BY <1>7 DEF NextCall
  <2> QED BY <2>1 DEF ArithmeticInv, ArithmeticExact, InDivision
<1>8. CASE UNCHANGED vars
  <2>1. phase' = phase /\ call' = call /\ answer' = answer
    BY <1>8 DEF vars
  <2>2. Result' = Result /\ (FixnumWraps' <=> FixnumWraps) /\ (CarryLost' <=> CarryLost)
    BY <2>1 DEF Result, FixnumWraps, CarryLost
  <2> QED BY <2>1, <2>2 DEF ArithmeticInv, ArithmeticExact, InDivision
<1> QED BY <1>1, <1>2, <1>3, <1>4, <1>5, <1>6, <1>7, <1>8 DEF Next

(* Every sum, difference and product is the canonical object of the        *)
(* integer it stands for but where it is said not to be, and there it is   *)
(* not, in words of any size and for all operands.                         *)
THEOREM ArithmeticIsExact == Spec => []ArithmeticExact
<1>1. Init => ArithmeticInv
  BY DEF Init, ArithmeticInv, ArithmeticExact, InDivision
<1>2. ArithmeticInv /\ [Next]_vars => ArithmeticInv'
  BY ArithmeticStep
<1>3. ArithmeticInv => ArithmeticExact
  BY DEF ArithmeticInv
<1> QED BY <1>1, <1>2, <1>3, PTL DEF Spec

-----------------------------------------------------------------------------
(* Shifts.  A half word has h = p * t values.                              *)
LEMMA DivOfSum ==
    ASSUME NEW d \in Nat, d > 0, NEW q \in Nat, NEW r \in Nat
    PROVE  (d * q + r) \div d = q + (r \div d) /\ (d * q + r) % d = r % d
<1> DEFINE a == r \div d
           b == r % d
           n == d * q + r
<1>1. a \in Nat /\ b \in Nat /\ b < d /\ r = d * a + b
  BY DivMod
<1>2. n \in Int
  OBVIOUS
<1>3. n = d * (q + a) + b
  <2>1. d * (q + a) = d * q + d * a
    BY <1>1
  <2> DEFINE x == d * q
             y == d * a
  <2>2. x \in Nat /\ y \in Nat
    BY <1>1
  <2> HIDE DEF a, b
  <2> QED BY <1>1, <2>1, <2>2
<1> HIDE DEF a, b, n
<1>4. q + a \in Int
  BY <1>1
<1>5. n \div d = q + a /\ n % d = b
  BY <1>1, <1>2, <1>3, <1>4, DivUnique
<1> QED BY <1>5 DEF a, b, n

LEMMA DivBound ==
    ASSUME NEW n \in Nat, NEW d \in Nat, d > 0, NEW m \in Nat, n < d * m
    PROVE  n \div d < m
<1> DEFINE a == n \div d
           b == n % d
<1>1. a \in Nat /\ b \in Nat /\ n = d * a + b
  BY DivMod
<1> HIDE DEF a, b
<1>2. ASSUME a >= m
      PROVE  FALSE
  <2>1. d * a >= d * m
    BY <1>1, <1>2
  <2> DEFINE x == d * a
             y == d * m
  <2>2. x \in Nat /\ y \in Nat /\ x >= y /\ n < y /\ n = x + b
    BY <1>1, <2>1
  <2> HIDE DEF x, y
  <2> QED BY <1>1, <2>2
<1> QED BY <1>1, <1>2 DEF a

LEMMA DivExact ==
    ASSUME NEW d \in Nat, d > 0, NEW q \in Nat
    PROVE  (d * q) \div d = q /\ (q * d) \div d = q /\ (d * q) % d = 0
<1> DEFINE n == d * q
<1>1. n = d * q + 0 /\ n \in Int /\ q * d = n
  OBVIOUS
<1> HIDE DEF n
<1>2. n \div d = q /\ n % d = 0
  BY <1>1, DivUnique
<1> QED BY <1>1, <1>2 DEF n

Splits(h, p, t) == /\ h \in Nat /\ p \in Nat /\ p > 0 /\ t \in Nat /\ t > 0
                   /\ h = p * t

DigitOf(x, p, t, h, e) == /\ (x * p + e) \div h = x \div t
                          /\ (x * p + e) % h = (x % t) * p + e
                          /\ e = 0 => (x * p) \div h = x \div t /\ (x * p) % h = (x % t) * p

LEMMA DigitTimes ==
    ASSUME NEW x \in Nat, NEW p, NEW t, NEW h, Splits(h, p, t),
           NEW e \in Nat, e < p
    PROVE  DigitOf(x, p, t, h, e)
<1>a. p \in Nat /\ p > 0 /\ t \in Nat /\ t > 0 /\ h \in Nat /\ h = p * t /\ h > 0
  BY DEF Splits
<1>b. Splits(h, t, p)
  BY <1>a DEF Splits
<1> USE <1>a, <1>b
<1> DEFINE a == x \div t
           b == x % t
           n == x * p + e
           r == b * p + e
<1>1. a \in Nat /\ b \in Nat /\ b < t /\ x = t * a + b
  BY DivMod
<1> HIDE DEF a, b
<1>2. r \in Nat /\ n \in Int
  BY <1>1
<1>3. r < h
  <2>1. (b + 1) * p <= t * p
    BY <1>1
  <2>2. (b + 1) * p = b * p + p /\ t * p = h
    BY <1>1
  <2> DEFINE bp == b * p
  <2>3. bp \in Nat
    BY <1>1
  <2> HIDE DEF bp
  <2> QED BY <2>1, <2>2, <2>3 DEF bp
<1>4. n = h * a + r
  <2>1. x * p = (t * a) * p + b * p
    BY <1>1
  <2>2. (t * a) * p = h * a
    BY <1>1
  <2> QED BY <1>1, <2>1, <2>2
<1>5. h > 0
  OBVIOUS
<1> HIDE DEF n, r
<1>6. n \div h = a /\ n % h = r
  BY <1>1, <1>2, <1>3, <1>4, <1>5, DivUnique
<1>7. ASSUME e = 0
      PROVE  n = x * p /\ r = b * p
  BY <1>1, <1>7 DEF n, r
<1>8. n = x * p + e /\ r = b * p + e
  BY DEF n, r
<1> QED BY <1>6, <1>7, <1>8 DEF a, b, DigitOf

ModOf(q, h, t) == (q % h) % t = q % t

LEMMA ModMod ==
    ASSUME NEW q \in Nat, NEW p, NEW t, NEW h, Splits(h, p, t)
    PROVE  ModOf(q, h, t)
<1>a. p \in Nat /\ p > 0 /\ t \in Nat /\ t > 0 /\ h \in Nat /\ h = p * t /\ h > 0
  BY DEF Splits
<1>b. Splits(h, t, p)
  BY <1>a DEF Splits
<1> USE <1>a, <1>b
<1> DEFINE b == q % t
           u == (q \div t) % p
           v == q % h
<1>1. b \in Nat /\ b < t
  BY DivMod
<1>2. u \in Nat
  <2> DEFINE y == q \div t
  <2>1. y \in Nat
    BY DivMod
  <2> HIDE DEF y
  <2>2. y % p \in Nat
    BY <2>1, DivMod
  <2> QED BY <2>2 DEF y
<1>3. v = b + u * t
  BY ModSplit
<1>4. v \in Int
  <2>1. h > 0
    OBVIOUS
  <2> QED BY <2>1, DivMod
<1> HIDE DEF b, u, v
<1>5. v = t * u + b
  BY <1>1, <1>2, <1>3
<1>6. v % t = b
  BY <1>1, <1>2, <1>4, <1>5, DivUnique
<1> QED BY <1>6 DEF v, b, ModOf

(* Two half words of the source make one of the result. *)
LEMMA LeftDigit ==
    ASSUME NEW m \in Nat, NEW p, NEW t, NEW h, Splits(h, p, t),
           NEW u \in Nat, u > 0
    PROVE  ((m * p) \div (h * u)) % h
              = ((((m \div (h * u)) % h) * p) % h) + ((((m \div u) % h) * p) \div h)
<1>a. p \in Nat /\ p > 0 /\ t \in Nat /\ t > 0 /\ h \in Nat /\ h = p * t /\ h > 0
  BY DEF Splits
<1>b. Splits(h, t, p)
  BY <1>a DEF Splits
<1> USE <1>a, <1>b
<1> DEFINE a == m \div u
           s == m % u
           e == (s * p) \div u
           q == a \div h
           d == a % h
           c == q % h
           g == d \div t
<1>0. h > 0
  OBVIOUS
<1>1. a \in Nat /\ s \in Nat /\ s < u /\ m = u * a + s
  BY DivMod
<1>2. q \in Nat /\ d \in Nat /\ d < h /\ a = h * q + d
  <2> HIDE DEF a
  <2> QED BY <1>0, <1>1, DivMod
<1>3. m \div (h * u) = q
  BY <1>0, ModSplit
<1> HIDE DEF a, s
<1>4. e \in Nat /\ e < p /\ (m * p) \div u = a * p + e
  <2> DEFINE sp == s * p
  <2>1. sp \in Nat /\ sp < u * p
    BY <1>1
  <2> HIDE DEF sp
  <2>2. sp \div u \in Nat /\ sp \div u < p
    BY <2>1, DivMod, DivBound
  <2>3. m * p = u * (a * p) + sp /\ a * p \in Nat
    BY <1>1 DEF sp
  <2> DEFINE ap == a * p
  <2> HIDE DEF ap
  <2>4. (u * ap + sp) \div u = ap + (sp \div u)
    BY <2>1, <2>3, DivOfSum DEF ap
  <2> QED BY <2>2, <2>3, <2>4 DEF sp, ap
<1> HIDE DEF e
<1>5. (m * p) \div (h * u) = a \div t
  <2>1. m * p \in Nat
    OBVIOUS
  <2> DEFINE mp == m * p
  <2> HIDE DEF mp
  <2>2. mp \div (h * u) = (mp \div u) \div h
    BY <1>0, <2>1, ModSplit DEF mp
  <2>3. DigitOf(a, p, t, h, e)
    BY <1>1, <1>4, DigitTimes
  <2> QED BY <1>4, <2>2, <2>3 DEF mp, DigitOf
<1>6. a \div t = q * p + g
  <2>1. h * q = t * (p * q) /\ p * q \in Nat
    BY <1>2
  <2> DEFINE pq == p * q
  <2>2. a = t * pq + d /\ pq \in Nat
    BY <1>2, <2>1
  <2> HIDE DEF pq, d, q
  <2>3. (t * pq + d) \div t = pq + (d \div t)
    BY <1>2, <2>2, DivOfSum
  <2>4. pq = q * p
    BY <1>2 DEF pq
  <2> QED BY <2>2, <2>3, <2>4
<1>7. g \in Nat /\ g < p
  <2> HIDE DEF d
  <2>1. d < t * p
    BY <1>2
  <2> QED BY <1>2, <2>1, DivMod, DivBound
<1> HIDE DEF q, g
<1>8. (q * p + g) % h = (q % t) * p + g
  <2>1. DigitOf(q, p, t, h, g)
    BY <1>2, <1>7, DigitTimes
  <2> QED BY <2>1 DEF DigitOf
<1>9. (c * p) % h = (q % t) * p
  <2>1. c \in Nat /\ c % t = q % t
    <3>1. ModOf(q, h, t)
      BY <1>2, ModMod
    <3>2. c \in Nat
      BY <1>2, DivMod
    <3> QED BY <3>1, <3>2 DEF ModOf
  <2> HIDE DEF c
  <2>2. DigitOf(c, p, t, h, 0)
    BY <2>1, DigitTimes
  <2> QED BY <2>1, <2>2 DEF DigitOf
<1>10. (d * p) \div h = g
  <2> HIDE DEF d
  <2>1. DigitOf(d, p, t, h, 0)
    BY <1>2, DigitTimes
  <2> QED BY <2>1 DEF g, DigitOf
<1>11. ((m * p) \div (h * u)) % h = (q % t) * p + g
  BY <1>5, <1>6, <1>8
<1> QED BY <1>3, <1>9, <1>10, <1>11 DEF c, d, a

LEMMA LeftDigitFirst ==
    ASSUME NEW m \in Nat, NEW p, NEW t, NEW h, Splits(h, p, t)
    PROVE  (m * p) % h = ((m % h) * p) % h
<1>a. p \in Nat /\ p > 0 /\ t \in Nat /\ t > 0 /\ h \in Nat /\ h = p * t /\ h > 0
  BY DEF Splits
<1>b. Splits(h, t, p)
  BY <1>a DEF Splits
<1> USE <1>a, <1>b
<1> DEFINE c == m % h
<1>0. h > 0
  OBVIOUS
<1>1. c \in Nat /\ c % t = m % t
  <2>1. ModOf(m, h, t)
    BY ModMod
  <2>2. c \in Nat
    BY DivMod
  <2> QED BY <2>1, <2>2 DEF ModOf
<1> HIDE DEF c
<1>2. DigitOf(c, p, t, h, 0) /\ DigitOf(m, p, t, h, 0)
  BY <1>1, DigitTimes
<1> QED BY <1>1, <1>2 DEF c, DigitOf

LEMMA RightDigit ==
    ASSUME NEW m \in Nat, NEW p, NEW t, NEW h, Splits(h, p, t),
           NEW w \in Nat, w > 0
    PROVE  (m \div (p * w)) % h
              = (((((m \div w) % h) * h) \div p) \div h) + (((((m \div (h * w)) % h) * h) \div p) % h)
<1>a. p \in Nat /\ p > 0 /\ t \in Nat /\ t > 0 /\ h \in Nat /\ h = p * t /\ h > 0
  BY DEF Splits
<1>b. Splits(h, t, p)
  BY <1>a DEF Splits
<1> USE <1>a, <1>b
<1> DEFINE q == m \div w
           q1 == q \div h
           d == q % h
           c == q1 % h
           e == d \div p
<1>0. h > 0 /\ h = t * p
  OBVIOUS
<1>1. q \in Nat
  BY DivMod
<1>2. m \div (p * w) = q \div p /\ m \div (h * w) = q1
  BY <1>0, ModSplit
<1> HIDE DEF q
<1>3. q1 \in Nat /\ d \in Nat /\ d < h /\ q = h * q1 + d
  BY <1>0, <1>1, DivMod
<1> HIDE DEF q1, d
<1>4. c \in Nat /\ c % p = q1 % p
  <2>1. ModOf(q1, h, p)
    BY <1>3, ModMod
  <2>2. c \in Nat
    BY <1>3, DivMod
  <2> QED BY <2>1, <2>2 DEF ModOf
<1> HIDE DEF c
<1>5. e \in Nat /\ e < t
  BY <1>3, DivMod, DivBound
<1>6. q \div p = q1 * t + e
  <2>1. h * q1 = p * (t * q1) /\ t * q1 \in Nat
    BY <1>3
  <2> DEFINE tq == t * q1
  <2>2. q = p * tq + d /\ tq \in Nat
    BY <1>3, <2>1
  <2> HIDE DEF tq
  <2>3. (p * tq + d) \div p = tq + (d \div p)
    BY <1>3, <2>2, DivOfSum
  <2>4. tq = q1 * t
    BY <1>3 DEF tq
  <2> QED BY <2>2, <2>3, <2>4
<1> HIDE DEF e
<1>7. (q1 * t + e) % h = (q1 % p) * t + e
  <2>1. DigitOf(q1, t, p, h, e)
    BY <1>3, <1>5, DigitTimes
  <2> QED BY <2>1 DEF DigitOf
<1>8. ASSUME NEW x \in Nat
      PROVE  ((x * h) \div p) \div h = x \div p /\ ((x * h) \div p) % h = (x % p) * t
  <2> DEFINE xt == x * t
  <2>1. xt \in Nat /\ x * h = p * xt
    OBVIOUS
  <2> HIDE DEF xt
  <2>2. (p * xt) \div p = xt
    BY <2>1, DivExact
  <2>3. DigitOf(x, t, p, h, 0)
    BY DigitTimes
  <2> QED BY <2>1, <2>2, <2>3 DEF xt, DigitOf
<1>9. ((d * h) \div p) \div h = e /\ ((c * h) \div p) % h = (q1 % p) * t
  BY <1>3, <1>4, <1>8 DEF e
<1>10. (m \div (p * w)) % h = (q1 % p) * t + e
  BY <1>2, <1>6, <1>7
<1>11. (q1 % p) * t \in Nat
  <2>1. q1 % p \in Nat
    BY <1>3, DivMod
  <2> DEFINE z == q1 % p
  <2>2. z * t \in Nat
    <3> HIDE DEF z
    <3> QED BY <2>1 DEF z
  <2> QED BY <2>2
<1>12. (q1 % p) * t + e = e + (q1 % p) * t
  <2> DEFINE z == (q1 % p) * t
  <2> HIDE DEF z
  <2>1. z + e = e + z
    BY <1>5, <1>11 DEF z
  <2> QED BY <2>1 DEF z
<1> QED BY <1>2, <1>9, <1>10, <1>12 DEF d, c, q, q1

(* The cells of a number are its digits. *)
LEMMA AtMagnitude ==
    ASSUME NEW c \in Seq(Digit)
    PROVE  \A n \in Nat : At(c, n + 1) = (Magnitude(c) \div Power(Radix, n)) % Radix
<1> TAKE n \in Nat
<1> DEFINE m == Magnitude(c)
           len == Len(c) + (n + 1)
           d == Cells(m, len)
<1>1. m \in Nat /\ Len(c) \in Nat /\ m < Power(Radix, Len(c))
  BY MagnitudeIs
<1>2. len \in Nat /\ len >= Len(c) /\ n + 1 \in 1 .. len
  BY <1>1
<1> HIDE DEF len, m
<1>3. d \in Seq(Digit) /\ Len(d) = len /\ At(d, n + 1) = (m \div Power(Radix, (n + 1) - 1)) % Radix
  BY <1>1, <1>2, CellsAre
<1>4. Value(c, len) = m
  BY <1>2, MagnitudeIs DEF m
<1>5. m < Power(Radix, len)
  BY <1>1, <1>2, <1>4, ValueBound
<1>6. Value(d, len) = m
  BY <1>1, <1>2, <1>3, <1>5, CellsMagnitude DEF Magnitude
<1> HIDE DEF d
<1>7. At(c, n + 1) = At(d, n + 1)
  BY <1>2, <1>3, <1>4, <1>6, SameDigits
<1>8. (n + 1) - 1 = n
  OBVIOUS
<1> QED BY <1>3, <1>7, <1>8 DEF m

LEMMA HalfPowers ==
    /\ Power(Half, 0) = 1
    /\ \A n \in Nat : /\ Power(Half, n) \in Nat /\ Power(Half, n) > 0
                      /\ Power(Half, n + 1) = Half * Power(Half, n)
                      /\ Power(Half, 2 * n) = Power(Radix, n)
                      /\ Power(Half, 2 * n + 1) = Half * Power(Radix, n)
                      /\ Power(2, HalfBits * n) = Power(Half, n)
<1>1. Half \in Nat /\ Half > 0 /\ Half >= 2 /\ HalfBits \in Nat /\ Radix = Half * Half
  BY Words, WordAssumption
<1>2. /\ Power(Half, 0) = 1
      /\ \A n \in Nat : /\ Power(Half, n) \in Nat /\ Power(Half, n) > 0
                        /\ Power(Half, n + 1) = Half * Power(Half, n)
  BY <1>1, PowerIs, PowerPositive
<1> DEFINE S == {n \in Nat : Power(Half, 2 * n) = Power(Radix, n)}
           T == {n \in Nat : Power(2, HalfBits * n) = Power(Half, n)}
<1>3. 0 \in S
  <2>1. 2 * 0 = 0
    OBVIOUS
  <2> QED BY <2>1, <1>2, Weights
<1>4. ASSUME NEW n \in Nat, n \in S
      PROVE  n + 1 \in S
  <2>1. 2 * (n + 1) = (2 * n + 1) + 1 /\ 2 * n \in Nat /\ 2 * n + 1 \in Nat
    OBVIOUS
  <2> DEFINE w == Power(Half, 2 * n)
  <2>2. Power(Half, 2 * (n + 1)) = Half * (Half * w) /\ w \in Nat
    BY <1>2, <2>1
  <2>3. Power(Radix, n + 1) = Radix * w
    BY <1>4, Weights
  <2>4. Half * (Half * w) = Radix * w
    <3> HIDE DEF w
    <3> QED BY <1>1, <2>2
  <2> QED BY <2>2, <2>3, <2>4
<1>5. 0 \in T
  <2>1. HalfBits * 0 = 0
    BY <1>1
  <2>2. Power(2, 0) = 1
    BY PowerIs
  <2> QED BY <2>1, <2>2, <1>2
<1>6. ASSUME NEW n \in Nat, n \in T
      PROVE  n + 1 \in T
  <2> DEFINE e == HalfBits * n
  <2>1. HalfBits * (n + 1) = HalfBits + e /\ e \in Nat
    BY <1>1
  <2> HIDE DEF e
  <2>2. Power(2, HalfBits + e) = Power(2, HalfBits) * Power(2, e)
    BY <1>1, <2>1, PowerSum
  <2>3. Power(2, e) = Power(Half, n)
    BY <1>6 DEF e
  <2>4. Power(2, HalfBits * (n + 1)) = Power(Half, n + 1)
    BY <1>2, <2>1, <2>2, <2>3 DEF Half
  <2> QED BY <2>4
<1>7. \A n \in Nat : n \in S /\ n \in T
  <2> HIDE DEF S, T
  <2> QED BY <1>3, <1>4, <1>5, <1>6, Induction
<1>8. ASSUME NEW n \in Nat
      PROVE  Power(Half, 2 * n) = Power(Radix, n) /\ Power(2, HalfBits * n) = Power(Half, n)
  BY <1>7
<1>9. ASSUME NEW n \in Nat
      PROVE  Power(Half, 2 * n + 1) = Half * Power(Radix, n)
  <2>1. 2 * n \in Nat
    OBVIOUS
  <2> QED BY <2>1, <1>2, <1>8
<1> QED BY <1>2, <1>8, <1>9

LEMMA HalfWordIs ==
    ASSUME NEW c \in Seq(Digit)
    PROVE  /\ \A i \in Nat : HalfWord(c, i) = (Magnitude(c) \div Power(Half, i)) % Half
           /\ \A i \in Int : i < 0 => HalfWord(c, i) = 0
           /\ \A i \in Int : HalfWord(c, i) \in Nat /\ HalfWord(c, i) < Half
<1>1. Half \in Nat /\ Half > 0 /\ Radix = Half * Half /\ Radix > 0
  BY Words
<1>2. ASSUME NEW i \in Int, i < 0
      PROVE  HalfWord(c, i) = 0
  BY <1>2 DEF HalfWord
<1> DEFINE m == Magnitude(c)
<1>3. ASSUME NEW i \in Nat
      PROVE  HalfWord(c, i) = (m \div Power(Half, i)) % Half
  <2> DEFINE n == i \div 2
             b == i % 2
             w == Power(Radix, n)
             q == m \div w
             d == At(c, n + 1)
  <2>1. n \in Nat /\ b \in {0, 1} /\ i = 2 * n + b
    <3>1. n \in Nat /\ b \in Nat /\ b < 2 /\ i = 2 * n + b
      BY DivMod
    <3> QED BY <3>1
  <2>2. HalfWord(c, i) = IF b = 0 THEN d % Half ELSE d \div Half
    BY DEF HalfWord
  <2> HIDE DEF n, b
  <2>3. w \in Nat /\ w > 0 /\ m \in Nat
    BY <2>1, Weights, MagnitudeIs
  <2>4. d = q % Radix
    BY <2>1, AtMagnitude
  <2> HIDE DEF w, m
  <2>5. q \in Nat
    BY <2>3, DivMod
  <2> HIDE DEF q
  <2>6. d % Half = q % Half
    <3>1. Splits(Radix, Half, Half)
      BY <1>1 DEF Splits
    <3>2. ModOf(q, Radix, Half)
      BY <2>5, <3>1, ModMod
    <3> QED BY <2>4, <3>2 DEF ModOf
  <2>7. d \div Half = (q \div Half) % Half
    <3> DEFINE x == q % Half
               y == (q \div Half) % Half
    <3>1. q % (Half * Half) = (q % Half) + ((q \div Half) % Half) * Half
      BY <1>1, <2>5, ModSplit
    <3>2. x \in Nat /\ x < Half
      BY <1>1, <2>5, DivMod
    <3>3. y \in Nat
      <4>1. q \div Half \in Nat
        BY <1>1, <2>5, DivMod
      <4> DEFINE z == q \div Half
      <4> HIDE DEF z
      <4>2. z % Half \in Nat
        BY <4>1, <1>1, DivMod DEF z
      <4> QED BY <4>2 DEF z
    <3>4. d = x + y * Half
      BY <1>1, <2>4, <3>1
    <3> HIDE DEF x, y, d
    <3>5. d = Half * y + x /\ d \in Int
      BY <1>1, <3>2, <3>3, <3>4
    <3>6. d \div Half = y
      BY <1>1, <3>2, <3>3, <3>5, DivUnique
    <3> QED BY <3>6 DEF y
  <2>8. CASE b = 0
    <3>1. Power(Half, i) = w
      BY <2>1, <2>8, HalfPowers DEF w
    <3> QED BY <2>2, <2>6, <2>8, <3>1 DEF q
  <2>9. CASE b = 1
    <3>1. Power(Half, i) = Half * w
      BY <2>1, <2>9, HalfPowers DEF w
    <3>2. m \div (Half * w) = q \div Half
      BY <1>1, <2>3, ModSplit DEF q
    <3>3. HalfWord(c, i) = d \div Half
      BY <2>2, <2>9
    <3> QED BY <2>7, <3>1, <3>2, <3>3
  <2> QED BY <2>1, <2>8, <2>9
<1>4. ASSUME NEW i \in Nat
      PROVE  HalfWord(c, i) \in Nat /\ HalfWord(c, i) < Half
  <2> DEFINE w == Power(Half, i)
             q == m \div w
  <2>1. w \in Nat /\ w > 0 /\ m \in Nat
    BY HalfPowers, MagnitudeIs
  <2> HIDE DEF w, m
  <2>2. q \in Nat
    BY <2>1, DivMod
  <2> HIDE DEF q
  <2>3. q % Half \in Nat /\ q % Half < Half
    BY <2>2, <1>1, DivMod
  <2> QED BY <2>3, <1>3 DEF q, w
<1>5. ASSUME NEW i \in Int
      PROVE  HalfWord(c, i) \in Nat /\ HalfWord(c, i) < Half
  <2>1. CASE i < 0
    BY <1>1, <1>2, <2>1
  <2>2. CASE i >= 0
    <3>1. i \in Nat
      BY <2>2
    <3> QED BY <1>4, <3>1
  <2> QED BY <2>1, <2>2
<1> QED BY <1>2, <1>3, <1>5 DEF m

Shifted(m, bits) == IF bits < 0 THEN m \div Power(2, -bits) ELSE m * Power(2, bits)

LEMMA ShiftedIs ==
    ASSUME NEW m \in Nat, NEW bits \in Int
    PROVE  Shifted(m, bits) \in Nat
<1>1. CASE bits < 0
  <2>1. Power(2, -bits) \in Nat /\ Power(2, -bits) > 0
    BY <1>1, PowerIs, PowerPositive
  <2> DEFINE p == Power(2, -bits)
  <2> HIDE DEF p
  <2>2. m \div p \in Nat
    BY <2>1, DivMod DEF p
  <2> QED BY <1>1, <2>2 DEF Shifted, p
<1>2. CASE bits >= 0
  <2>1. Power(2, bits) \in Nat
    BY <1>2, PowerIs
  <2> DEFINE p == Power(2, bits)
  <2> HIDE DEF p
  <2>2. m * p \in Nat
    BY <2>1 DEF p
  <2> QED BY <1>2, <2>2 DEF Shifted, p
<1> QED BY <1>1, <1>2

(* The half words of the result. *)
DestHalf(c, bits, i) ==
    LET wordShift == Abs(bits) \div HalfBits
        bitShift == Abs(bits) % HalfBits
        Left(j) == HalfWord(c, j) * Power(2, bitShift)
        Right(j) == (HalfWord(c, j) * Half) \div Power(2, bitShift)
    IN  IF bits < 0
        THEN (Right(i + wordShift) \div Half) + (Right(i + wordShift + 1) % Half)
        ELSE (Left(i - wordShift) % Half) + (Left(i - wordShift - 1) \div Half)

LEMMA DestHalfIs ==
    ASSUME NEW c \in Seq(Digit), NEW bits \in Int, NEW i \in Nat
    PROVE  DestHalf(c, bits, i) = (Shifted(Magnitude(c), bits) \div Power(Half, i)) % Half
<1> DEFINE a == Abs(bits)
           ws == a \div HalfBits
           bs == a % HalfBits
           p == Power(2, bs)
           t == Power(2, HalfBits - bs)
           m == Magnitude(c)
           H(j) == HalfWord(c, j)
<1>1. HalfBits \in Nat /\ HalfBits > 0 /\ Half \in Nat /\ Half > 0
  BY Words, WordAssumption
<1>2. a \in Nat
  BY DEF Abs
<1>3. DestHalf(c, bits, i) = IF bits < 0
         THEN (((H(i + ws) * Half) \div p) \div Half) + (((H(i + ws + 1) * Half) \div p) % Half)
         ELSE ((H(i - ws) * p) % Half) + ((H(i - ws - 1) * p) \div Half)
  BY DEF DestHalf
<1> HIDE DEF a
<1>4. ws \in Nat /\ bs \in Nat /\ bs < HalfBits /\ a = HalfBits * ws + bs
  BY <1>1, <1>2, DivMod
<1> HIDE DEF ws, bs
<1>5. p \in Nat /\ p > 0 /\ t \in Nat /\ t > 0 /\ Half = p * t
  <2>1. HalfBits - bs \in Nat /\ bs + (HalfBits - bs) = HalfBits
    BY <1>1, <1>4
  <2>2. Power(2, bs + (HalfBits - bs)) = Power(2, bs) * Power(2, HalfBits - bs)
    BY <1>4, <2>1, PowerSum
  <2> QED BY <1>4, <2>1, <2>2, PowerIs, PowerPositive DEF Half
<1>6. Splits(Half, p, t)
  BY <1>1, <1>5 DEF Splits
<1>7. Power(2, a) = p * Power(Half, ws)
  <2> DEFINE e == HalfBits * ws
  <2>1. e \in Nat /\ a = e + bs
    BY <1>1, <1>4
  <2> HIDE DEF e
  <2>2. Power(2, e + bs) = Power(2, e) * Power(2, bs)
    BY <1>4, <2>1, PowerSum
  <2>3. Power(2, e) = Power(Half, ws) /\ Power(Half, ws) \in Nat
    BY <1>4, HalfPowers DEF e
  <2> DEFINE w == Power(Half, ws)
  <2>4. w * p = p * w
    <3> HIDE DEF w, p
    <3> QED BY <1>5, <2>3 DEF w
  <2> QED BY <2>1, <2>2, <2>3, <2>4
<1>8. m \in Nat
  BY MagnitudeIs
<1> DEFINE W(j) == Power(Half, j)
<1>9. \A j \in Nat : W(j) \in Nat /\ W(j) > 0 /\ W(j + 1) = Half * W(j)
  BY HalfPowers
<1>10. \A j \in Nat : H(j) = (m \div W(j)) % Half
  BY HalfWordIs
<1>11. \A j \in Int : j < 0 => H(j) = 0
  BY HalfWordIs
<1>12. \A j, k1 \in Nat : W(j + k1) = W(j) * W(k1)
  BY <1>1, PowerSum
<1>13. W(0) = 1
  BY HalfPowers
<1>14. 0 * p = 0 /\ 0 % Half = 0 /\ 0 \div Half = 0
  <2>1. Half * 0 = 0
    BY <1>1
  <2>2. (Half * 0) \div Half = 0 /\ (Half * 0) % Half = 0
    BY <1>1, DivExact
  <2>3. 0 * p = 0
    <3> HIDE DEF p
    <3> QED BY <1>5
  <2> QED BY <2>1, <2>2, <2>3
<1>15. Shifted(m, bits) = IF bits < 0 THEN m \div (p * W(ws)) ELSE m * (p * W(ws))
  <2>1. bits < 0 => a = -bits
    BY DEF a, Abs
  <2>2. ~ (bits < 0) => a = bits
    BY DEF a, Abs
  <2> QED BY <1>7, <2>1, <2>2 DEF Shifted
<1> DEFINE D == DestHalf(c, bits, i)
           S == Shifted(m, bits)
<1> HIDE DEF p, t, m, H, W
<1>16. CASE bits < 0
  <2> DEFINE j == i + ws
             w == W(j)
  <2>1. j \in Nat /\ i + ws + 1 = j + 1
    BY <1>4
  <2> HIDE DEF j
  <2>2. w \in Nat /\ w > 0 /\ W(j + 1) = Half * w
    BY <1>9, <2>1
  <2> HIDE DEF w
  <2>3. (m \div (p * w)) % Half
              = (((((m \div w) % Half) * Half) \div p) \div Half) + (((((m \div (Half * w)) % Half) * Half) \div p) % Half)
    BY <1>6, <1>8, <2>2, RightDigit
  <2>4. H(j) = (m \div w) % Half /\ H(j + 1) = (m \div (Half * w)) % Half
    BY <1>10, <2>1, <2>2 DEF w
  <2>5. D = (((H(j) * Half) \div p) \div Half) + (((H(j + 1) * Half) \div p) % Half)
    BY <1>3, <1>16, <2>1 DEF j
  <2>6. D = (m \div (p * w)) % Half
    BY <2>3, <2>4, <2>5
  <2>7. S \div W(i) = m \div (p * w)
    <3> DEFINE x == p * W(ws)
    <3>1. x \in Nat /\ x > 0 /\ W(i) \in Nat /\ W(i) > 0 /\ W(ws) \in Nat
      <4>1. W(ws) \in Nat /\ W(ws) > 0
        BY <1>4, <1>9
      <4> DEFINE v == W(ws)
      <4>2. v \in Nat /\ v > 0
        BY <4>1
      <4> HIDE DEF v
      <4>3. p * v \in Nat /\ p * v > 0
        BY <1>5, <4>2
      <4> QED BY <1>9, <4>1, <4>3 DEF v
    <3>2. w = W(ws) * W(i)
      <4>1. ws + i = j
        BY <1>4 DEF j
      <4>2. W(ws + i) = W(ws) * W(i)
        BY <1>4, <1>12
      <4> QED BY <4>1, <4>2 DEF w
    <3>3. W(i) * x = p * w
      BY <1>5, <3>1, <3>2
    <3> HIDE DEF x
    <3>4. m \div (W(i) * x) = (m \div x) \div W(i)
      BY <1>8, <3>1, ModSplit
    <3>5. S = m \div x
      BY <1>15, <1>16 DEF x
    <3> HIDE DEF S
    <3> QED BY <3>3, <3>4, <3>5
  <2>8. D = (S \div W(i)) % Half
    <3> HIDE DEF D, S
    <3> QED BY <2>6, <2>7
  <2> QED BY <2>8 DEF m, W
<1>17. CASE ~ (bits < 0)
  <2> DEFINE x == m * p
             w == W(ws)
  <2>1. w \in Nat /\ w > 0 /\ x \in Nat
    BY <1>4, <1>5, <1>8, <1>9
  <2>2. S = x * w /\ S \in Nat
    <3>1. S = m * (p * W(ws))
      BY <1>15, <1>17
    <3> HIDE DEF S
    <3>2. m * (p * w) = (m * p) * w
      BY <1>5, <1>8, <2>1
    <3> QED BY <2>1, <3>1, <3>2
  <2>3. D = ((H(i - ws) * p) % Half) + ((H(i - ws - 1) * p) \div Half)
    BY <1>3, <1>17
  <2> HIDE DEF D, S, x, w
  <2>4. CASE i < ws
    <3> DEFINE b == ws - i
               y == W(b - 1)
               z == W(i)
    <3>1. b \in Nat /\ b - 1 \in Nat /\ (b - 1) + 1 = b /\ i + b = ws
      BY <1>4, <2>4
    <3> HIDE DEF b
    <3>2. y \in Nat /\ z \in Nat /\ z > 0 /\ w = z * (Half * y)
      <4>1. W((b - 1) + 1) = Half * W(b - 1) /\ W(b - 1) \in Nat
        BY <1>9, <3>1
      <4>2. W(i + b) = W(i) * W(b)
        BY <1>12, <3>1
      <4> QED BY <1>9, <3>1, <4>1, <4>2 DEF w
    <3> HIDE DEF y, z
    <3> DEFINE g == x * y
               f == Half * g
    <3>3. g \in Nat /\ f \in Nat /\ S = z * f
      <4>1. g \in Nat
        BY <2>1, <3>2
      <4>2. x * (z * (Half * y)) = z * (Half * (x * y))
        BY <1>1, <2>1, <3>2
      <4> QED BY <1>1, <2>2, <3>2, <4>1, <4>2
    <3> HIDE DEF g
    <3>4. f % Half = 0
      BY <1>1, <3>3, DivExact
    <3> HIDE DEF f
    <3>5. S \div z = f
      BY <3>2, <3>3, DivExact
    <3>6. H(i - ws) = 0 /\ H(i - ws - 1) = 0
      <4>1. i - ws \in Int /\ i - ws < 0 /\ i - ws - 1 \in Int /\ i - ws - 1 < 0
        BY <1>4, <2>4
      <4> QED BY <1>11, <4>1
    <3>7. D = 0
      BY <1>14, <2>3, <3>6
    <3> QED BY <3>4, <3>5, <3>7 DEF D, S, m, W, z
  <2>5. CASE i = ws
    <3>1. i - ws = 0 /\ i - ws - 1 = -1
      BY <1>4, <2>5
    <3>2. H(i - ws - 1) = 0
      BY <1>11, <3>1
    <3>3. H(i - ws) = m % Half
      <4>1. H(0) = (m \div 1) % Half
        BY <1>10, <1>13
      <4>2. m \div 1 = m
        <5>1. m = 1 * m + 0
          BY <1>8
        <5> QED BY <1>8, <5>1, DivUnique
      <4> QED BY <3>1, <4>1, <4>2
    <3>4. (m * p) % Half = ((m % Half) * p) % Half
      BY <1>6, <1>8, LeftDigitFirst
    <3>5. S \div w = x
      BY <2>1, <2>2, DivExact
    <3>6. x % Half \in Nat
      BY <1>1, <2>1, DivMod
    <3>7. D = x % Half
      <4>1. D = (((m % Half) * p) % Half) + 0
        BY <1>14, <2>3, <3>2, <3>3
      <4>2. ((m % Half) * p) % Half = x % Half
        BY <3>4 DEF x
      <4> DEFINE v == x % Half
      <4> HIDE DEF v
      <4>3. D = v + 0 /\ v \in Nat
        BY <3>6, <4>1, <4>2 DEF v
      <4>4. D = v
        BY <4>3
      <4> QED BY <4>4 DEF v
    <3> QED BY <2>5, <3>5, <3>7 DEF D, S, m, W, w
  <2>6. CASE i > ws
    <3> DEFINE j == i - ws
               u == W(j - 1)
    <3>1. j \in Nat /\ j - 1 \in Nat /\ (j - 1) + 1 = j /\ ws + j = i /\ i - ws - 1 = j - 1
      BY <1>4, <2>6
    <3> HIDE DEF j
    <3>2. u \in Nat /\ u > 0 /\ W(j) = Half * u
      <4>1. W((j - 1) + 1) = Half * W(j - 1) /\ W(j - 1) \in Nat /\ W(j - 1) > 0
        BY <1>9, <3>1
      <4> QED BY <3>1, <4>1
    <3> HIDE DEF u
    <3>3. ((m * p) \div (Half * u)) % Half
              = ((((m \div (Half * u)) % Half) * p) % Half) + ((((m \div u) % Half) * p) \div Half)
      BY <1>6, <1>8, <3>2, LeftDigit
    <3>4. H(j) = (m \div (Half * u)) % Half /\ H(j - 1) = (m \div u) % Half
      BY <1>10, <3>1, <3>2 DEF u
    <3>5. D = ((H(j) * p) % Half) + ((H(j - 1) * p) \div Half)
      BY <2>3, <3>1 DEF j
    <3>6. D = (x \div (Half * u)) % Half
      BY <3>3, <3>4, <3>5 DEF x
    <3>7. S \div W(i) = x \div W(j)
      <4>1. W(ws + j) = W(ws) * W(j)
        BY <1>4, <1>12, <3>1
      <4>2. W(j) \in Nat /\ W(j) > 0
        BY <1>9, <3>1
      <4> DEFINE y == W(j)
      <4> HIDE DEF y
      <4>3. W(i) = y * w /\ y \in Nat /\ y > 0
        BY <2>1, <3>1, <4>1, <4>2 DEF w, y
      <4>4. S \div (y * w) = (S \div w) \div y
        BY <2>1, <2>2, <4>3, ModSplit
      <4>5. S \div w = x
        BY <2>1, <2>2, DivExact
      <4> QED BY <4>3, <4>4, <4>5 DEF y
    <3> QED BY <3>2, <3>6, <3>7 DEF D, S, m, W
  <2> QED BY <1>4, <2>4, <2>5, <2>6
<1> QED BY <1>16, <1>17

(* What the shift of the cells leaves is the number shifted. *)
LEMMA ShiftedCells ==
    ASSUME NEW c \in Seq(Digit), NEW bits \in Int, NEW len \in Nat
    PROVE  ShiftBignumWords(c, bits, len) = Cells(Shifted(Magnitude(c), bits), len)
<1> DEFINE s == Shifted(Magnitude(c), bits)
<1>1. s \in Nat
  BY ShiftedIs, MagnitudeIs
<1>2. ShiftBignumWords(c, bits, len) =
         [i \in 1 .. len |-> DestHalf(c, bits, 2 * i - 2) + Half * DestHalf(c, bits, 2 * i - 1)]
  BY DEF ShiftBignumWords, DestHalf
<1>3. ASSUME NEW i \in 1 .. len
      PROVE  DestHalf(c, bits, 2 * i - 2) + Half * DestHalf(c, bits, 2 * i - 1)
                = (s \div Power(Radix, i - 1)) % Radix
  <2> DEFINE n == i - 1
             w == Power(Radix, n)
             x == s \div w
             a == x % Half
             b == (x \div Half) % Half
  <2>1. n \in Nat /\ 2 * i - 2 = 2 * n /\ 2 * i - 1 = 2 * n + 1 /\ 2 * n \in Nat /\ 2 * n + 1 \in Nat
    OBVIOUS
  <2> HIDE DEF n
  <2>2. w \in Nat /\ w > 0 /\ Power(Half, 2 * n) = w /\ Power(Half, 2 * n + 1) = Half * w
    BY <2>1, Weights, HalfPowers
  <2>3. Half \in Nat /\ Half > 0 /\ Radix = Half * Half
    BY Words
  <2>4. DestHalf(c, bits, 2 * n) = (s \div Power(Half, 2 * n)) % Half
    BY <2>1, DestHalfIs
  <2>5. DestHalf(c, bits, 2 * n + 1) = (s \div Power(Half, 2 * n + 1)) % Half
    BY <2>1, DestHalfIs
  <2> HIDE DEF s, w
  <2>6. s \div (Half * w) = x \div Half
    BY <1>1, <2>2, <2>3, ModSplit
  <2>7. x \in Nat
    BY <1>1, <2>2, DivMod
  <2> HIDE DEF x
  <2>8. x % (Half * Half) = (x % Half) + ((x \div Half) % Half) * Half
    BY <2>3, <2>7, ModSplit
  <2>9. a \in Nat /\ b \in Nat
    <3>1. x \div Half \in Nat
      BY <2>3, <2>7, DivMod
    <3> DEFINE y == x \div Half
    <3> HIDE DEF y
    <3>2. y % Half \in Nat
      BY <2>3, <3>1, DivMod DEF y
    <3> QED BY <2>3, <2>7, <3>2, DivMod DEF y
  <2>10. x % Radix = a + b * Half
    BY <2>3, <2>8
  <2>11. DestHalf(c, bits, 2 * n) = a /\ DestHalf(c, bits, 2 * n + 1) = b
    BY <2>2, <2>4, <2>5, <2>6 DEF x
  <2> HIDE DEF a, b
  <2>12. a + Half * b = a + b * Half
    BY <2>3, <2>9
  <2> QED BY <2>1, <2>10, <2>11, <2>12 DEF x, w, n
<1>4. Cells(s, len) = [i \in 1 .. len |-> (s \div Power(Radix, i - 1)) % Radix]
  BY DEF Cells
<1> HIDE DEF s
<1> QED BY <1>2, <1>3, <1>4 DEF s

LEMMA MaxOfTwoInts ==
    ASSUME NEW m \in Int, NEW n \in Int
    PROVE  Max({m, n}) \in Int /\ Max({m, n}) >= m /\ Max({m, n}) >= n
<1>1. \E x \in {m, n} : \A y \in {m, n} : x >= y
  OBVIOUS
<1> QED BY <1>1 DEF Max

LEMMA AddedMagnitude ==
    ASSUME NEW c \in Seq(Digit), NEW d \in Seq(Digit), NEW len \in Nat,
           len >= Len(c), len >= Len(d), Magnitude(c) + Magnitude(d) < Power(Radix, len)
    PROVE  /\ AddBignumWords(c, d, len) \in Seq(Digit)
           /\ Len(AddBignumWords(c, d, len)) = len
           /\ Magnitude(AddBignumWords(c, d, len)) = Magnitude(c) + Magnitude(d)
<1> DEFINE s == AddBignumWords(c, d, len)
           x == Magnitude(c)
           y == Magnitude(d)
           z == Carry(c, d)[len]
           v == Magnitude(s)
           w == Power(Radix, len)
<1>1. s \in Seq(Digit) /\ Len(s) = len /\ Value(s, len) + z * w = Value(c, len) + Value(d, len)
  BY AddedWords
<1> HIDE DEF s
<1>2. Value(s, len) = v /\ Value(c, len) = x /\ Value(d, len) = y
  BY <1>1, MagnitudeIs
<1>3. v \in Nat /\ x \in Nat /\ y \in Nat /\ w \in Nat /\ z \in {0, 1}
  BY <1>1, MagnitudeIs, Weights, CarryIs
<1>4. x + y < w
  OBVIOUS
<1> HIDE DEF x, y, z, v, w
<1>5. z # 1
  BY <1>1, <1>2, <1>3, <1>4
<1>6. z = 0
  BY <1>3, <1>5
<1>7. v = x + y
  BY <1>1, <1>2, <1>3, <1>6
<1> QED BY <1>1, <1>7 DEF v, s, x, y

LEMMA One == /\ <<1>> \in Seq(Digit) /\ Len(<<1>>) = 1 /\ Magnitude(<<1>>) = 1
<1> DEFINE c == <<1>>
<1>1. c \in Seq(Digit) /\ Len(c) = 1 /\ c[1] = 1
  BY Words DEF Digit
<1> HIDE DEF c
<1>2. 1 \in 1 .. Len(c)
  BY <1>1
<1>3. Value(c, 0 + 1) = Value(c, 0) + At(c, 0 + 1) * Power(Radix, 0)
  BY <1>1, ValueIs
<1>4. Value(c, 0) = 0 /\ Power(Radix, 0) = 1 /\ At(c, 1) = 1
  BY <1>1, <1>2, ValueIs, Weights, AtIs
<1>5. Magnitude(c) = 1
  BY <1>1, <1>3, <1>4 DEF Magnitude
<1> QED BY <1>1, <1>5 DEF c

(* A word has 2 * HalfBits bits. *)
LEMMA WordBits == \A n \in Nat : Power(2, (2 * HalfBits) * n) = Power(Radix, n)
<1> TAKE n \in Nat
<1>1. (2 * HalfBits) * n = HalfBits * (2 * n) /\ 2 * n \in Nat
  BY WordAssumption
<1>2. Power(2, HalfBits * (2 * n)) = Power(Half, 2 * n)
  BY <1>1, HalfPowers
<1>3. Power(Half, 2 * n) = Power(Radix, n)
  BY HalfPowers
<1> QED BY <1>1, <1>2, <1>3

LEMMA BignumShiftIs ==
    ASSUME NEW a, IsBignum(a), NEW bits \in Int
    PROVE  LET s == Shifted(Magnitude(a.cells), bits)
           IN  /\ BignumShift(a, bits, FALSE) = Canonical(s)
               /\ BignumShift(a, bits, TRUE) = Canonical(IF a.neg THEN -(s + 1) ELSE s)
<1> DEFINE c == a.cells
           m == Magnitude(c)
           s == Shifted(m, bits)
           w == 2 * HalfBits
           bl == w * Len(c)
           mx == Max({bl + bits, 1})
           len == (mx + w - 1) \div w
           d == ShiftBignumWords(c, bits, len)
<1>1. c \in Seq(Digit) /\ a.neg \in BOOLEAN /\ Len(c) \in Nat
  BY DEF IsBignum
<1>2. w \in Nat /\ w > 0
  BY WordAssumption
<1>3. bl \in Nat /\ Power(2, bl) = Power(Radix, Len(c)) /\ m \in Nat /\ m < Power(2, bl)
  <2>1. bl \in Nat
    <3> HIDE DEF w, c
    <3> QED BY <1>1, <1>2
  <2>2. Power(2, bl) = Power(Radix, Len(c))
    <3> HIDE DEF c
    <3> QED BY <1>1, WordBits
  <2>3. m \in Nat /\ m < Power(Radix, Len(c))
    <3> HIDE DEF c
    <3> QED BY <1>1, MagnitudeIs
  <2> QED BY <2>1, <2>2, <2>3
<1>4. /\ BignumShift(a, bits, FALSE) = Normalize(FALSE, d)
      /\ BignumShift(a, bits, TRUE) = IF a.neg THEN Normalize(TRUE, AddBignumWords(d, <<1>>, len + 1))
                                      ELSE Normalize(FALSE, d)
  BY DEF BignumShift
<1> HIDE DEF c, bl
<1>5. mx \in Int /\ mx >= bl + bits /\ mx >= 1
  <2>1. bl + bits \in Int
    BY <1>3
  <2> QED BY <2>1, MaxOfTwoInts
<1> HIDE DEF w, mx
<1>6. len \in Nat /\ len >= 1 /\ w * len >= mx
  <2> DEFINE n == mx + w - 1
             r == n % w
  <2>1. n \in Int /\ n >= w /\ n >= 0
    BY <1>2, <1>5
  <2> HIDE DEF n
  <2>2. n \div w \in Nat /\ r \in Nat /\ r < w /\ n = w * (n \div w) + r
    BY <1>2, <2>1, DivMod
  <2>3. len = n \div w
    BY DEF n
  <2> HIDE DEF len, r
  <2>4. n = w * len + r /\ len \in Nat
    BY <2>2, <2>3
  <2>5. w * len >= mx
    <3> DEFINE x == w * len
    <3>1. x \in Nat /\ n = x + r
      BY <1>2, <2>4
    <3> HIDE DEF x
    <3>2. x >= mx
      BY <1>2, <1>5, <2>2, <3>1 DEF n
    <3> QED BY <3>2 DEF x
  <2>6. len # 0
    BY <1>2, <1>5, <2>5
  <2> QED BY <2>4, <2>5, <2>6
<1> HIDE DEF len
<1>7. s \in Nat
  BY <1>3, ShiftedIs
<1>8. s < Power(Radix, len)
  <2> DEFINE e == w * len
  <2>1. e \in Nat /\ Power(2, e) = Power(Radix, len) /\ e >= bl + bits
    <3>1. e \in Nat
      BY <1>2, <1>6
    <3>2. Power(2, e) = Power(Radix, len)
      BY <1>6, WordBits DEF w
    <3>3. e >= bl + bits
      <4> HIDE DEF e
      <4> QED BY <1>3, <1>5, <1>6, <3>1 DEF e
    <3> QED BY <3>1, <3>2, <3>3
  <2> HIDE DEF e
  <2>2. Power(2, e) \in Nat /\ Power(2, e) > 0
    BY <2>1, PowerIs, PowerPositive
  <2>3. CASE ~ (bits < 0)
    <3> DEFINE p == Power(2, bits)
               q == Power(2, bl)
    <3>0. bits \in Nat
      BY <2>3
    <3>9. p \in Nat /\ p > 0
      BY <3>0, PowerIs, PowerPositive
    <3>8. q \in Nat
      BY <1>3, PowerIs
    <3>1. p \in Nat /\ p > 0 /\ q \in Nat /\ bits \in Nat
      BY <3>0, <3>8, <3>9
    <3>2. Power(2, bl + bits) = q * p
      BY <1>3, <3>1, PowerSum
    <3>3. Power(2, bl + bits) <= Power(2, e)
      BY <1>3, <2>1, <3>1, PowerGrows
    <3>4. s = m * p
      BY <2>3 DEF Shifted
    <3>5. m < q
      BY <1>3
    <3> HIDE DEF p, q, m, s
    <3>6. m * p < q * p
      BY <1>3, <3>1, <3>5
    <3> QED BY <2>1, <2>2, <1>7, <3>1, <3>2, <3>3, <3>4, <3>6
  <2>4. CASE bits < 0
    <3> DEFINE p == Power(2, -bits)
    <3>1. p \in Nat /\ p > 0 /\ -bits \in Nat
      BY <2>4, PowerIs, PowerPositive
    <3>2. s = m \div p
      BY <2>4 DEF Shifted
    <3>3. CASE bl + bits >= 0
      <4> DEFINE r == bl + bits
                 q == Power(2, r)
      <4>1. r \in Nat /\ (-bits) + r = bl
        BY <1>3, <3>3
      <4> HIDE DEF r
      <4>2. Power(2, (-bits) + r) = p * q /\ q \in Nat
        BY <3>1, <4>1, PowerSum, PowerIs
      <4>3. q <= Power(2, e)
        BY <2>1, <4>1, PowerGrows DEF r
      <4>4. m < p * q
        BY <1>3, <4>1, <4>2
      <4> HIDE DEF m, p, q, s
      <4>5. m \div p < q
        BY <1>3, <3>1, <4>2, <4>4, DivBound
      <4> QED BY <2>1, <2>2, <1>7, <3>2, <4>2, <4>3, <4>5
    <3>4. CASE ~ (bl + bits >= 0)
      <4>1. Power(2, bl) <= p
        BY <1>3, <3>1, <3>4, PowerGrows
      <4> DEFINE q == Power(2, bl)
      <4>4. q \in Nat /\ m < q /\ q <= p
        BY <1>3, <4>1, PowerIs
      <4> HIDE DEF m, p, s, q
      <4>2. m < p * 1
        BY <1>3, <3>1, <4>4
      <4>3. m \div p < 1
        BY <1>3, <3>1, <4>2, DivBound
      <4> QED BY <2>1, <2>2, <1>7, <3>2, <4>3
    <3> QED BY <1>3, <3>3, <3>4
  <2> QED BY <2>3, <2>4
<1>9. d \in Seq(Digit) /\ Len(d) = len /\ Magnitude(d) = s
  <2>1. d = Cells(s, len)
    BY <1>1, <1>6, ShiftedCells
  <2> HIDE DEF s, d
  <2> QED BY <1>6, <1>7, <1>8, <2>1, CellsAre, CellsMagnitude
<1> HIDE DEF d, s
<1>10. Normalize(FALSE, d) = Canonical(s)
  <2>1. Normalize(FALSE, d) = Canonical(Signed(FALSE, d))
    BY <1>9, NormalizeIs
  <2> QED BY <1>9, <2>1 DEF Signed
<1>11. Normalize(TRUE, AddBignumWords(d, <<1>>, len + 1)) = Canonical(-(s + 1))
  <2> DEFINE o == <<1>>
             l == len + 1
             b == AddBignumWords(d, o, l)
  <2>1. o \in Seq(Digit) /\ Len(o) = 1 /\ Magnitude(o) = 1
    BY One
  <2>2. l \in Nat /\ l >= Len(d) /\ l >= Len(o) /\ l = len + 1
    BY <1>6, <1>9, <2>1
  <2> HIDE DEF o, l
  <2>3. Magnitude(d) + Magnitude(o) < Power(Radix, l)
    <3> DEFINE x == Power(Radix, len)
    <3>1. Power(Radix, l) = Radix * x /\ x \in Nat /\ x > 0 /\ Radix \in Nat /\ Radix >= 2
      BY <1>6, <2>2, Weights, Words
    <3>2. s < x
      BY <1>8
    <3> HIDE DEF x
    <3>3. Radix * x >= 2 * x
      BY <3>1
    <3>4. Radix * x \in Nat
      BY <3>1
    <3> QED BY <1>7, <1>9, <2>1, <3>1, <3>2, <3>3, <3>4
  <2>4. b \in Seq(Digit) /\ Magnitude(b) = s + 1
    BY <1>9, <2>1, <2>2, <2>3, AddedMagnitude
  <2> HIDE DEF b
  <2>5. Normalize(TRUE, b) = Canonical(Signed(TRUE, b))
    BY <2>4, NormalizeIs
  <2> QED BY <2>4, <2>5 DEF Signed, b, o, l
<1> QED BY <1>1, <1>4, <1>10, <1>11 DEF s, m, c

AshMeant(n, bits) ==
    IF bits >= 0 THEN n * Power(2, bits) ELSE n \div Power(2, -bits)

(* What a shift to the right drops of a negative number. *)
LEMMA NegativeQuotient ==
    ASSUME NEW m \in Nat, NEW p \in Nat, p > 0
    PROVE  /\ (-m) % p = 0 => (-m) \div p = -(m \div p)
           /\ (-m) % p # 0 => (-m) \div p = -((m \div p) + 1)
<1> DEFINE q == m \div p
           r == m % p
           n == -m
<1>1. q \in Nat /\ r \in Nat /\ r < p /\ m = p * q + r
  BY DivMod
<1>2. n \in Int
  OBVIOUS
<1> HIDE DEF q, r
<1>3. CASE r = 0
  <2> DEFINE x == -q
  <2>1. x \in Int /\ x + q = 0
    BY <1>1
  <2>2. n = p * x + 0
    <3>1. n + p * q = 0
      <4> DEFINE y == p * q
      <4>1. y \in Nat /\ m = y
        BY <1>1, <1>3
      <4> HIDE DEF y
      <4> QED BY <4>1 DEF y
    <3> HIDE DEF n, x
    <3>2. p * x + p * q = 0
      <4>1. p * (x + q) = p * x + p * q
        BY <1>1, <2>1
      <4>2. p * (x + q) = 0
        BY <2>1
      <4> QED BY <4>1, <4>2
    <3> DEFINE y == p * q
               z == p * x
    <3>3. y \in Int /\ z \in Int
      BY <1>1, <2>1
    <3>4. n + y = 0 /\ z + y = 0
      BY <3>1, <3>2
    <3> HIDE DEF y, z
    <3>5. n = z
      BY <1>2, <3>3, <3>4
    <3> QED BY <3>3, <3>5 DEF z
  <2> HIDE DEF n, x
  <2>3. n \div p = x /\ n % p = 0
    BY <1>2, <2>1, <2>2, DivUnique
  <2> QED BY <2>3 DEF n, x, q
<1>4. CASE r # 0
  <2> DEFINE x == -(q + 1)
             s == p - r
  <2>1. x \in Int /\ x + q = -1 /\ s \in Nat /\ s < p /\ s # 0 /\ s + r = p
    BY <1>1, <1>4
  <2>2. n = p * x + s
    <3> DEFINE y == p * q
               z == p * x
    <3>1. y \in Nat /\ z \in Int /\ m = y + r
      BY <1>1, <2>1
    <3>2. p * (x + q) = z + y
      BY <1>1, <2>1
    <3>3. p * (x + q) = -p
      <4> DEFINE u == x + q
      <4>1. u = -1
        BY <2>1
      <4> HIDE DEF u
      <4>2. p * u = -p
        BY <4>1
      <4> QED BY <4>2 DEF u
    <3> HIDE DEF y, z, x, s
    <3>4. z + y = -p
      BY <3>2, <3>3
    <3>5. n = z + s
      BY <1>1, <2>1, <3>1, <3>4
    <3> QED BY <3>5 DEF z
  <2> HIDE DEF n, x, s
  <2>3. n \div p = x /\ n % p = s
    BY <1>2, <2>1, <2>2, DivUnique
  <2> QED BY <2>1, <2>3 DEF n, x, q
<1> QED BY <1>3, <1>4

LEMMA ShiftedInteger ==
    ASSUME NEW n \in Int, NEW bits \in Int
    PROVE  BignumShift(AsBignum(n), bits, TRUE) = Canonical(AshMeant(n, bits))
              <=> ~ (n < 0 /\ (bits >= 0 \/ n % Power(2, -bits) = 0))
<1> DEFINE a == AsBignum(n)
           m == Magnitude(a.cells)
           s == Shifted(m, bits)
           v == AshMeant(n, bits)
<1>1. IsBignum(a) /\ Number(a) = n /\ a.neg = (n < 0)
  <2>1. a.neg = (n < 0)
    BY DEF AsBignum, FixnumToBignum, Bignum
  <2> QED BY <2>1, AsBignumIs
<1> HIDE DEF a
<1>2. BignumShift(a, bits, TRUE) = Canonical(IF a.neg THEN -(s + 1) ELSE s)
  BY <1>1, BignumShiftIs
<1>3. m \in Nat
  BY <1>1, MagnitudeIs DEF IsBignum
<1>4. n = IF n < 0 THEN -m ELSE m
  BY <1>1 DEF Number, Signed
<1>5. s \in Nat
  BY <1>3, ShiftedIs
<1>6. bits >= 0 => bits \in Nat
  OBVIOUS
<1>7. bits < 0 => -bits \in Nat /\ ~ (bits >= 0)
  OBVIOUS
<1>8. v \in Int
  <2>1. CASE bits >= 0
    <3> DEFINE p == Power(2, bits)
    <3>1. p \in Nat /\ v = n * p
      BY <1>6, <2>1, PowerIs DEF AshMeant
    <3> HIDE DEF p, v
    <3> QED BY <3>1
  <2>2. CASE bits < 0
    <3> DEFINE p == Power(2, -bits)
    <3>1. p \in Nat /\ p > 0
      BY <1>7, <2>2, PowerIs, PowerPositive
    <3>2. v = n \div p
      BY <1>7, <2>2 DEF AshMeant
    <3> HIDE DEF p, v
    <3> QED BY <3>1, <3>2, DivMod
  <2> QED BY <2>1, <2>2
<1> HIDE DEF m
<1>9. CASE ~ (n < 0)
  <2>1. v = s
    <3>1. n = m
      BY <1>4, <1>9
    <3>2. CASE bits >= 0
      BY <1>6, <3>1, <3>2 DEF AshMeant, Shifted
    <3>3. CASE bits < 0
      BY <1>7, <3>1, <3>3 DEF AshMeant, Shifted
    <3> QED BY <3>2, <3>3
  <2> QED BY <1>1, <1>2, <1>9, <2>1 DEF a
<1>10. CASE n < 0
  <2> DEFINE w == -(s + 1)
  <2>1. BignumShift(a, bits, TRUE) = Canonical(w)
    BY <1>1, <1>2, <1>10
  <2>2. w \in Int /\ w # -s
    BY <1>5
  <2>3. n = -m
    BY <1>4, <1>10
  <2>4. CASE bits >= 0
    <3>1. v = -s
      <4> DEFINE p == Power(2, bits)
      <4>1. p \in Nat
        BY <1>6, <2>4, PowerIs
      <4>2. v = n * p /\ s = m * p
        BY <2>4 DEF AshMeant, Shifted
      <4> HIDE DEF v, s, p
      <4>3. (-m) * p = -(m * p)
        BY <1>3, <4>1
      <4> QED BY <2>3, <4>2, <4>3
    <3> HIDE DEF v, w, s
    <3>2. Canonical(w) # Canonical(v)
      BY <1>8, <2>2, <3>1, CanonicalDiffers
    <3> QED BY <1>10, <2>1, <2>4, <3>2 DEF a, v
  <2>5. CASE bits < 0
    <3> DEFINE p == Power(2, -bits)
    <3>1. p \in Nat /\ p > 0
      BY <1>7, <2>5, PowerIs, PowerPositive
    <3>2. v = n \div p /\ s = m \div p
      BY <1>7, <2>5 DEF AshMeant, Shifted
    <3> HIDE DEF v, s, p
    <3>3. /\ n % p = 0 => v = -s
          /\ n % p # 0 => v = w
      BY <1>3, <2>3, <3>1, <3>2, NegativeQuotient
    <3> HIDE DEF w
    <3>4. Canonical(w) = Canonical(v) <=> w = v
      BY <1>8, <2>2, CanonicalDiffers
    <3>5. Canonical(w) = Canonical(v) <=> ~ (n % p = 0)
      BY <2>2, <3>3, <3>4
    <3> QED BY <1>7, <1>10, <2>1, <2>5, <3>5 DEF a, v, p
  <2>6. bits >= 0 \/ bits < 0
    OBVIOUS
  <2> QED BY <2>4, <2>5, <2>6, Zenon
<1> QED BY <1>9, <1>10

Lost(n, bits) ==
    /\ n < 0
    /\ IF IsFixnum(n) /\ bits < 0 THEN -bits >= 2 * HalfBits
       ELSE ~(IsFixnum(n) /\ IsFixnum(AshMeant(n, bits)))
            /\ (bits >= 0 \/ n % Power(2, -bits) = 0)

LEMMA FixnumQuotient ==
    ASSUME NEW n \in Int, IsFixnum(n), NEW p \in Nat, p > 0
    PROVE  /\ n \div p \in Int /\ IsFixnum(n \div p)
           /\ p >= 2 * FixLimit => n \div p = IF n < 0 THEN -1 ELSE 0
<1> DEFINE q == n \div p
           r == n % p
           f == FixLimit
<1>1. q \in Int /\ r \in Nat /\ r < p /\ n = p * q + r /\ n >= -f /\ n < f /\ f \in Nat /\ f > 0
  BY Words, DivMod DEF IsFixnum
<1> HIDE DEF q, r, f
<1>2. q >= 0 => p * q >= q
  BY <1>1
<1>3. q <= -1 => p * q <= -p /\ p * q <= q
  BY <1>1
<1> DEFINE x == p * q
<1>4. x \in Int /\ n = x + r
  BY <1>1
<1>5. (q >= 0 => x >= q) /\ (q <= -1 => x <= -p /\ x <= q)
  BY <1>2, <1>3
<1>6. q < f
  <2> HIDE DEF x
  <2>1. CASE q >= 0
    BY <1>1, <1>4, <1>5, <2>1
  <2>2. CASE q <= -1
    BY <1>1, <2>2
  <2> QED BY <1>1, <2>1, <2>2
<1>7. q >= -f
  <2>1. ASSUME q < -f
        PROVE  FALSE
    <3>1. q <= -(f + 1)
      BY <1>1, <2>1
    <3>2. p * q <= p * (-(f + 1))
      BY <1>1, <3>1
    <3>3. p * (-(f + 1)) = -(p * f) - p
      BY <1>1
    <3> DEFINE y == p * f
    <3>4. y \in Nat /\ y >= f
      BY <1>1
    <3>5. x <= -y - p
      BY <3>2, <3>3
    <3> HIDE DEF x, y
    <3> QED BY <1>1, <1>4, <3>4, <3>5
  <2> QED BY <1>1, <2>1
<1>8. ASSUME p >= 2 * f
      PROVE  q = IF n < 0 THEN -1 ELSE 0
  <2>1. q >= 1 => x >= p
    BY <1>1
  <2>2. q <= -2 => x <= (-2) * p
    BY <1>1
  <2>3. (-2) * p = -p - p
    OBVIOUS
  <2> HIDE DEF x
  <2>4. ~ (q >= 1)
    BY <1>1, <1>4, <1>8, <2>1
  <2>5. ~ (q <= -2)
    BY <1>1, <1>4, <1>8, <2>2, <2>3
  <2>6. q = 0 \/ q = -1
    BY <1>1, <2>4, <2>5
  <2>7. q = 0 => x = 0
    BY <1>1 DEF x
  <2>8. q = -1 => x = -p
    BY <1>1 DEF x
  <2> QED BY <1>1, <1>4, <2>6, <2>7, <2>8
<1> QED BY <1>1, <1>6, <1>7, <1>8 DEF q, f, IsFixnum

LEMMA AshIs ==
    ASSUME NEW n \in Int, NEW bits \in Int
    PROVE  Ash(n, bits) = Canonical(AshMeant(n, bits)) <=> ~ Lost(n, bits)
<1> DEFINE v == AshMeant(n, bits)
           fits == IsFixnum(n * Power(2, bits))
<1>1. CASE ~ IsFixnum(n) \/ (~ (bits < 0) /\ ~ fits)
  <2>1. Ash(n, bits) = BignumShift(AsBignum(n), bits, TRUE)
    <3>1. CASE ~ IsFixnum(n)
      BY <3>1 DEF Ash
    <3>2. CASE IsFixnum(n)
      <4>1. AsBignum(n) = FixnumToBignum(n)
        BY <3>2 DEF AsBignum
      <4> QED BY <1>1, <3>2, <4>1 DEF Ash
    <3> QED BY <3>1, <3>2
  <2>2. Lost(n, bits) <=> n < 0 /\ (bits >= 0 \/ n % Power(2, -bits) = 0)
    <3>1. CASE ~ IsFixnum(n)
      BY <3>1 DEF Lost
    <3>2. CASE IsFixnum(n)
      <4>1. ~ (bits < 0) /\ bits >= 0 /\ ~ fits
        BY <1>1, <3>2
      <4>2. ~ IsFixnum(v)
        BY <4>1 DEF AshMeant
      <4> HIDE DEF v
      <4> QED BY <3>2, <4>1, <4>2 DEF Lost, v
    <3> QED BY <3>1, <3>2
  <2> QED BY <2>1, <2>2, ShiftedInteger
<1>2. CASE IsFixnum(n) /\ bits < 0
  <2> DEFINE p == Power(2, -bits)
  <2>1. -bits \in Nat
    BY <1>2
  <2>2. p \in Nat /\ p > 0
    BY <2>1, PowerIs, PowerPositive
  <2>3. v = n \div p
    BY <1>2 DEF AshMeant
  <2>4. Ash(n, bits) = Fixnum(IF -bits < 2 * HalfBits THEN n \div p ELSE 0)
    BY <1>2 DEF Ash
  <2>5. Lost(n, bits) <=> n < 0 /\ -bits >= 2 * HalfBits
    BY <1>2 DEF Lost
  <2>6. 2 * HalfBits \in Nat /\ FixLimit \in Nat /\ 2 * FixLimit <= Radix /\ Radix = Power(2, 2 * HalfBits)
    BY Words, WordAssumption
  <2>7. -bits >= 2 * HalfBits => p >= 2 * FixLimit
    <3> SUFFICES ASSUME -bits >= 2 * HalfBits
                 PROVE  p >= 2 * FixLimit
      OBVIOUS
    <3> DEFINE w == 2 * HalfBits
               l == -bits
               g == 2 * FixLimit
    <3>1. w \in Nat /\ l \in Nat /\ w <= l
      BY <2>1, <2>6
    <3>2. g \in Nat /\ g <= Power(2, w)
      BY <2>6
    <3> HIDE DEF w, l, g
    <3>5. Power(2, w) <= Power(2, l)
      BY <3>1, PowerGrows
    <3>3. Power(2, w) <= Power(2, l) /\ Power(2, w) \in Nat /\ Power(2, l) \in Nat
      BY <3>1, <3>5, PowerIs
    <3>4. Power(2, l) >= g
      BY <3>2, <3>3
    <3> QED BY <3>4 DEF l, g
  <2> HIDE DEF p
  <2>8. v \in Int /\ IsFixnum(v) /\ (p >= 2 * FixLimit => v = IF n < 0 THEN -1 ELSE 0)
    BY <1>2, <2>2, <2>3, FixnumQuotient
  <2> HIDE DEF v
  <2>9. Canonical(v) = Fixnum(v)
    BY <2>8, CanonicalIs
  <2>10. CASE -bits < 2 * HalfBits
    <3>1. ~ (-bits >= 2 * HalfBits)
      BY <2>1, <2>6, <2>10
    <3> QED BY <2>3, <2>4, <2>5, <2>9, <2>10, <3>1 DEF v
  <2>11. CASE ~ (-bits < 2 * HalfBits)
    <3>1. -bits >= 2 * HalfBits
      BY <2>1, <2>6, <2>11
    <3>2. Ash(n, bits) = Fixnum(0)
      BY <2>4, <2>11
    <3>3. Fixnum(0) = Fixnum(v) <=> v = 0
      <4>1. Fixnum(0).n = 0 /\ Fixnum(v).n = v
        BY DEF Fixnum
      <4> QED BY <4>1
    <3>4. v = 0 <=> ~ (n < 0)
      BY <2>7, <2>8, <3>1
    <3> QED BY <2>5, <2>9, <3>1, <3>2, <3>3, <3>4 DEF v
  <2> QED BY <2>10, <2>11
<1>3. CASE IsFixnum(n) /\ ~ (bits < 0) /\ fits
  <2>1. bits >= 0 /\ bits \in Nat
    BY <1>3
  <2>2. v = n * Power(2, bits)
    BY <2>1 DEF AshMeant
  <2>3. Ash(n, bits) = Fixnum(v)
    BY <1>3, <2>2 DEF Ash
  <2>4. v \in Int
    <3>1. Power(2, bits) \in Nat
      BY <2>1, PowerIs
    <3> QED BY <2>2, <3>1
  <2>5. IsFixnum(v)
    BY <1>3, <2>2
  <2> HIDE DEF v
  <2>6. Canonical(v) = Fixnum(v)
    BY <2>4, <2>5, CanonicalIs
  <2>7. ~ Lost(n, bits)
    BY <1>3, <2>5 DEF Lost, v
  <2> QED BY <2>3, <2>6, <2>7 DEF v
<1> QED BY <1>1, <1>2, <1>3

ShiftInv == InDivision /\ ShiftExact

LEMMA ShiftStep ==
    ASSUME ShiftInv, [Next]_vars
    PROVE  ShiftInv'
<1>1. CASE Calculate
  <2>1. phase' = "done" /\ call'.op \in Products
    BY <1>1 DEF Calculate, Finish
  <2> QED BY <2>1 DEF ShiftInv, ShiftExact, InDivision, Products
<1>2. CASE ShiftInteger
  <2>1. PICK n \in Terms, bits \in Shifts :
           /\ call' = [op |-> "ash", by |-> "library", a |-> n, b |-> bits]
           /\ phase' = "done" /\ answer' = Ash(n, bits)
    BY <1>2 DEF ShiftInteger, Finish
  <2>2. n \in Int /\ bits \in Int
    BY OperandsAssumption
  <2>3. call'.op = "ash" /\ call'.a = n /\ call'.b = bits
    BY <2>1
  <2>4. Result' = AshMeant(n, bits)
    BY <2>3 DEF Result, AshMeant
  <2>5. NegativeShift' <=> Lost(n, bits)
    BY <2>3, <2>4 DEF NegativeShift, Lost
  <2>6. answer' = Canonical(Result') <=> ~ (NegativeShift')
    BY <2>1, <2>2, <2>4, <2>5, AshIs
  <2>7. phase' # "divide"
    BY <2>1
  <2> QED BY <2>6, <2>7 DEF ShiftInv, ShiftExact, InDivision
<1>3. CASE DivideFixnums
  <2>1. phase' = "done" /\ call'.op = "div"
    BY <1>3 DEF DivideFixnums, Finish
  <2> QED BY <2>1 DEF ShiftInv, ShiftExact, InDivision
<1>4. CASE DivideBignums
  <2>1. call'.op \in {"div", "rem"}
    BY <1>4 DEF DivideBignums
  <2> QED BY <2>1 DEF ShiftInv, ShiftExact, InDivision
<1>5. CASE QuotientStep
  <2>1. phase = "divide" /\ call' = call /\ phase' \in {"divide", "fault"}
    BY <1>5 DEF QuotientStep, Stop
  <2> QED BY <2>1 DEF ShiftInv, ShiftExact, InDivision
<1>6. CASE FinishDivision
  <2>1. phase = "divide" /\ call' = call /\ phase' = "done"
    BY <1>6 DEF FinishDivision, Return, Finish
  <2> QED BY <2>1 DEF ShiftInv, ShiftExact, InDivision
<1>7. CASE NextCall
  <2>1. phase' = "idle"
    BY <1>7 DEF NextCall
  <2> QED BY <2>1 DEF ShiftInv, ShiftExact, InDivision
<1>8. CASE UNCHANGED vars
  <2>1. phase' = phase /\ call' = call /\ answer' = answer
    BY <1>8 DEF vars
  <2>2. Result' = Result /\ (NegativeShift' <=> NegativeShift)
    BY <2>1 DEF Result, NegativeShift
  <2> QED BY <2>1, <2>2 DEF ShiftInv, ShiftExact, InDivision
<1> QED BY <1>1, <1>2, <1>3, <1>4, <1>5, <1>6, <1>7, <1>8 DEF Next

(* ASH is the shift of the integer, whatever the word size and the amount, *)
(* except exactly for the negative numbers NegativeShift names.            *)
THEOREM ShiftIsExact == Spec => []ShiftExact
<1>1. Init => ShiftInv
  BY DEF Init, ShiftInv, ShiftExact, InDivision
<1>2. ShiftInv /\ [Next]_vars => ShiftInv'
  BY ShiftStep
<1>3. ShiftInv => ShiftExact
  BY DEF ShiftInv
<1> QED BY <1>1, <1>2, <1>3, PTL DEF Spec

-----------------------------------------------------------------------------
(* One step of the long division. *)
ColumnState == {s \in [low : Digit, high : Digit, carry : {0, 1}] : s.carry = 1 => s.high >= 1}

ColumnNext(x, q, y, last) ==
    LET product == x * q
        low == (last.high - product) % Radix
        carry == last.carry + (IF low > last.high THEN 1 ELSE 0)
        high == (y - ((product \div Radix) + carry)) % Radix
    IN  [low |-> low, high |-> high, carry |-> IF high > y THEN 1 ELSE 0]

(* A difference of two digits, and what is borrowed for it. *)
LEMMA Borrowed ==
    ASSUME NEW y \in Digit, NEW t \in Digit
    PROVE  /\ (y - t) % Radix \in Digit
           /\ (y - t) % Radix = IF (y - t) % Radix > y THEN y - t + Radix ELSE y - t
<1>1. Radix \in Nat /\ Radix > 0 /\ y \in Nat /\ t \in Nat /\ y < Radix /\ t < Radix
  BY Words DEF Digit
<1> DEFINE n == y - t
<1>2. n \in Int
  BY <1>1
<1>3. CASE t <= y
  <2>1. n = Radix * 0 + n /\ n \in Nat /\ n < Radix /\ 0 \in Int
    BY <1>1, <1>3
  <2> HIDE DEF n
  <2>2. n % Radix = n
    BY <1>1, <2>1, DivUnique
  <2>3. n <= y
    BY <1>1 DEF n
  <2> QED BY <1>1, <2>1, <2>2, <2>3 DEF Digit, n
<1>4. CASE ~ (t <= y)
  <2> DEFINE m == n + Radix
             o == -1
  <2>1. m \in Nat /\ m < Radix /\ m > y /\ o \in Int
    BY <1>1, <1>4
  <2>2. n = Radix * o + m
    <3>1. Radix * o = -Radix
      BY <1>1
    <3> DEFINE z == Radix * o
    <3>2. z = -Radix
      BY <3>1
    <3> HIDE DEF z
    <3> QED BY <1>1, <1>2, <3>2
  <2> HIDE DEF n, m, o
  <2>3. n % Radix = m
    BY <1>1, <1>2, <2>1, <2>2, DivUnique
  <2> QED BY <1>1, <1>2, <2>1, <2>3 DEF Digit, n, m
<1> QED BY <1>3, <1>4

(* The halves of a product of two digits. *)
LEMMA DigitProduct ==
    ASSUME NEW x \in Digit, NEW q \in Digit
    PROVE  LET h == (x * q) \div Radix
               l == (x * q) % Radix
           IN  /\ x * q \in Nat /\ h \in Nat /\ l \in Digit /\ x * q = Radix * h + l
               /\ h + 2 <= Radix
               /\ h + 2 = Radix => l <= 1
<1> DEFINE p == x * q
           h == p \div Radix
           l == p % Radix
           u == Radix - 1
<1>1. Radix \in Nat /\ Radix > 0 /\ x \in Nat /\ q \in Nat /\ u \in Nat /\ x <= u /\ q <= u /\ Radix = u + 1 /\ u >= 3
  BY Words DEF Digit
<1>2. p \in Nat
  BY <1>1
<1>3. p <= u * u
  <2>1. x * q <= u * q
    BY <1>1
  <2>2. u * q <= u * u
    BY <1>1
  <2> DEFINE a == u * q
             b == u * u
  <2>3. a \in Nat /\ b \in Nat
    BY <1>1
  <2>4. p <= a /\ a <= b
    BY <2>1, <2>2
  <2> HIDE DEF p, a, b
  <2> QED BY <1>2, <2>3, <2>4 DEF b
<1> HIDE DEF p
<1>4. h \in Nat /\ l \in Nat /\ l < Radix /\ p = Radix * h + l
  BY <1>1, <1>2, DivMod
<1>5. l \in Digit
  BY <1>1, <1>4 DEF Digit
<1> HIDE DEF h, l, u
<1>6. h < u
  <2>1. ASSUME h >= u
        PROVE  FALSE
    <3>1. Radix * h >= Radix * u
      BY <1>1, <1>4, <2>1
    <3>2. Radix * u = u * u + u
      BY <1>1
    <3> DEFINE a == Radix * h
               b == Radix * u
               c == u * u
    <3>3. a \in Nat /\ b \in Nat /\ c \in Nat
      BY <1>1, <1>4
    <3>4. a >= b /\ b = c + u /\ p <= c /\ p = a + l
      BY <1>3, <1>4, <3>1, <3>2
    <3> HIDE DEF a, b, c
    <3> QED BY <1>1, <1>2, <1>4, <3>3, <3>4
  <2> QED BY <1>1, <1>4, <2>1
<1>7. ASSUME h + 1 = u
      PROVE  l <= 1
  <2>1. Radix * h = (u + 1) * (u - 1)
    BY <1>1, <1>7, <1>4
  <2>2. (u + 1) * (u - 1) = u * u - 1
    BY <1>1
  <2> DEFINE a == Radix * h
             c == u * u
  <2>3. a \in Nat /\ c \in Nat
    BY <1>1, <1>4
  <2>4. a = c - 1 /\ p <= c /\ p = a + l
    BY <1>3, <1>4, <2>1, <2>2
  <2> HIDE DEF a, c
  <2> QED BY <1>2, <1>4, <2>3, <2>4
<1>8. h + 2 <= Radix /\ (h + 2 = Radix => l <= 1)
  BY <1>1, <1>4, <1>6, <1>7
<1> QED BY <1>2, <1>4, <1>5, <1>8 DEF h, l, p

LEMMA ColumnNextIs ==
    ASSUME NEW x \in Digit, NEW q \in Digit, NEW y \in Digit, NEW last \in ColumnState
    PROVE  LET n == ColumnNext(x, q, y, last)
           IN  /\ n \in ColumnState
               /\ n.low + Radix * n.high + x * q + Radix * last.carry
                     = last.high + Radix * y + (Radix * Radix) * n.carry
<1> DEFINE p == x * q
           h == p \div Radix
           l == p % Radix
           g == last.high
           e == last.carry
           low == (g - p) % Radix
           b == IF low > g THEN 1 ELSE 0
           t == h + (e + b)
           high == (y - t) % Radix
           k0 == IF high > y THEN 1 ELSE 0
           n == ColumnNext(x, q, y, last)
<1>1. Radix \in Nat /\ Radix >= 4 /\ y \in Nat /\ y < Radix
  BY Words DEF Digit
<1>2. p \in Nat /\ h \in Nat /\ l \in Digit /\ p = Radix * h + l /\ h + 2 <= Radix /\ (h + 2 = Radix => l <= 1)
  BY DigitProduct
<1>3. g \in Digit /\ e \in {0, 1} /\ (e = 1 => g >= 1)
  BY DEF ColumnState
<1>4. n = [low |-> low, high |-> high, carry |-> k0]
  BY DEF ColumnNext
<1>5. g \in Nat /\ g < Radix /\ l \in Nat /\ l < Radix
  BY <1>1, <1>2, <1>3 DEF Digit
<1> HIDE DEF n, g, e, p
<1>6. low = (g - l) % Radix
  <2> DEFINE gl == g - l
             m == gl % Radix
             d == gl \div Radix
  <2>1. gl \in Int /\ Radix \in Nat /\ Radix > 0
    BY <1>1, <1>5
  <2> HIDE DEF gl
  <2>8. d \in Int /\ m \in Nat /\ m < Radix /\ gl = Radix * d + m
    BY <2>1, DivMod
  <2>2. d \in Int /\ m \in Nat /\ m < Radix /\ g - l = Radix * d + m
    BY <2>8 DEF gl
  <2> HIDE DEF h, l, m, d
  <2>3. Radix * (d - h) = Radix * d - Radix * h
    BY <1>1, <1>2, <2>2
  <2> DEFINE u == Radix * d
             v == Radix * h
             z == Radix * (d - h)
  <2>4. u \in Int /\ v \in Int /\ z \in Int
    BY <1>1, <1>2, <2>2
  <2>5. g - p = z + m
    <3>1. z = u - v /\ g - l = u + m /\ p = v + l
      BY <1>2, <2>2, <2>3
    <3>2. p \in Int /\ g \in Int /\ l \in Int /\ m \in Int
      BY <1>2, <1>5, <2>2
    <3> HIDE DEF u, v, z
    <3> QED BY <2>4, <3>1, <3>2
  <2> DEFINE f == d - h
             gp == g - p
  <2>6. f \in Int /\ gp \in Int /\ gp = Radix * f + m
    BY <1>2, <1>5, <2>2, <2>5
  <2> HIDE DEF f, gp
  <2>7. gp % Radix = m
    BY <1>1, <2>2, <2>6, DivUnique
  <2> QED BY <2>7 DEF gp, m, gl
<1> HIDE DEF low, h, l
<1>7. low \in Digit /\ low = g - l + Radix * b
  <2>1. low \in Digit /\ low = IF low > g THEN g - l + Radix ELSE g - l
    BY <1>2, <1>3, <1>6, Borrowed
  <2>2. Radix * b = IF low > g THEN Radix ELSE 0
    BY <1>1
  <2> QED BY <1>1, <1>5, <2>1, <2>2
<1>8. b \in {0, 1} /\ low \in Nat
  BY <1>7 DEF Digit
<1> HIDE DEF b
<1>9. ~ (h + 2 = Radix /\ e = 1 /\ b = 1)
  <2>1. ASSUME h + 2 = Radix, e = 1, b = 1
        PROVE  FALSE
    <3>1. l <= 1 /\ g >= 1 /\ low > g
      BY <1>2, <1>3, <2>1 DEF b
    <3>2. low = g - l + Radix
      BY <1>1, <1>7, <2>1
    <3>3. low < Radix
      BY <1>1, <1>7 DEF Digit
    <3> QED BY <1>1, <1>5, <1>8, <3>1, <3>2, <3>3
  <2> QED BY <2>1
<1>10. t \in Digit
  <2>1. t \in Nat /\ t <= Radix - 1
    BY <1>1, <1>2, <1>3, <1>8, <1>9
  <2> QED BY <1>1, <2>1 DEF Digit
<1> HIDE DEF t
<1>11. high \in Digit /\ high = y - t + Radix * k0 /\ k0 \in {0, 1} /\ (k0 = 1 => high >= 1)
  <2>1. high \in Digit /\ high = IF high > y THEN y - t + Radix ELSE y - t
    BY <1>10, Borrowed
  <2>2. t \in Nat /\ high \in Nat
    BY <1>1, <1>10, <2>1 DEF Digit
  <2> HIDE DEF high
  <2>3. Radix * k0 = IF high > y THEN Radix ELSE 0
    BY <1>1
  <2> QED BY <1>1, <2>1, <2>2, <2>3
<1> HIDE DEF high, k0
<1>12. n.low = low /\ n.high = high /\ n.carry = k0 /\ n \in ColumnState
  BY <1>4, <1>7, <1>11 DEF ColumnState
<1>13. low + Radix * high + p + Radix * e = g + Radix * y + (Radix * Radix) * k0
  <2>1. high \in Nat /\ t = h + (e + b)
    BY <1>1, <1>11 DEF Digit, t
  <2>2. Radix * high = Radix * y - Radix * h - Radix * e - Radix * b + Radix * (Radix * k0)
    <3> DEFINE z == Radix * k0
    <3>1. z \in Nat
      BY <1>1, <1>11
    <3>2. high = y - (h + (e + b)) + z
      BY <1>11, <2>1
    <3> HIDE DEF z
    <3>3. Radix * high = Radix * (y - (h + (e + b)) + z)
      BY <3>2
    <3>4. Radix * (y - (h + (e + b)) + z) = Radix * y - Radix * h - Radix * e - Radix * b + Radix * z
      BY <1>1, <1>2, <1>3, <1>8, <3>1
    <3> QED BY <3>3, <3>4 DEF z
  <2> DEFINE a1 == Radix * high
             a2 == Radix * y
             a3 == Radix * h
             a4 == Radix * e
             a5 == Radix * b
             a6 == Radix * (Radix * k0)
  <2>3. a1 \in Int /\ a2 \in Int /\ a3 \in Int /\ a4 \in Int /\ a5 \in Int /\ a6 \in Int
    <3>1. Radix * k0 \in Int
      BY <1>1, <1>11
    <3> QED BY <1>1, <1>2, <1>3, <1>8, <2>1, <3>1
  <2>4. a1 = a2 - a3 - a4 - a5 + a6 /\ p = a3 + l /\ low = g - l + a5
    BY <1>2, <1>7, <2>2
  <2>5. (Radix * Radix) * k0 = a6
    BY <1>1, <1>11
  <2> HIDE DEF a1, a2, a3, a4, a5, a6
  <2>7. p \in Int /\ g \in Int /\ l \in Int /\ low \in Int
    BY <1>2, <1>5, <1>8
  <2>6. low + a1 + p + a4 = g + a2 + a6
    BY <2>3, <2>4, <2>7
  <2> QED BY <2>5, <2>6 DEF a1, a2, a4
<1> QED BY <1>12, <1>13 DEF n, g, e, p

ColumnsFrom(column, a, o, d, q) ==
    /\ column[0] = [low |-> 0, high |-> At(a, o + 1), carry |-> 0]
    /\ \A n \in Nat : /\ column[n] \in ColumnState
                      /\ column[n + 1] = ColumnNext(At(d, n + 1), q,
                                            At(a, o + (n + 1) + 1), column[n])

LEMMA ColumnIs ==
    ASSUME NEW a \in Seq(Digit), NEW o \in Nat, NEW d \in Seq(Digit), NEW q \in Digit
    PROVE  ColumnsFrom(Column(a, o, d, q), a, o, d, q)
<1> DEFINE Step(i, x) == ColumnNext(At(d, i), q, At(a, o + i + 1), x)
           S == ColumnState
           first == [low |-> 0, high |-> At(a, o + 1), carry |-> 0]
           G == [i \in Nat |-> [x \in S |-> Step(i, x)]]
           Is(f) == f = [i \in Nat |->
            IF i = 0 THEN [low |-> 0, high |-> At(a, o + 1), carry |-> 0]
            ELSE LET last == f[i - 1]
                     product == At(d, i) * q
                     low == (last.high - product) % Radix
                     carry == last.carry + (IF low > last.high THEN 1 ELSE 0)
                     high == (At(a, o + i + 1) - ((product \div Radix) + carry))
                                 % Radix
                 IN  [low |-> low, high |-> high,
                      carry |-> IF high > At(a, o + i + 1) THEN 1 ELSE 0]]
           p == CHOOSE f : Is(f)
<1>0. ASSUME NEW i \in Nat, NEW x \in S
      PROVE  Step(i, x) \in S
  <2>1. At(d, i) \in Digit /\ At(a, o + i + 1) \in Digit
    <3>1. i \in Int /\ o + i + 1 \in Int
      OBVIOUS
    <3> QED BY <3>1, AtIs
  <2> QED BY <2>1, ColumnNextIs
<1>1. G \in [Nat -> [S -> S]] /\ first \in S
  <2>1. first \in S
    <3>1. o + 1 \in Int
      OBVIOUS
    <3>3. 0 \in Digit
      BY Words DEF Digit
    <3>2. At(a, o + 1) \in Digit /\ 0 \in Digit
      <4> HIDE DEF first
      <4> QED BY <3>1, <3>3, AtIs
    <3> QED BY <3>2 DEF ColumnState
  <2> HIDE DEF Step, S, first
  <2> QED BY <1>0, <2>1
<1>2. \A i \in Nat : \A x \in S : G[i][x] = Step(i, x)
  <2> HIDE DEF Step, S
  <2> QED OBVIOUS
<1>3. \A f : Is(f) <=> f = [j \in Nat |-> IF j = 0 THEN first ELSE Step(j, f[j - 1])]
  BY DEF ColumnNext
<1> HIDE DEF G
<1>4. \E f : Is(f)
  <2>1. PICK f \in [Nat -> S] : Recurs(f, first, G)
    <3> HIDE DEF Is, Step, S, first
    <3> QED BY <1>1, RecursionExists
  <2>2. \A i \in Nat : i # 0 => i - 1 \in Nat /\ f[i - 1] \in S
    <3> HIDE DEF S
    <3> QED OBVIOUS
  <2>3. \A i \in Nat : f[i] = IF i = 0 THEN first ELSE Step(i, f[i - 1])
    <3> HIDE DEF Step, S, first, Is
    <3> QED BY <1>2, <2>1, <2>2 DEF Recurs
  <2>4. f = [j \in Nat |-> IF j = 0 THEN first ELSE Step(j, f[j - 1])]
    <3> HIDE DEF Step, S, first, Is
    <3> QED BY <2>3
  <2>5. Is(f)
    <3> HIDE DEF Step, S, first, Is
    <3> QED BY <1>3, <2>4
  <2> HIDE DEF Is
  <2> QED BY <2>5
<1>5. Column(a, o, d, q) = p
  BY DEF Column
<1>6. p = [j \in Nat |-> IF j = 0 THEN first ELSE Step(j, p[j - 1])]
  <2>1. Is(p)
    <3> HIDE DEF Is
    <3> QED BY <1>4
  <2> HIDE DEF Is, p, Step, first
  <2> QED BY <1>3, <2>1
<1> HIDE DEF p
<1>7. \A i \in Nat : p[i] = IF i = 0 THEN first ELSE Step(i, p[i - 1])
  <2> HIDE DEF Step, first
  <2> QED BY <1>6
<1>8. \A i \in Nat : p[i] \in S
  <2>1. Stays(p, S)
    <3> HIDE DEF Step, S, first
    <3> QED BY <1>0, <1>1, <1>7 DEF Stays
  <2> HIDE DEF S
  <2> QED BY <2>1, StaysIn
<1>9. ASSUME NEW n \in Nat
      PROVE  p[n] \in S /\ p[n + 1] = Step(n + 1, p[n])
  <2>1. n + 1 \in Nat /\ n + 1 # 0 /\ (n + 1) - 1 = n
    OBVIOUS
  <2> HIDE DEF Step, S
  <2> QED BY <2>1, <1>7, <1>8
<1>10. p[0] = first
  <2> HIDE DEF Step, first
  <2> QED BY <1>7
<1> QED BY <1>5, <1>9, <1>10 DEF ColumnsFrom

(* Part of the cells. *)
Slice(a, o, m) == SubSeq(a, o + 1, o + m)
IsSlice(c, a, o, m) == \A j \in 1 .. m : At(c, j) = At(a, o + j)

LEMMA SliceIs ==
    ASSUME NEW a \in Seq(Digit), NEW o \in Nat, NEW m \in Nat, o + m <= Len(a)
    PROVE  /\ Slice(a, o, m) \in Seq(Digit) /\ Len(Slice(a, o, m)) = m
           /\ IsSlice(Slice(a, o, m), a, o, m)
<1> DEFINE c == Slice(a, o, m)
           e == o + m
<1>1. \A i \in (o + 1) .. e : i \in 1 .. Len(a) /\ a[i] \in Digit
  OBVIOUS
<1>2. /\ c \in Seq(Digit)
      /\ Len(c) = IF o + 1 <= e THEN e - (o + 1) + 1 ELSE 0
      /\ \A i \in 1 .. e - (o + 1) + 1 : c[i] = a[(o + 1) + i - 1]
  <2>1. a \in Seq(Digit) /\ o + 1 \in Nat /\ e \in Nat /\ (o + 1) \in 1 .. Len(a) + 1 /\ e \in (o + 1) - 1 .. Len(a)
    OBVIOUS
  <2> HIDE DEF e
  <2> QED BY <2>1, SubSeqProperties DEF Slice, e
<1>3. Len(c) = m
  BY <1>2
<1> HIDE DEF c
<1>4. ASSUME NEW j \in 1 .. m
      PROVE  At(c, j) = At(a, o + j)
  <2>1. c[j] = a[(o + 1) + j - 1] /\ (o + 1) + j - 1 = o + j
    BY <1>2
  <2>2. At(c, j) = c[j]
    BY <1>2, <1>3, AtIs
  <2>3. At(a, o + j) = a[o + j]
    <3>1. o + j \in 1 .. Len(a)
      OBVIOUS
    <3> QED BY <3>1, AtIs
  <2> QED BY <2>1, <2>2, <2>3
<1> QED BY <1>2, <1>3, <1>4 DEF IsSlice, c

LEMMA ValueSplit ==
    ASSUME NEW a \in Seq(Digit), NEW c \in Seq(Digit), NEW o \in Nat, NEW m \in Nat,
           IsSlice(c, a, o, m)
    PROVE  Value(a, o + m) = Value(a, o) + Value(c, m) * Power(Radix, o)
<1> DEFINE T == {n \in Nat : n <= m => Value(a, o + n) = Value(a, o) + Value(c, n) * Power(Radix, o)}
           p == Power(Radix, o)
           v == Value(a, o)
<1>0. p \in Nat /\ v \in Nat
  BY ValueIs, Weights
<1>1. 0 \in T
  <2>1. Value(c, 0) = 0 /\ o + 0 = o
    BY ValueIs
  <2>2. v = v + 0 * p
    <3> HIDE DEF v, p
    <3> QED BY <1>0
  <2> QED BY <2>1, <2>2
<1>2. ASSUME NEW n \in Nat, n \in T, n + 1 <= m
      PROVE  n + 1 \in T
  <2> DEFINE w == Power(Radix, n)
             x == Value(c, n)
             y == At(c, n + 1)
             l == o + n
  <2>1. w \in Nat /\ x \in Nat /\ y \in Nat /\ l \in Nat /\ o + (n + 1) = l + 1
    <3>1. n + 1 \in Int
      OBVIOUS
    <3>2. w \in Nat /\ x \in Nat
      BY ValueIs, Weights
    <3>3. y \in Nat
      BY <3>1, AtIs
    <3>4. l \in Nat /\ o + (n + 1) = l + 1
      OBVIOUS
    <3> QED BY <3>2, <3>3, <3>4
  <2>2. Value(a, l) = v + x * p
    BY <1>2
  <2>3. y = At(a, l + 1)
    <3>1. n + 1 \in 1 .. m
      BY <1>2
    <3> QED BY <2>1, <3>1 DEF IsSlice
  <2>4. Value(c, n + 1) = x + y * w
    BY ValueIs
  <2>5. Value(a, l + 1) = Value(a, l) + At(a, l + 1) * Power(Radix, l)
    BY <2>1, ValueIs
  <2>6. Power(Radix, l) = p * w
    BY Words, PowerSum
  <2> HIDE DEF p, v, w, x, y, l
  <2>7. Value(a, l + 1) = (v + x * p) + y * (p * w)
    BY <2>2, <2>3, <2>5, <2>6
  <2>8. (v + x * p) + y * (p * w) = v + (x + y * w) * p
    <3>1. y * (p * w) = (y * w) * p /\ y * w \in Nat
      BY <1>0, <2>1
    <3>2. (x + y * w) * p = x * p + (y * w) * p
      BY <1>0, <2>1, <3>1
    <3>3. x * p \in Nat /\ (y * w) * p \in Nat
      BY <1>0, <2>1, <3>1
    <3> QED BY <1>0, <3>1, <3>2, <3>3
  <2>9. Value(a, o + (n + 1)) = v + Value(c, n + 1) * p
    BY <2>1, <2>4, <2>7, <2>8
  <2> QED BY <2>9 DEF p, v
<1>3. ASSUME NEW n \in Nat, n \in T
      PROVE  n + 1 \in T
  <2>1. CASE n + 1 <= m
    <3> HIDE DEF T
    <3> QED BY <1>2, <1>3, <2>1
  <2>2. CASE ~ (n + 1 <= m)
    BY <2>2
  <2> QED BY <2>1, <2>2
<1>4. m \in T
  <2> HIDE DEF T
  <2> QED BY <1>1, <1>3, Induction
<1> QED BY <1>4

(* Numbers that differ in some cells only: a part worth v for one worth x.  *)
Exchanged(b, v, a, x, w) == b + v * w = a + x * w

LEMMA Changed ==
    ASSUME NEW a \in Seq(Digit), NEW b \in Seq(Digit), NEW o \in Nat, NEW m \in Nat,
           Len(b) = Len(a), o + m <= Len(a),
           \A i \in 1 .. o : At(b, i) = At(a, i),
           \A i \in Nat : i > o + m => At(b, i) = At(a, i),
           NEW c \in Seq(Digit), NEW e \in Seq(Digit),
           IsSlice(c, a, o, m), IsSlice(e, b, o, m)
    PROVE  Exchanged(Magnitude(b), Value(c, m), Magnitude(a), Value(e, m), Power(Radix, o))
<1> DEFINE t == o + m
           h == Len(a) - t
           u == Slice(a, t, h)
           p == Power(Radix, o)
           w == Power(Radix, t)
           va == Value(a, o)
           vb == Value(b, o)
           vc == Value(c, m)
           ve == Value(e, m)
           vu == Value(u, h)
<1>1. t \in Nat /\ h \in Nat /\ t + h = Len(a) /\ Len(a) \in Nat
  OBVIOUS
<1> HIDE DEF t, h
<1>2. u \in Seq(Digit) /\ IsSlice(u, a, t, h)
  BY <1>1, SliceIs
<1> HIDE DEF u
<1>3. IsSlice(u, b, t, h)
  <2>1. ASSUME NEW j \in 1 .. h
        PROVE  At(u, j) = At(b, t + j)
    <3>1. At(u, j) = At(a, t + j)
      BY <1>2 DEF IsSlice
    <3>2. t + j \in Nat /\ t + j > t
      BY <1>1
    <3> QED BY <3>1, <3>2 DEF t
  <2> QED BY <2>1 DEF IsSlice
<1>4. Value(a, t) = va + vc * p /\ Value(b, t) = vb + ve * p
  BY ValueSplit DEF t
<1>5. Value(a, t + h) = Value(a, t) + vu * w
  BY <1>1, <1>2, ValueSplit
<1>6. Value(b, t + h) = Value(b, t) + vu * w
  BY <1>1, <1>2, <1>3, ValueSplit
<1>7. va = vb
  BY ValueSame
<1>8. Magnitude(a) = Value(a, t + h) /\ Magnitude(b) = Value(b, t + h)
  BY <1>1 DEF Magnitude
<1> DEFINE x == vc * p
           y == ve * p
           z == vu * w
<1>9. va \in Nat /\ x \in Nat /\ y \in Nat /\ z \in Nat
  <2>1. va \in Nat /\ vc \in Nat /\ ve \in Nat /\ vu \in Nat /\ p \in Nat /\ w \in Nat
    BY <1>1, <1>2, ValueIs, Weights
  <2> HIDE DEF va, vc, ve, vu, p, w
  <2> QED BY <2>1
<1>10. Magnitude(a) = (va + x) + z /\ Magnitude(b) = (va + y) + z
  BY <1>4, <1>5, <1>6, <1>7, <1>8
<1> HIDE DEF va, x, y, z
<1>11. Magnitude(b) + x = Magnitude(a) + y
  BY <1>9, <1>10
<1> QED BY <1>11 DEF x, y, Exchanged

ColumnAdds(l, g, q, vd, vc, e, w, r) == l + g * w + q * vd = vc + e * (r * w)
ColumnSteps(low, high, x, q, e, g, y, f, r) ==
    low + r * high + x * q + r * e = g + r * y + (r * r) * f

LEMMA ColumnSum ==
    ASSUME NEW l \in Nat, NEW g \in Nat, NEW q \in Nat, NEW vd \in Nat, NEW vc \in Nat,
           NEW e \in Nat, NEW w \in Nat, NEW low \in Nat, NEW high \in Nat, NEW x \in Nat,
           NEW y \in Nat, NEW f \in Nat, NEW r \in Nat,
           ColumnAdds(l, g, q, vd, vc, e, w, r), ColumnSteps(low, high, x, q, e, g, y, f, r)
    PROVE  ColumnAdds(l + low * w, high, q, vd + x * w, vc + y * (r * w), f, r * w, r)
<1> DEFINE lw == low * w
           hw == high * (r * w)
           qv == q * vd
           xw == (x * q) * w
           ew == e * (r * w)
           gw == g * w
           yw == y * (r * w)
           fw == f * (r * (r * w))
<1>1. r * w \in Nat /\ x * q \in Nat
  OBVIOUS
<1>2. /\ lw \in Nat /\ hw \in Nat /\ qv \in Nat /\ xw \in Nat
      /\ ew \in Nat /\ gw \in Nat /\ yw \in Nat /\ fw \in Nat
  <2>1. r * (r * w) \in Nat
    BY <1>1
  <2> QED BY <1>1, <2>1
<1>3. lw + hw + xw + ew = gw + yw + fw
  <2> DEFINE a1 == r * high
             a2 == x * q
             a3 == r * e
             a4 == r * y
             a5 == (r * r) * f
  <2>1. a1 \in Nat /\ a2 \in Nat /\ a3 \in Nat /\ a4 \in Nat /\ a5 \in Nat
    <3>1. r * r \in Nat
      OBVIOUS
    <3> QED BY <3>1
  <2>2. low + a1 + a2 + a3 = g + a4 + a5
    BY DEF ColumnSteps
  <2>3. a1 * w = hw /\ a2 * w = xw /\ a3 * w = ew /\ a4 * w = yw /\ a5 * w = fw
    OBVIOUS
  <2> HIDE DEF a1, a2, a3, a4, a5, hw, xw, ew, yw, fw
  <2>4. (low + a1 + a2 + a3) * w = low * w + a1 * w + a2 * w + a3 * w
    BY <2>1
  <2>5. (g + a4 + a5) * w = g * w + a4 * w + a5 * w
    BY <2>1
  <2> QED BY <2>2, <2>3, <2>4, <2>5
<1>4. q * (vd + x * w) = qv + xw
  <2>1. x * w \in Nat
    OBVIOUS
  <2>2. q * (vd + x * w) = q * vd + q * (x * w)
    BY <2>1
  <2>3. q * (x * w) = xw
    OBVIOUS
  <2> QED BY <2>2, <2>3
<1>5. l + gw + qv = vc + ew
  BY DEF ColumnAdds
<1> DEFINE z == q * (vd + x * w)
<1>6. z = qv + xw
  BY <1>4
<1> HIDE DEF lw, hw, qv, xw, ew, gw, yw, fw, z
<1>7. (l + lw) + hw + z = (vc + yw) + fw
  BY <1>2, <1>3, <1>5, <1>6
<1> QED BY <1>7 DEF lw, hw, z, yw, fw, ColumnAdds

Totals(l, h, p, q, vd, vc, e, w) == l + h * p + q * vd = vc + e * w

(* After i columns the low cells, the last high one and what was taken away *)
(* make the cells of a, but for a borrow.                                   *)
LEMMA ColumnValue ==
    ASSUME NEW a \in Seq(Digit), NEW o \in Nat, NEW d \in Seq(Digit), NEW q \in Digit,
           NEW n \in Nat, NEW c \in Seq(Digit), NEW l \in Seq(Digit),
           IsSlice(c, a, o, n + 1),
           \A j \in 1 .. n : At(l, j) = Column(a, o, d, q)[j].low
    PROVE  Totals(Value(l, n), Column(a, o, d, q)[n].high, Power(Radix, n), q, Value(d, n),
                  Value(c, n + 1), Column(a, o, d, q)[n].carry, Power(Radix, n + 1))
<1> DEFINE col == Column(a, o, d, q)
           Eq(i) == Value(l, i) + col[i].high * Power(Radix, i) + q * Value(d, i)
                       = Value(c, i + 1) + col[i].carry * Power(Radix, i + 1)
           T == {i \in Nat : i <= n => Eq(i)}
<1>5. ColumnsFrom(col, a, o, d, q)
  BY ColumnIs
<1>0. /\ col[0] = [low |-> 0, high |-> At(a, o + 1), carry |-> 0]
      /\ \A i \in Nat : col[i] \in ColumnState
                        /\ col[i + 1] = ColumnNext(At(d, i + 1), q, At(a, o + (i + 1) + 1), col[i])
  <2> HIDE DEF col
  <2> QED BY <1>5 DEF ColumnsFrom
<1> HIDE DEF col
<1>1. 0 \in T
  <2> DEFINE y == At(c, 1)
  <2>1. y \in Nat /\ y = At(a, o + 1)
    <3>1. 1 \in 1 .. n + 1 /\ 1 \in Int
      OBVIOUS
    <3> QED BY <3>1, AtIs DEF IsSlice
  <2>2. col[0].high = y /\ col[0].carry = 0
    BY <1>0, <2>1
  <2>3. Value(l, 0) = 0 /\ Value(d, 0) = 0 /\ Value(c, 0) = 0 /\ Power(Radix, 0) = 1
    BY ValueIs, Weights
  <2>4. Value(c, 0 + 1) = Value(c, 0) + At(c, 0 + 1) * Power(Radix, 0)
    BY ValueIs
  <2>5. Value(c, 1) = y
    <3> HIDE DEF y
    <3>1. Value(c, 1) = 0 + y * 1
      BY <2>3, <2>4 DEF y
    <3> QED BY <2>1, <3>1
  <2>6. Power(Radix, 1) \in Nat /\ q \in Nat
    BY Weights, Words DEF Digit
  <2> HIDE DEF y
  <2>7. 0 + y * 1 + q * 0 = y + 0 * Power(Radix, 1)
    BY <2>1, <2>6
  <2>8. Eq(0)
    BY <2>2, <2>3, <2>5, <2>7
  <2> QED BY <2>8
<1>2. ASSUME NEW i \in Nat, i + 1 <= n, Eq(i)
      PROVE  Eq(i + 1)
  <2> DEFINE w == Power(Radix, i)
             x == At(d, i + 1)
             y == At(c, i + 2)
             s == col[i]
             t == col[i + 1]
  <2>1. i + 1 \in Nat /\ i + 1 \in 1 .. n /\ i + 2 \in 1 .. n + 1 /\ (i + 1) + 1 = i + 2 /\ i + 1 \in Int /\ i + 2 \in Int
    BY <1>2
  <2>2. w \in Nat /\ Power(Radix, i + 1) = Radix * w /\ Power(Radix, i + 2) = Radix * (Radix * w)
    BY <2>1, Weights
  <2>3. x \in Digit /\ y \in Digit
    BY <2>1, AtIs
  <2>4. y = At(a, o + (i + 1) + 1)
    <3>1. At(c, i + 2) = At(a, o + (i + 2))
      BY <2>1 DEF IsSlice
    <3>2. o + (i + 2) = o + (i + 1) + 1
      OBVIOUS
    <3> QED BY <3>1, <3>2
  <2>5. s \in ColumnState /\ t = ColumnNext(x, q, y, s) /\ t \in ColumnState
    BY <1>0, <2>1, <2>4
  <2>6. At(l, i + 1) = t.low
    BY <2>1 DEF col
  <2>7. t.low + Radix * t.high + x * q + Radix * s.carry = s.high + Radix * y + (Radix * Radix) * t.carry
    <3> HIDE DEF s, t, x, y
    <3> QED BY <2>3, <2>5, ColumnNextIs
  <2>8. Value(l, i + 1) = Value(l, i) + t.low * w /\ Value(l, i) \in Nat
    BY <2>6, ValueIs
  <2>9. Value(d, i + 1) = Value(d, i) + x * w /\ Value(d, i) \in Nat
    BY ValueIs
  <2>10. Value(c, i + 2) = Value(c, i + 1) + y * (Radix * w) /\ Value(c, i + 1) \in Nat
    BY <2>1, <2>2, ValueIs
  <2>11. Value(l, i) + s.high * w + q * Value(d, i) = Value(c, i + 1) + s.carry * (Radix * w)
    BY <1>2, <2>2
  <2>12. s.high \in Nat /\ s.carry \in Nat /\ t.low \in Nat /\ t.high \in Nat /\ t.carry \in Nat
    <3> HIDE DEF s, t
    <3> QED BY <2>5 DEF ColumnState, Digit
  <2>13. x \in Nat /\ y \in Nat /\ q \in Nat /\ Radix \in Nat
    BY <2>3, Words DEF Digit
  <2> DEFINE vl == Value(l, i)
             vd == Value(d, i)
             vc == Value(c, i + 1)
             sh == s.high
             sc == s.carry
             tl == t.low
             th == t.high
             tc == t.carry
  <2>14. /\ vl \in Nat /\ sh \in Nat /\ q \in Nat /\ vd \in Nat /\ vc \in Nat /\ sc \in Nat /\ w \in Nat
         /\ tl \in Nat /\ th \in Nat /\ x \in Nat /\ y \in Nat /\ tc \in Nat /\ Radix \in Nat
         /\ ColumnAdds(vl, sh, q, vd, vc, sc, w, Radix)
         /\ ColumnSteps(tl, th, x, q, sc, sh, y, tc, Radix)
    BY <2>2, <2>7, <2>8, <2>9, <2>10, <2>11, <2>12, <2>13 DEF ColumnAdds, ColumnSteps
  <2> HIDE DEF vl, vd, vc, sh, sc, tl, th, tc, w, x, y, s, t
  <2>18. ColumnAdds(vl + tl * w, th, q, vd + x * w, vc + y * (Radix * w), tc, Radix * w, Radix)
    BY <2>14, ColumnSum, Zenon
  <2>15. (vl + tl * w) + th * (Radix * w) + q * (vd + x * w) = (vc + y * (Radix * w)) + tc * (Radix * (Radix * w))
    BY <2>18 DEF ColumnAdds
  <2>16. Value(l, i + 1) = vl + tl * w /\ Value(d, i + 1) = vd + x * w /\ Value(c, (i + 1) + 1) = vc + y * (Radix * w)
    BY <2>1, <2>8, <2>9, <2>10 DEF vl, vd, vc, tl
  <2>17. col[i + 1].high = th /\ col[i + 1].carry = tc /\ Power(Radix, i + 1) = Radix * w /\ Power(Radix, (i + 1) + 1) = Radix * (Radix * w)
    BY <2>1, <2>2 DEF th, tc, t
  <2> QED BY <2>15, <2>16, <2>17
<1> HIDE DEF Eq
<1>3. ASSUME NEW i \in Nat, i \in T
      PROVE  i + 1 \in T
  <2>1. i + 1 <= n => Eq(i)
    BY <1>3
  <2> QED BY <1>2, <2>1
<1>4. n \in T
  <2> HIDE DEF T
  <2> QED BY <1>1, <1>3, Induction
<1> QED BY <1>4 DEF Eq, col, Totals

PutCells(a, o, n, cells, end) ==
    [i \in DOMAIN a |-> IF i \in o + 1 .. o + n THEN cells[i - o]
                        ELSE IF i = o + n + 1 THEN end ELSE a[i]]

Put(b, a, o, n, x) ==
    /\ b \in Seq(Digit) /\ Len(b) = Len(a)
    /\ \A i \in Nat : i > o + (n + 1) => At(b, i) = At(a, i)
    /\ Value(Slice(b, o, n + 1), n + 1) = x
    /\ Exchanged(Magnitude(b), Value(Slice(a, o, n + 1), n + 1), Magnitude(a), x, Power(Radix, o))

LEMMA PutIs ==
    ASSUME NEW a \in Seq(Digit), NEW o \in Nat, NEW n \in Nat, NEW cells \in Seq(Digit),
           NEW end \in Digit, Len(cells) = n, o + (n + 1) <= Len(a)
    PROVE  Put(PutCells(a, o, n, cells, end), a, o, n, Value(cells, n) + end * Power(Radix, n))
<1> DEFINE b == PutCells(a, o, n, cells, end)
           m == n + 1
           c == Slice(a, o, m)
           e == Slice(b, o, m)
           x == Value(cells, n) + end * Power(Radix, n)
<1>1. DOMAIN a = 1 .. Len(a) /\ Len(a) \in Nat
  OBVIOUS
<1>2. ASSUME NEW i \in 1 .. Len(a)
      PROVE  b[i] \in Digit
  <2>1. i \in o + 1 .. o + n => i - o \in 1 .. Len(cells)
    OBVIOUS
  <2>2. a[i] \in Digit /\ (i \in o + 1 .. o + n => cells[i - o] \in Digit)
    BY <2>1
  <2> QED BY <2>2 DEF PutCells
<1>3. b \in Seq(Digit) /\ Len(b) = Len(a)
  <2>1. b = [i \in 1 .. Len(a) |-> b[i]]
    BY <1>1 DEF PutCells
  <2> HIDE DEF b
  <2>2. b \in [1 .. Len(a) -> Digit]
    BY <1>2, <2>1
  <2> QED BY <1>1, <2>2
<1>4. \A i \in 1 .. Len(a) : b[i] = IF i \in o + 1 .. o + n THEN cells[i - o]
                                    ELSE IF i = o + n + 1 THEN end ELSE a[i]
  BY <1>1 DEF PutCells
<1> HIDE DEF b
<1>5. ASSUME NEW i \in Nat, i <= o \/ i > o + m
      PROVE  At(b, i) = At(a, i)
  <2>1. CASE i \in 1 .. Len(a)
    <3>1. b[i] = a[i]
      BY <1>4, <1>5, <2>1
    <3> QED BY <1>3, <2>1, <3>1, AtIs
  <2>2. CASE ~ (i \in 1 .. Len(a))
    <3>1. i \in Int /\ (i > Len(a) \/ i < 1)
      BY <2>2
    <3> QED BY <1>3, <3>1, AtIs
  <2> QED BY <2>1, <2>2
<1>6. m \in Nat /\ o + m <= Len(a) /\ o + m <= Len(b)
  BY <1>3
<1>7. /\ c \in Seq(Digit) /\ IsSlice(c, a, o, m)
      /\ e \in Seq(Digit) /\ IsSlice(e, b, o, m)
  <2> HIDE DEF m
  <2> QED BY <1>3, <1>6, SliceIs
<1>8. Value(e, m) = x
  <2>1. ASSUME NEW j \in 1 .. n
        PROVE  At(e, j) = At(cells, j)
    <3>1. At(e, j) = At(b, o + j)
      BY <1>7 DEF IsSlice
    <3>2. o + j \in 1 .. Len(a) /\ o + j \in o + 1 .. o + n /\ (o + j) - o = j
      OBVIOUS
    <3>3. b[o + j] = cells[j]
      BY <1>4, <3>2
    <3>4. At(b, o + j) = b[o + j] /\ At(cells, j) = cells[j]
      BY <1>3, <3>2, AtIs
    <3> QED BY <3>1, <3>3, <3>4
  <2>2. At(e, n + 1) = end
    <3>1. At(e, n + 1) = At(b, o + (n + 1))
      BY <1>7 DEF IsSlice
    <3>2. o + (n + 1) \in 1 .. Len(a) /\ ~ (o + (n + 1) \in o + 1 .. o + n) /\ o + (n + 1) = o + n + 1
      OBVIOUS
    <3>3. b[o + (n + 1)] = end
      BY <1>4, <3>2
    <3>4. At(b, o + (n + 1)) = b[o + (n + 1)]
      BY <1>3, <3>2, AtIs
    <3> QED BY <3>1, <3>3, <3>4
  <2> HIDE DEF e
  <2>3. Value(e, n) = Value(cells, n)
    BY <1>7, <2>1, ValueSame
  <2>4. Value(e, n + 1) = Value(e, n) + At(e, n + 1) * Power(Radix, n)
    BY <1>7, ValueIs
  <2> QED BY <2>2, <2>3, <2>4
<1>9. Exchanged(Magnitude(b), Value(c, m), Magnitude(a), Value(e, m), Power(Radix, o))
  <2>1. \A i \in 1 .. o : At(b, i) = At(a, i)
    BY <1>5
  <2>2. \A i \in Nat : i > o + m => At(b, i) = At(a, i)
    BY <1>5
  <2> HIDE DEF c, e, m
  <2> QED BY <1>3, <1>6, <1>7, <2>1, <2>2, Changed
<1>10. \A i \in Nat : i > o + (n + 1) => At(b, i) = At(a, i)
  BY <1>5
<1> HIDE DEF c, e, x
<1> QED BY <1>3, <1>8, <1>9, <1>10 DEF Put, b, c, e, x

(* What is left of a when q times d is taken away at index o, and the digit *)
(* it counts for.                                                           *)
Subtracted(s, a, o, d, q) ==
    LET n == Len(d)
        v == Value(Slice(a, o, n + 1), n + 1)
        m == Magnitude(d)
        w == Power(Radix, o)
    IN  /\ s.a \in Seq(Digit) /\ Len(s.a) = Len(a) /\ s.q \in Digit
        /\ \A i \in Nat : i > o + (n + 1) => At(s.a, i) = At(a, i)
        /\ q * m <= v => /\ s.q = q
                         /\ Magnitude(s.a) + (q * m) * w = Magnitude(a)
                         /\ Value(Slice(s.a, o, n + 1), n + 1) + q * m = v
        /\ q * m > v => /\ q >= 1 /\ s.q = q - 1
                        /\ (q - 1) * m <= v => Magnitude(s.a) + ((q - 1) * m) * w = Magnitude(a)

Less(b, t, w, a) == b + t * w = a

LEMMA Taken ==
    ASSUME NEW x \in Nat, NEW v \in Nat, NEW t \in Nat, NEW w \in Nat, NEW b \in Nat, NEW a \in Nat,
           Exchanged(b, v, a, x, w), x + t = v
    PROVE  Less(b, t, w, a)
<1>1. (x + t) * w = x * w + t * w
  OBVIOUS
<1> DEFINE p == x * w
           q == t * w
<1>2. p \in Nat /\ q \in Nat
  OBVIOUS
<1>3. b + (p + q) = a + p
  BY <1>1 DEF Exchanged
<1> HIDE DEF p, q
<1>4. b + q = a
  BY <1>2, <1>3
<1> QED BY <1>4 DEF q, Less

LEMMA SubtractMulIs ==
    ASSUME NEW a \in Seq(Digit), NEW o \in Nat, NEW d \in Seq(Digit), NEW q \in Digit,
           o + (Len(d) + 1) <= Len(a)
    PROVE  Subtracted(SubtractMul(a, o, d, q), a, o, d, q)
<1> DEFINE n == Len(d)
           col == Column(a, o, d, q)
           lows == [i \in 1 .. n |-> col[i].low]
           back == AddBignumWords(lows, d, n)
           s == SubtractMul(a, o, d, q)
           c == Slice(a, o, n + 1)
           v == Value(c, n + 1)
           m == Magnitude(d)
           w == Power(Radix, o)
           p == Power(Radix, n)
           h == col[n].high
           l == Value(lows, n)
<1>1. n \in Nat /\ o + (n + 1) <= Len(a)
  OBVIOUS
<1>2. s = IF col[n].carry = 0 THEN [a |-> PutCells(a, o, n, lows, h), q |-> q]
          ELSE [a |-> PutCells(a, o, n, back, 0), q |-> q - 1]
  BY DEF SubtractMul, PutCells
<1>3. ColumnsFrom(col, a, o, d, q)
  BY ColumnIs
<1> HIDE DEF col, n, s
<1>4. \A i \in Nat : col[i] \in ColumnState
  BY <1>3 DEF ColumnsFrom
<1>5. lows \in Seq(Digit) /\ Len(lows) = n /\ \A j \in 1 .. n : At(lows, j) = col[j].low
  <2>1. \A j \in 1 .. n : col[j].low \in Digit
    BY <1>1, <1>4 DEF ColumnState
  <2>2. lows \in Seq(Digit) /\ Len(lows) = n
    BY <1>1, <2>1
  <2>3. \A j \in 1 .. n : lows[j] = col[j].low
    OBVIOUS
  <2> HIDE DEF lows
  <2> QED BY <2>2, <2>3, AtIs
<1> HIDE DEF lows
<1>6. c \in Seq(Digit) /\ IsSlice(c, a, o, n + 1)
  <2>1. n + 1 \in Nat
    BY <1>1
  <2> QED BY <1>1, <2>1, SliceIs
<1> HIDE DEF c
<1>7. l + h * p + q * Value(d, n) = v + col[n].carry * Power(Radix, n + 1)
  <2>1. Totals(l, h, p, q, Value(d, n), v, col[n].carry, Power(Radix, n + 1))
    <3>1. IsSlice(c, a, o, n + 1) /\ c \in Seq(Digit) /\ lows \in Seq(Digit) /\ n \in Nat
          /\ \A j \in 1 .. n : At(lows, j) = Column(a, o, d, q)[j].low
      BY <1>1, <1>5, <1>6 DEF col
    <3> QED BY <3>1, ColumnValue DEF col
  <2> QED BY <2>1 DEF Totals
<1>8. Value(d, n) = m /\ m \in Nat /\ m < p
  BY MagnitudeIs DEF n, Magnitude
<1>9. p \in Nat /\ p > 0 /\ Power(Radix, n + 1) = Radix * p /\ w \in Nat
  BY <1>1, Weights
<1>10. h \in Digit /\ col[n].carry \in {0, 1}
  BY <1>1, <1>4 DEF ColumnState
<1>11. l \in Nat /\ l < p
  BY <1>1, <1>5, ValueIs, ValueBound
<1>12. v \in Nat
  <2>1. n + 1 \in Nat
    BY <1>1
  <2> QED BY <1>6, <2>1, ValueIs
<1>13. Radix \in Nat /\ Radix >= 4 /\ h \in Nat /\ h < Radix /\ q \in Nat /\ q < Radix
  BY <1>10, Words DEF Digit
<1>14. Magnitude(a) \in Nat
  BY MagnitudeIs
<1> HIDE DEF p, h, l, v, m, w
<1>15. CASE col[n].carry = 0
  <2> DEFINE b == PutCells(a, o, n, lows, h)
             x == l + h * p
             t == q * m
  <2>1. s.a = b /\ s.q = q
    BY <1>2, <1>15
  <2>2. Put(b, a, o, n, x)
    BY <1>1, <1>5, <1>10, PutIs DEF l, p
  <2> HIDE DEF b
  <2>3. x \in Nat /\ t \in Nat
    <3>1. h * p \in Nat
      BY <1>9, <1>13
    <3> QED BY <1>8, <1>11, <1>13, <3>1
  <2>4. x + t = v
    <3>1. x + t = v + 0 * (Radix * p)
      BY <1>7, <1>8, <1>9, <1>15
    <3>2. Radix * p \in Nat
      BY <1>9, <1>13
    <3> HIDE DEF x, t
    <3> QED BY <1>12, <3>1, <3>2
  <2> HIDE DEF x, t
  <2>5. /\ b \in Seq(Digit) /\ Len(b) = Len(a)
        /\ \A i \in Nat : i > o + (n + 1) => At(b, i) = At(a, i)
        /\ Value(Slice(b, o, n + 1), n + 1) = x
        /\ Exchanged(Magnitude(b), v, Magnitude(a), x, w)
    BY <2>2 DEF Put, v, w, c
  <2>6. Magnitude(b) + t * w = Magnitude(a)
    <3>1. Magnitude(b) \in Nat
      BY <2>5, MagnitudeIs
    <3>2. Less(Magnitude(b), t, w, Magnitude(a))
      BY <1>9, <1>12, <1>14, <2>3, <2>4, <2>5, <3>1, Taken
    <3> QED BY <3>2 DEF Less
  <2>7. t <= v /\ ~ (t > v)
    BY <1>12, <2>3, <2>4
  <2> QED BY <2>1, <2>4, <2>5, <2>6, <2>7 DEF Subtracted, s, t, v, c, n, m, w
<1>16. CASE col[n].carry = 1
  <2> DEFINE b == PutCells(a, o, n, back, 0)
             x == Value(back, n)
             t == q * m
             u == (q - 1) * m
             hp == h * p
             rp == Radix * p
  <2>1. s.a = b /\ s.q = q - 1
    BY <1>2, <1>16
  <2>2. back \in Seq(Digit) /\ Len(back) = n /\ x + Carry(lows, d)[n] * p = l + m
    BY <1>1, <1>5, <1>8, AddedWords DEF p, l
  <2>3. Carry(lows, d)[n] \in {0, 1}
    BY <1>1, <1>5, CarryIs
  <2> HIDE DEF back
  <2>4. x \in Nat /\ x < p
    BY <1>1, <2>2, ValueIs, ValueBound DEF p
  <2>5. Put(b, a, o, n, x)
    <3>1. 0 \in Digit
      BY <1>13 DEF Digit
    <3>2. Put(b, a, o, n, x + 0 * p)
      BY <1>1, <2>2, <3>1, PutIs DEF p
    <3>3. x + 0 * p = x
      <4> HIDE DEF x
      <4> QED BY <1>9, <2>4
    <3> QED BY <3>2, <3>3
  <2> HIDE DEF b, x
  <2>6. hp \in Nat /\ rp \in Nat /\ t \in Nat
    BY <1>8, <1>9, <1>13
  <2>7. hp + p <= rp
    <3>1. (h + 1) * p <= Radix * p
      BY <1>9, <1>13
    <3>2. (h + 1) * p = h * p + p
      BY <1>9, <1>13
    <3> QED BY <3>1, <3>2
  <2>8. l + hp + t = v + rp
    <3>1. l + hp + t = v + 1 * rp
      BY <1>7, <1>8, <1>9, <1>16
    <3> HIDE DEF rp
    <3> QED BY <2>6, <3>1
  <2>9. q >= 1 /\ q - 1 \in Nat
    <3>1. q = 0 => t = 0
      BY <1>8
    <3>2. t > v
      <4> HIDE DEF hp, rp, t
      <4> QED BY <1>9, <1>11, <1>12, <2>6, <2>7, <2>8
    <3> HIDE DEF t
    <3> QED BY <1>12, <1>13, <3>1, <3>2
  <2>10. u \in Nat /\ t = u + m
    <3>1. u \in Nat
      BY <1>8, <2>9
    <3>2. (q - 1) * m = q * m - m
      BY <1>8, <1>13
    <3> HIDE DEF u, t
    <3> QED BY <1>8, <2>6, <3>1, <3>2 DEF u, t
  <2> HIDE DEF hp, rp, t, u
  <2>11. t > v
    BY <1>9, <1>11, <1>12, <2>6, <2>7, <2>8
  <2>12. /\ b \in Seq(Digit) /\ Len(b) = Len(a)
         /\ \A i \in Nat : i > o + (n + 1) => At(b, i) = At(a, i)
         /\ Exchanged(Magnitude(b), v, Magnitude(a), x, w)
    BY <2>5 DEF Put, v, w, c
  <2>13. ASSUME u <= v
         PROVE  Magnitude(b) + u * w = Magnitude(a)
    <3> DEFINE y == v - u
               z == Carry(lows, d)[n]
               j == Radix - h
    <3>1. y \in Nat /\ y < m /\ y < p
      BY <1>8, <1>9, <1>12, <2>10, <2>11, <2>13
    <3>2. z \in Nat /\ j \in Nat /\ x + z * p = l + m
      BY <1>13, <2>2, <2>3
    <3>3. l + m = y + j * p
      <4>1. j * p = rp - hp
        BY <1>9, <1>13 DEF rp, hp
      <4> DEFINE i == j * p
      <4>2. i = rp - hp
        BY <4>1
      <4> HIDE DEF i, j, y
      <4>3. l + m = y + i
        BY <1>8, <1>11, <1>12, <2>6, <2>8, <2>10, <4>2 DEF y
      <4> QED BY <4>3 DEF i
    <3> HIDE DEF y, z, j
    <3>4. x + z * p = y + j * p
      BY <3>2, <3>3
    <3>5. x = y
      <4>1. x \in Nat /\ y \in Nat /\ z \in Nat /\ j \in Nat /\ p \in Nat /\ x < p /\ y < p /\ x + z * p = y + j * p
        BY <1>9, <2>4, <3>1, <3>2, <3>4
      <4> QED BY <4>1, TopDigit, Zenon
    <3>6. x + u = v
      BY <1>12, <2>10, <3>5 DEF y
    <3>7. Magnitude(b) \in Nat
      BY <2>12, MagnitudeIs
    <3>8. Less(Magnitude(b), u, w, Magnitude(a))
      BY <1>9, <1>12, <1>14, <2>4, <2>10, <2>12, <3>6, <3>7, Taken
    <3> QED BY <3>8 DEF Less
  <2>14. ~ (t <= v) /\ q - 1 \in Digit
    <3>1. q - 1 \in Digit
      BY <1>13, <2>9 DEF Digit
    <3> QED BY <1>12, <2>6, <2>11, <3>1
  <2> QED BY <2>1, <2>9, <2>11, <2>12, <2>13, <2>14 DEF Subtracted, s, t, u, v, c, n, m, w
<1> QED BY <1>10, <1>15, <1>16

(* The estimate of a digit is that of the quotient or one more. *)
LEMMA EstimateHigh ==
    ASSUME NEW A \in Nat, NEW v1 \in Nat, v1 > 0, NEW w \in Nat, NEW low \in Nat, low < w,
           NEW dl \in Nat
    PROVE  A * w + low < ((A \div v1) + 1) * (v1 * w + dl)
<1> DEFINE q == A \div v1
           r == A % v1
<1>1. q \in Nat /\ r \in Nat /\ r < v1 /\ A = v1 * q + r
  BY DivMod
<1> HIDE DEF q, r
<1>2. A + 1 <= (q + 1) * v1
  <2>1. (q + 1) * v1 = v1 * q + v1
    BY <1>1
  <2> DEFINE z == v1 * q
  <2>2. z \in Nat
    BY <1>1
  <2> HIDE DEF z
  <2> QED BY <1>1, <2>1, <2>2 DEF z
<1> DEFINE b == (q + 1) * v1
           c == (q + 1) * dl
<1>3. b \in Nat /\ c \in Nat
  BY <1>1
<1>4. (q + 1) * (v1 * w + dl) = b * w + c
  <2> DEFINE y == v1 * w
  <2>1. y \in Nat /\ b * w = (q + 1) * y
    BY <1>1
  <2> HIDE DEF y, b
  <2>2. (q + 1) * (y + dl) = (q + 1) * y + (q + 1) * dl
    BY <1>1, <2>1
  <2> QED BY <2>1, <2>2 DEF y
<1>5. (A + 1) * w <= b * w
  <2> HIDE DEF b
  <2> QED BY <1>2, <1>3 DEF b
<1>6. (A + 1) * w = A * w + w
  OBVIOUS
<1> DEFINE x == A * w
           z == b * w
<1>7. x \in Nat /\ z \in Nat
  BY <1>3
<1>8. x + w <= z
  BY <1>5, <1>6
<1> HIDE DEF b, c, x, z
<1>9. x + low < z + c
  BY <1>3, <1>7, <1>8
<1> QED BY <1>4, <1>9 DEF x, z, q

LEMMA EstimateLow ==
    ASSUME NEW A \in Nat, NEW v1 \in Nat, v1 > 0, NEW w \in Nat, NEW low \in Nat,
           NEW dl \in Nat, A \div v1 >= 1, ((A \div v1) - 1) * dl <= v1 * w
    PROVE  ((A \div v1) - 1) * (v1 * w + dl) <= A * w + low
<1> DEFINE q == A \div v1
           r == A % v1
           t == q - 1
           y == v1 * w
           z == v1 * q
<1>1. q \in Nat /\ r \in Nat /\ A = v1 * q + r
  BY DivMod
<1>2. t \in Nat /\ q = t + 1 /\ t * dl <= y /\ y \in Nat
  BY <1>1
<1> HIDE DEF q, r, t, y
<1>3. t * (y + dl) = t * y + t * dl
  BY <1>2
<1>4. t * y + y = z * w
  <2>1. t * y + y = q * y
    BY <1>2
  <2>2. q * y = z * w
    BY <1>1 DEF y
  <2> QED BY <2>1, <2>2
<1>5. z * w <= A * w
  <2>1. z \in Nat /\ z <= A
    BY <1>1
  <2> HIDE DEF z
  <2> QED BY <2>1
<1> DEFINE a == t * y
           b == t * dl
           c == z * w
           e == A * w
           f == t * (y + dl)
<1>6. a \in Nat /\ b \in Nat /\ c \in Nat /\ e \in Nat /\ f \in Nat
  <2>1. z \in Nat
    BY <1>1
  <2> HIDE DEF z
  <2> QED BY <1>2, <2>1
<1>7. f = a + b /\ b <= y /\ a + y = c /\ c <= e
  BY <1>2, <1>3, <1>4, <1>5
<1> HIDE DEF a, b, c, e, f
<1>8. f <= e + low
  BY <1>2, <1>6, <1>7
<1> QED BY <1>8 DEF f, e, t, y, q

(* The divisor as the loop needs it: its first bit is set and its second    *)
(* digit is not larger than the first.                                      *)
Divisor(d) ==
    /\ d \in Seq(Digit) /\ Len(d) >= 1 /\ 2 * Last(d) >= Radix
    /\ Len(d) > 1 => d[Len(d) - 1] <= Last(d)

LEMMA DivisorIs ==
    ASSUME NEW d, Divisor(d)
    PROVE  LET n == Len(d)
               v1 == Last(d)
               w == Power(Radix, n - 1)
               dl == Value(d, n - 1)
           IN  /\ n \in Nat /\ n - 1 \in Nat /\ w \in Nat /\ w > 0 /\ Power(Radix, n) = Radix * w
               /\ v1 \in Digit /\ v1 \in Nat /\ v1 >= 2 /\ v1 < Radix
               /\ dl \in Nat /\ dl < w
               /\ Magnitude(d) = v1 * w + dl
               /\ \A q \in 1 .. Radix - 1 : (q - 1) * dl <= v1 * w
<1> DEFINE n == Len(d)
           v1 == Last(d)
           w == Power(Radix, n - 1)
           dl == Value(d, n - 1)
<1>1. d \in Seq(Digit) /\ n \in Nat /\ n - 1 \in Nat /\ n \in 1 .. Len(d) /\ (n - 1) + 1 = n /\ n >= 1
  BY DEF Divisor
<1>2. v1 = d[n] /\ At(d, n) = v1 /\ v1 \in Digit
  BY <1>1, AtIs DEF Last
<1>3. Radix \in Nat /\ Radix >= 4 /\ v1 \in Nat /\ v1 < Radix /\ 2 * v1 >= Radix
  BY <1>2, Words DEF Divisor, Digit
<1>4. w \in Nat /\ w > 0 /\ dl \in Nat /\ dl < w /\ Power(Radix, (n - 1) + 1) = Radix * w
  BY <1>1, Weights, ValueIs, ValueBound
<1>5. Value(d, (n - 1) + 1) = dl + At(d, (n - 1) + 1) * w
  BY <1>1, ValueIs
<1>6. Magnitude(d) = v1 * w + dl
  <2>1. Magnitude(d) = dl + v1 * w
    BY <1>1, <1>2, <1>5 DEF Magnitude
  <2> HIDE DEF v1, w, dl
  <2> QED BY <1>3, <1>4, <2>1
<1>7. ASSUME NEW q \in 1 .. Radix - 1
      PROVE  (q - 1) * dl <= v1 * w
  <2>1. q \in Nat /\ q - 1 \in Nat /\ q - 1 <= Radix - 2 /\ Radix - 2 \in Nat
    BY <1>3
  <2>2. CASE n = 1
    <3>1. w = 1
      BY <2>2, Weights
    <3> HIDE DEF w, dl, v1
    <3>2. dl = 0
      BY <1>4, <3>1
    <3>3. (q - 1) * dl = 0
      BY <2>1, <3>2
    <3>4. v1 * w \in Nat
      BY <1>3, <1>4
    <3> QED BY <3>3, <3>4
  <2>3. CASE n > 1
    <3> DEFINE w2 == Power(Radix, n - 2)
               v2 == d[n - 1]
               e == Value(d, n - 2)
               f == Radix - 2
    <3>1. n - 2 \in Nat /\ (n - 2) + 1 = n - 1 /\ n - 1 \in 1 .. Len(d)
      BY <1>1, <2>3
    <3>2. w2 \in Nat /\ e \in Nat /\ e < w2 /\ w = Radix * w2
      BY <1>1, <3>1, Weights, ValueIs, ValueBound
    <3>3. v2 \in Nat /\ At(d, n - 1) = v2 /\ v2 <= v1
      <4>1. v2 \in Digit /\ v2 <= v1
        BY <1>1, <2>3, <3>1 DEF Divisor
      <4>2. At(d, n - 1) = v2
        BY <1>1, <3>1, AtIs
      <4> QED BY <1>3, <4>1, <4>2 DEF Digit
    <3>4. dl = e + v2 * w2
      <4>1. Value(d, (n - 2) + 1) = e + At(d, (n - 2) + 1) * w2
        BY <1>1, <3>1, ValueIs
      <4> QED BY <3>1, <3>3, <4>1
    <3> HIDE DEF w, w2, dl, v1, v2, e
    <3>5. dl <= (v1 + 1) * w2
      <4>1. v2 * w2 <= v1 * w2
        BY <1>3, <3>2, <3>3
      <4>2. (v1 + 1) * w2 = v1 * w2 + w2
        BY <1>3, <3>2
      <4> DEFINE x == v2 * w2
                 y == v1 * w2
      <4>3. x \in Nat /\ y \in Nat /\ x <= y
        BY <1>3, <3>2, <3>3, <4>1
      <4>4. dl = e + x /\ (v1 + 1) * w2 = y + w2
        BY <3>4, <4>2
      <4> HIDE DEF x, y
      <4> QED BY <3>2, <4>3, <4>4
    <3>6. f * (v1 + 1) <= Radix * v1
      <4>1. f * (v1 + 1) = Radix * v1 + Radix - 2 * v1 - 2
        BY <1>3
      <4> DEFINE x == Radix * v1
      <4>2. x \in Nat
        BY <1>3
      <4> HIDE DEF x
      <4> QED BY <1>3, <4>1, <4>2 DEF x
    <3>7. f \in Nat /\ q - 1 <= f
      BY <2>1
    <3> HIDE DEF f
    <3>8. (q - 1) * dl <= f * dl
      BY <1>4, <2>1, <3>7
    <3>9. f * dl <= f * ((v1 + 1) * w2)
      <4> DEFINE x == (v1 + 1) * w2
      <4>1. x \in Nat /\ dl <= x
        BY <1>3, <3>2, <3>5
      <4> HIDE DEF x
      <4>2. f * dl <= f * x
        BY <1>4, <3>7, <4>1
      <4> QED BY <4>2 DEF x
    <3>10. f * ((v1 + 1) * w2) <= v1 * w
      <4> DEFINE x == f * (v1 + 1)
                 y == Radix * v1
      <4>1. x \in Nat /\ y \in Nat /\ x <= y
        BY <1>3, <3>6, <3>7
      <4>2. f * ((v1 + 1) * w2) = x * w2
        BY <1>3, <3>2, <3>7
      <4>3. v1 * w = y * w2
        BY <1>3, <3>2
      <4> HIDE DEF x, y
      <4>4. x * w2 <= y * w2
        BY <3>2, <4>1
      <4> QED BY <4>2, <4>3, <4>4
    <3> DEFINE a == (q - 1) * dl
               b == f * dl
               c == f * ((v1 + 1) * w2)
               g == v1 * w
    <3>11. a \in Int /\ b \in Int /\ c \in Int /\ g \in Int
      <4>1. (v1 + 1) * w2 \in Int
        BY <1>3, <3>2
      <4> QED BY <1>3, <1>4, <2>1, <3>7, <4>1
    <3>12. a <= b /\ b <= c /\ c <= g
      BY <3>8, <3>9, <3>10
    <3> HIDE DEF a, b, c, g
    <3>13. a <= g
      BY <3>11, <3>12
    <3> QED BY <3>13 DEF a, g
  <2> QED BY <1>1, <2>2, <2>3
<1> HIDE DEF w, dl, v1, n
<1>8. n \in Nat /\ n - 1 \in Nat /\ w \in Nat /\ w > 0 /\ Power(Radix, n) = Radix * w
      /\ v1 \in Digit /\ v1 \in Nat /\ v1 >= 2 /\ v1 < Radix /\ dl \in Nat /\ dl < w
  BY <1>1, <1>2, <1>3, <1>4
<1> QED BY <1>6, <1>7, <1>8 DEF w, dl, v1, n

(* A number that is small has no high cells. *)
LEMMA Small ==
    ASSUME NEW c \in Seq(Digit), NEW j \in Nat, Magnitude(c) < Power(Radix, j)
    PROVE  /\ Value(c, j) = Magnitude(c)
           /\ \A i \in Nat : i > j => At(c, i) = 0
<1> DEFINE m == Magnitude(c)
<1>1. m \in Nat /\ Len(c) \in Nat /\ \A n \in Nat : n >= Len(c) => Value(c, n) = m
  BY MagnitudeIs
<1>2. ASSUME NEW i \in Nat, i > j
      PROVE  At(c, i) = 0
  <2> DEFINE n == i - 1
             p == Power(Radix, n)
  <2>1. n \in Nat /\ n >= j /\ n + 1 = i
    BY <1>2
  <2>2. At(c, n + 1) = (m \div p) % Radix
    BY <2>1, AtMagnitude
  <2>3. p \in Nat /\ p > 0 /\ m < p
    <3>1. Power(Radix, j) <= Power(Radix, n) /\ Power(Radix, j) \in Nat /\ Power(Radix, n) \in Nat
      <4>1. Radix \in Nat /\ Radix >= 2 /\ j <= n
        BY <2>1, Words
      <4>2. Power(Radix, j) <= Power(Radix, n)
        <5> HIDE DEF n
        <5> QED BY <2>1, <4>1, PowerGrows
      <4> QED BY <2>1, <4>2, Weights
    <3> QED BY <1>1, <2>1, <3>1, Weights
  <2> HIDE DEF m, p
  <2>4. m = p * 0 + m /\ 0 \in Int /\ m \in Int /\ 0 = Radix * 0 + 0 /\ Radix \in Nat /\ Radix > 0
    BY <1>1, <2>3, Words
  <2>5. m \div p = 0
    BY <1>1, <2>3, <2>4, DivUnique
  <2>6. 0 % Radix = 0
    BY <2>4, DivUnique
  <2> QED BY <2>1, <2>2, <2>5, <2>6
<1>3. Value(c, j) = m
  <2>1. CASE j >= Len(c)
    BY <1>1, <2>1
  <2>2. CASE ~ (j >= Len(c))
    <3>1. Value(c, Len(c)) = Value(c, j)
      BY <1>1, <1>2, <2>2, ValueTop
    <3> QED BY <3>1 DEF Magnitude
  <2> QED BY <2>1, <2>2
<1> QED BY <1>2, <1>3

(* The two top cells of the part of a that a step works on. *)
LEMMA SliceTop ==
    ASSUME NEW a \in Seq(Digit), NEW o \in Nat, NEW n \in Nat, n >= 1, o + (n + 1) <= Len(a)
    PROVE  LET w == Power(Radix, n - 1)
               low == Value(Slice(a, o, n + 1), n - 1)
               top == At(a, o + (n + 1)) * Radix + At(a, o + n)
           IN  /\ Value(Slice(a, o, n + 1), n + 1) = top * w + low
               /\ low \in Nat /\ low < w /\ top \in Nat
<1> DEFINE c == Slice(a, o, n + 1)
           w == Power(Radix, n - 1)
           low == Value(c, n - 1)
           x == At(a, o + (n + 1))
           y == At(a, o + n)
<1>1. c \in Seq(Digit) /\ IsSlice(c, a, o, n + 1)
  <2>1. n + 1 \in Nat
    OBVIOUS
  <2> QED BY <2>1, SliceIs
<1> HIDE DEF c
<1>2. At(c, n + 1) = x /\ At(c, n) = y
  <2>1. n + 1 \in 1 .. n + 1 /\ n \in 1 .. n + 1
    OBVIOUS
  <2> QED BY <1>1, <2>1 DEF IsSlice
<1>3. x \in Nat /\ y \in Nat
  <2>1. o + (n + 1) \in Int /\ o + n \in Int
    OBVIOUS
  <2> QED BY <2>1, AtIs
<1>4. n - 1 \in Nat /\ (n - 1) + 1 = n
  OBVIOUS
<1>5. w \in Nat /\ low \in Nat /\ low < w /\ Power(Radix, (n - 1) + 1) = Radix * w /\ Radix \in Nat
  BY <1>1, <1>4, Weights, ValueIs, ValueBound, Words
<1>6. Value(c, (n - 1) + 1) = low + At(c, (n - 1) + 1) * w
  BY <1>1, <1>4, ValueIs
<1>7. Value(c, n + 1) = Value(c, n) + At(c, n + 1) * Power(Radix, n)
  BY <1>1, ValueIs
<1>8. Value(c, n + 1) = (low + y * w) + x * (Radix * w)
  BY <1>2, <1>4, <1>5, <1>6, <1>7
<1> HIDE DEF x, y, w, low
<1>9. (low + y * w) + x * (Radix * w) = (x * Radix + y) * w + low
  <2>1. x * (Radix * w) = (x * Radix) * w
    BY <1>3, <1>5
  <2> DEFINE z == x * Radix
  <2>2. z \in Nat
    BY <1>3, <1>5
  <2> HIDE DEF z
  <2>3. (z + y) * w = z * w + y * w /\ z * w \in Nat /\ y * w \in Nat
    BY <1>3, <1>5, <2>2
  <2> DEFINE p == z * w
             q == y * w
             s == (z + y) * w
  <2>4. s = p + q /\ p \in Nat /\ q \in Nat
    BY <2>3
  <2> HIDE DEF p, q, s
  <2>5. (low + q) + p = s + low
    BY <1>5, <2>4
  <2> QED BY <2>1, <2>5 DEF p, q, s, z
<1>10. x * Radix + y \in Nat
  <2>1. x * Radix \in Nat
    BY <1>3, <1>5
  <2> QED BY <1>3, <2>1
<1> QED BY <1>5, <1>8, <1>9, <1>10 DEF x, y, w, low, c

(* The digit that the estimate of a step gives, in one word.  *)
LEMMA WideEstimate ==
    ASSUME NEW x \in Nat, NEW y \in Nat, y < Radix, NEW v1 \in Nat, v1 >= 1, 2 * v1 >= Radix
    PROVE  LET est == (x * Radix + y) \div v1
           IN  /\ est \in Nat
               /\ est >= Radix <=> x >= v1
               /\ x = v1 => est % Radix <= 1
<1> DEFINE A == x * Radix + y
           est == A \div v1
           r == A % v1
<1>1. Radix \in Nat /\ Radix >= 4
  BY Words
<1>2. A \in Nat
  BY <1>1
<1>3. est \in Nat /\ r \in Nat /\ r < v1 /\ A = v1 * est + r
  <2> HIDE DEF A
  <2> QED BY <1>2, DivMod
<1>4. ASSUME x >= v1
      PROVE  est >= Radix
  <2>1. ASSUME est < Radix
        PROVE  FALSE
    <3>1. v1 * est <= v1 * (Radix - 1)
      BY <1>1, <1>3, <2>1
    <3>2. v1 * (Radix - 1) = v1 * Radix - v1
      BY <1>1
    <3>3. x * Radix >= v1 * Radix
      BY <1>1, <1>4
    <3> DEFINE a == v1 * est
               b == v1 * Radix
               c == x * Radix
    <3>4. a \in Nat /\ b \in Nat /\ c \in Nat /\ a <= b - v1 /\ c >= b
      BY <1>1, <1>3, <3>1, <3>2, <3>3
    <3>5. c + y = a + r
      BY <1>3
    <3> HIDE DEF a, b, c
    <3> QED BY <1>3, <3>4, <3>5
  <2> QED BY <1>1, <1>3, <2>1
<1>5. ASSUME est >= Radix
      PROVE  x >= v1
  <2>1. ASSUME x < v1
        PROVE  FALSE
    <3>1. (x + 1) * Radix <= v1 * Radix
      BY <1>1, <2>1
    <3>2. (x + 1) * Radix = x * Radix + Radix
      BY <1>1
    <3>3. v1 * est >= v1 * Radix
      BY <1>1, <1>3, <1>5
    <3> DEFINE a == v1 * est
               b == v1 * Radix
               c == x * Radix
    <3>4. a \in Nat /\ b \in Nat /\ c \in Nat /\ c + Radix <= b /\ a >= b
      BY <1>1, <1>3, <3>1, <3>2, <3>3
    <3>5. c + y = a + r
      BY <1>3
    <3> HIDE DEF a, b, c
    <3> QED BY <1>1, <1>3, <3>4, <3>5
  <2> QED BY <2>1
<1>6. ASSUME x = v1
      PROVE  est % Radix <= 1
  <2> DEFINE t == est - Radix
  <2>1. t \in Nat /\ est = Radix * 1 + t
    BY <1>1, <1>3, <1>4, <1>6
  <2>2. t <= 1
    <3>1. v1 * est = v1 * Radix + v1 * t
      <4>1. est = Radix + t
        BY <1>1, <1>3, <2>1
      <4> HIDE DEF est, t
      <4>2. v1 * (Radix + t) = v1 * Radix + v1 * t
        BY <1>1, <2>1
      <4> QED BY <4>1, <4>2
    <3>2. t >= 2 => v1 * t >= v1 * 2
      BY <2>1
    <3> DEFINE a == v1 * est
               b == v1 * Radix
               c == v1 * t
    <3>3. a \in Nat /\ b \in Nat /\ c \in Nat /\ a = b + c /\ (t >= 2 => c >= 2 * v1)
      BY <1>1, <1>3, <2>1, <3>1, <3>2
    <3>4. b + y = a + r
      BY <1>1, <1>3, <1>6
    <3> HIDE DEF a, b, c
    <3>5. ~ (t >= 2)
      BY <1>1, <1>3, <3>3, <3>4
    <3> QED BY <2>1, <3>5
  <2>3. t < Radix /\ est \in Int /\ 1 \in Int
    BY <1>1, <1>3, <2>1, <2>2
  <2> HIDE DEF est, t
  <2>4. est % Radix = t
    BY <1>1, <2>1, <2>3, DivUnique
  <2> QED BY <2>2, <2>4
<1> QED BY <1>3, <1>4, <1>5, <1>6

(* What a digit too many leaves: the divisor can be taken away that often.  *)
LEMMA WideTaken ==
    ASSUME NEW x \in Nat, NEW y \in Nat, NEW v1 \in Nat, v1 >= 2, NEW w \in Nat, NEW dl \in Nat,
           dl < w, NEW low \in Nat, NEW q \in Nat, q < Radix, x >= v1, x = v1 => q <= 1
    PROVE  /\ q * (v1 * w + dl) <= (x * Radix + y) * w + low
           /\ x = v1 => q * (v1 * w + dl) + Radix * w <= (x * Radix + y) * w + low
<1> DEFINE g == v1 * w
           u == Radix * w
           t == (x * Radix + y) * w
           m == g + dl
<1>1. Radix \in Nat /\ Radix >= 4
  BY Words
<1>2. g \in Nat /\ u \in Nat /\ m \in Nat
  BY <1>1
<1>3. g >= 2 * w
  BY <1>1
<1>4. x * Radix \in Nat /\ x * Radix + y \in Nat
  BY <1>1
<1>5. t \in Nat /\ t >= (x * Radix) * w
  <2> DEFINE z == x * Radix
  <2>1. z \in Nat
    BY <1>4
  <2> HIDE DEF z
  <2>2. (z + y) * w = z * w + y * w /\ z * w \in Nat /\ y * w \in Nat
    BY <2>1
  <2> QED BY <2>2 DEF z
<1>6. Radix * g \in Nat /\ (v1 * Radix) * w = Radix * g
  BY <1>1
<1>7. CASE x = v1
  <2>1. t >= Radix * g
    BY <1>5, <1>6, <1>7
  <2>2. Radix * g >= g + w + u
    <3>1. (Radix - 1) * g >= (Radix - 1) * (2 * w)
      <4> HIDE DEF g
      <4> QED BY <1>1, <1>2, <1>3
    <3>2. (Radix - 1) * g = Radix * g - g /\ (Radix - 1) * (2 * w) = 2 * u - 2 * w
      <4> HIDE DEF g
      <4> QED BY <1>1, <1>2
    <3>3. u >= 4 * w
      BY <1>1
    <3> DEFINE e == Radix * g
    <3>4. e \in Nat /\ e - g >= 2 * u - 2 * w
      BY <1>6, <3>1, <3>2
    <3> HIDE DEF e, g, u
    <3> QED BY <1>2, <3>3, <3>4 DEF e
  <2>3. q * m <= m /\ q * m \in Nat
    <3>1. q = 0 \/ q = 1
      BY <1>7
    <3> HIDE DEF m
    <3> QED BY <1>2, <3>1
  <2> DEFINE e == Radix * g
             f == q * m
  <2>4. e \in Nat /\ f \in Nat /\ t >= e /\ e >= g + w + u /\ f <= g + dl
    BY <1>6, <2>1, <2>2, <2>3
  <2> HIDE DEF e, f, g, u, t
  <2>5. f + u <= t + low /\ f <= t + low
    BY <1>2, <1>5, <2>4
  <2> QED BY <2>5 DEF f, g, u, t
<1>8. CASE x > v1
  <2>1. (x * Radix) * w >= Radix * (g + w)
    <3>1. x * Radix >= (v1 + 1) * Radix
      BY <1>1, <1>8
    <3>2. ((v1 + 1) * Radix) * w = Radix * (g + w)
      BY <1>1
    <3> DEFINE a == x * Radix
               b == (v1 + 1) * Radix
    <3>3. a \in Nat /\ b \in Nat /\ a >= b
      BY <1>1, <3>1
    <3> HIDE DEF a, b
    <3>4. a * w >= b * w
      BY <3>3
    <3> QED BY <3>2, <3>4 DEF a, b
  <2>2. q * m <= Radix * (g + w)
    <3> DEFINE h == g + w
    <3>1. h \in Nat /\ m <= h
      BY <1>2
    <3> HIDE DEF h, m
    <3>2. q * m <= q * h /\ q * h <= Radix * h
      BY <1>1, <1>2, <3>1
    <3>3. q * m \in Nat /\ q * h \in Nat /\ Radix * h \in Nat
      BY <1>1, <1>2, <3>1
    <3> DEFINE a == q * m
               b == q * h
               c == Radix * h
    <3>4. a \in Nat /\ b \in Nat /\ c \in Nat /\ a <= b /\ b <= c
      BY <3>2, <3>3
    <3> HIDE DEF a, b, c
    <3>5. a <= c
      BY <3>4
    <3> QED BY <3>5 DEF a, c, h
  <2> DEFINE a == q * m
             b == Radix * (g + w)
             c == (x * Radix) * w
  <2>3. a \in Nat /\ b \in Nat /\ c \in Nat
    <3>1. g + w \in Nat
      BY <1>2
    <3> HIDE DEF g, m
    <3> QED BY <1>1, <1>2, <1>4, <3>1
  <2>4. a <= b /\ b <= c /\ c <= t
    BY <1>5, <2>1, <2>2
  <2> HIDE DEF a, b, c, t
  <2>5. a <= t + low
    BY <1>5, <2>3, <2>4
  <2> QED BY <1>8, <2>5 DEF a, t
<1> QED BY <1>7, <1>8

(* A number below m * (Radix * w), n cells above w.                         *)
LEMMA TopSmall ==
    ASSUME NEW M \in Nat, NEW x \in Nat, NEW v1 \in Nat, NEW w \in Nat, NEW dl \in Nat, dl < w,
           NEW p \in Nat, M < (v1 * w + dl) * (Radix * p), M >= x * (Radix * w * p)
    PROVE  x <= v1
<1>1. Radix \in Nat /\ Radix >= 4
  BY Words
<1>2. ASSUME x >= v1 + 1
      PROVE  FALSE
  <2> DEFINE m == v1 * w + dl
             e == Radix * p
             h == (v1 + 1) * w
  <2>1. m \in Nat /\ e \in Nat /\ h \in Nat
    BY <1>1
  <2>2. m <= h
    <3>1. (v1 + 1) * w = v1 * w + w /\ v1 * w \in Nat
      OBVIOUS
    <3> QED BY <3>1
  <2>3. x * (Radix * w * p) = (x * w) * e
    BY <1>1
  <2>4. x * w \in Nat /\ x * w >= h
    BY <1>2
  <2> DEFINE z == x * w
  <2> HIDE DEF m, e, h, z
  <2>5. m * e <= h * e /\ h * e <= z * e
    BY <2>1, <2>2, <2>4 DEF z
  <2>6. m * e \in Nat /\ h * e \in Nat /\ z * e \in Nat
    BY <2>1, <2>4 DEF z
  <2> DEFINE a == m * e
             b == h * e
             c == z * e
  <2>7. a \in Nat /\ b \in Nat /\ c \in Nat /\ a <= b /\ b <= c
    BY <2>5, <2>6
  <2>8. M < a /\ M >= c
    BY <2>3 DEF m, e, z
  <2> HIDE DEF a, b, c
  <2> QED BY <2>7, <2>8
<1> QED BY <1>2

(* What a step leaves is less than the divisor at its place.                *)
LEMMA LeftOver ==
    ASSUME NEW M \in Nat, NEW b \in Nat, NEW v \in Nat, NEW e \in Nat, NEW m \in Nat, NEW p \in Nat,
           NEW q \in Nat, M = e + v * p, e < p, v < (q + 1) * m, b + (q * m) * p = M
    PROVE  b < m * p
<1> DEFINE t == (q + 1) * m
           f == q * m
<1>1. t \in Nat /\ f \in Nat /\ t = f + m
  OBVIOUS
<1>2. v + 1 <= t
  BY <1>1
<1> HIDE DEF t, f
<1>3. (v + 1) * p <= t * p
  BY <1>1, <1>2
<1>4. (v + 1) * p = v * p + p /\ t * p = f * p + m * p
  BY <1>1
<1> DEFINE x == v * p
           y == f * p
           z == m * p
<1>5. x \in Nat /\ y \in Nat /\ z \in Nat
  BY <1>1
<1>6. x + p <= y + z /\ M = e + x /\ b + y = M
  BY <1>3, <1>4 DEF f
<1> HIDE DEF x, y, z
<1>7. b < z
  BY <1>5, <1>6
<1> QED BY <1>7 DEF z

(* What a step of the division does to the remainder: q times the divisor   *)
(* is taken away at index o, and as long as the quotient so far is right,   *)
(* less than the divisor is left, unless the estimate needs two words.      *)
Digited(s, a, o, d, est) ==
    LET n == Len(d)
        m == Magnitude(d)
        x == At(a, o + (n + 1))
    IN  /\ s.a \in Seq(Digit) /\ Len(s.a) = Len(a) /\ s.q \in Digit
        /\ \A i \in Nat : i > o + (n + 1) => At(s.a, i) = At(a, i)
        /\ Less(Magnitude(s.a), s.q * m, Power(Radix, o), Magnitude(a))
        /\ Magnitude(a) < m * Power(Radix, o + 1)
           => /\ x = Magnitude(a) \div Power(Radix, o + n)
              /\ est >= Radix <=> x = Last(d)
              /\ est < Radix => Magnitude(s.a) < m * Power(Radix, o)
              /\ est >= Radix => At(s.a, o + (n + 1)) >= 1

LEMMA DigitStep ==
    ASSUME NEW d, Divisor(d), NEW a \in Seq(Digit), NEW o \in Nat, o + (Len(d) + 1) <= Len(a)
    PROVE  LET est == (a[o + (Len(d) + 1)] * Radix + a[o + Len(d)]) \div Last(d)
           IN  est \in Nat /\ Digited(SubtractMul(a, o, d, est % Radix), a, o, d, est)
<1> DEFINE n == Len(d)
           m == Magnitude(d)
           v1 == Last(d)
           w == Power(Radix, n - 1)
           dl == Value(d, n - 1)
           x == At(a, o + (n + 1))
           y == At(a, o + n)
           A == x * Radix + y
           est == A \div v1
           q == est % Radix
           s == SubtractMul(a, o, d, q)
           c == Slice(a, o, n + 1)
           v == Value(c, n + 1)
           low == Value(c, n - 1)
           p == Power(Radix, o)
           M == Magnitude(a)
           b == Magnitude(s.a)
<1>1. /\ n \in Nat /\ n - 1 \in Nat /\ n >= 1 /\ w \in Nat /\ w > 0 /\ Power(Radix, n) = Radix * w
      /\ v1 \in Nat /\ v1 >= 2 /\ v1 < Radix /\ dl \in Nat /\ dl < w /\ m = v1 * w + dl
      /\ \A j \in 1 .. Radix - 1 : (j - 1) * dl <= v1 * w
      /\ d \in Seq(Digit) /\ 2 * v1 >= Radix
  BY DivisorIs DEF Divisor
<1>2. Radix \in Nat /\ Radix >= 4
  BY Words
<1>3. /\ a[o + (Len(d) + 1)] = x /\ a[o + Len(d)] = y
      /\ x \in Nat /\ y \in Nat /\ y < Radix /\ x < Radix
  <2>1. o + (n + 1) \in 1 .. Len(a) /\ o + n \in 1 .. Len(a) /\ o + (n + 1) \in Int /\ o + n \in Int
    <3>1. Len(a) \in Nat
      BY AtIs
    <3>2. o + (n + 1) <= Len(a)
      OBVIOUS
    <3> HIDE DEF n
    <3> QED BY <1>1, <3>1, <3>2
  <2> QED BY <2>1, AtIs
<1>4. v = A * w + low /\ low \in Nat /\ low < w /\ A \in Nat
  <2>1. o + (n + 1) <= Len(a)
    OBVIOUS
  <2> HIDE DEF n
  <2> QED BY <1>1, <2>1, SliceTop
<1>5. est \in Nat /\ (est >= Radix <=> x >= v1) /\ (x = v1 => est % Radix <= 1)
  <2> HIDE DEF x, y, v1
  <2> QED BY <1>1, <1>3, WideEstimate
<1>6. q \in Nat /\ q < Radix /\ q \in Digit /\ (est < Radix => q = est)
  <2> HIDE DEF est
  <2>1. est % Radix \in Nat /\ est % Radix < Radix
    BY <1>2, <1>5, DivMod
  <2>2. est < Radix => est % Radix = est
    BY <1>2, <1>5
  <2> QED BY <1>2, <2>1, <2>2 DEF Digit
<1>7. Subtracted(s, a, o, d, q)
  BY <1>1, <1>6, SubtractMulIs
<1> HIDE DEF s
<1>8. /\ s.a \in Seq(Digit) /\ Len(s.a) = Len(a) /\ s.q \in Digit
      /\ \A i \in Nat : i > o + (n + 1) => At(s.a, i) = At(a, i)
      /\ q * m <= v => /\ s.q = q
                       /\ b + (q * m) * p = M
                       /\ Value(Slice(s.a, o, n + 1), n + 1) + q * m = v
      /\ q * m > v => /\ q >= 1 /\ s.q = q - 1
                      /\ (q - 1) * m <= v => b + ((q - 1) * m) * p = M
  BY <1>7 DEF Subtracted
<1>9. m \in Nat /\ p \in Nat /\ p > 0 /\ M \in Nat /\ b \in Nat /\ v \in Nat /\ s.q \in Nat
  <2>1. A * w \in Nat
    <3>1. A \in Nat /\ w \in Nat
      BY <1>1, <1>4
    <3> HIDE DEF A, w
    <3> QED BY <3>1
  <2>2. m \in Nat /\ M \in Nat /\ b \in Nat
    <3> HIDE DEF b, M, m
    <3>1. Magnitude(d) \in Nat /\ Magnitude(a) \in Nat /\ Magnitude(s.a) \in Nat
      BY <1>1, <1>8, MagnitudeIs
    <3> QED BY <3>1 DEF b, M, m
  <2>3. p \in Nat /\ p > 0
    BY Weights
  <2>4. s.q \in Nat
    BY <1>2, <1>8 DEF Digit
  <2>5. v \in Nat
    <3> HIDE DEF v, A, low, w
    <3> QED BY <1>4, <2>1
  <2> QED BY <2>2, <2>3, <2>4, <2>5
<1> HIDE DEF m, v1, w, dl, x, y, v, low, p, M, b, c, n
<1>10. ASSUME est < Radix
       PROVE  v < (q + 1) * m /\ (q >= 1 => (q - 1) * m <= v)
  <2>1. A * w + low < (est + 1) * (v1 * w + dl)
    <3> HIDE DEF A, q
    <3>1. v1 > 0
      BY <1>1
    <3> QED BY <1>1, <1>4, <3>1, EstimateHigh, Zenon
  <2>2. est >= 1 => (est - 1) * dl <= v1 * w
    <3>1. est >= 1 => est \in 1 .. Radix - 1
      BY <1>2, <1>5, <1>10
    <3> HIDE DEF est
    <3> QED BY <1>1, <3>1
  <2>3. est >= 1 => (est - 1) * (v1 * w + dl) <= A * w + low
    <3> HIDE DEF A, q
    <3>1. v1 > 0
      BY <1>1
    <3>2. est >= 1 => (est - 1) * (v1 * w + dl) <= A * w + low
      BY <1>1, <1>4, <2>2, <3>1, EstimateLow, Zenon
    <3> QED BY <3>2
  <2> HIDE DEF A, est, q
  <2> QED BY <1>1, <1>4, <1>6, <1>10, <2>1, <2>3
<1>11. ASSUME est >= Radix
       PROVE  q * m <= v /\ (x = v1 => q * m + Radix * w <= v)
  <2>1. x >= v1 /\ (x = v1 => q <= 1)
    BY <1>5, <1>11
  <2> HIDE DEF est, q
  <2>2. /\ q * (v1 * w + dl) <= (x * Radix + y) * w + low
        /\ x = v1 => q * (v1 * w + dl) + Radix * w <= (x * Radix + y) * w + low
    BY <1>1, <1>3, <1>4, <1>6, <2>1, WideTaken
  <2> QED BY <1>1, <1>4, <2>2
<1> HIDE DEF A, est, q
<1>12. b + (s.q * m) * p = M /\ (est < Radix => v < (s.q + 1) * m)
  <2>1. CASE q * m <= v
    BY <1>8, <1>10, <2>1
  <2>2. CASE ~ (q * m <= v)
    <3>1. q * m \in Nat
      BY <1>6, <1>9
    <3>2. q * m > v
      <4> DEFINE f == q * m
      <4> HIDE DEF f
      <4> QED BY <1>9, <2>2, <3>1 DEF f
    <3>3. est < Radix
      BY <1>2, <1>5, <1>11, <2>2
    <3>4. q >= 1 /\ s.q = q - 1 /\ (q - 1) * m <= v
      BY <1>8, <1>10, <3>2, <3>3
    <3>5. b + ((q - 1) * m) * p = M
      BY <1>8, <3>2, <3>4
    <3>6. (s.q + 1) = q
      BY <1>6, <3>4
    <3> QED BY <3>2, <3>4, <3>5, <3>6
  <2> QED BY <2>1, <2>2
<1>13. Power(Radix, o + 1) = Radix * p /\ Power(Radix, o + n) = Radix * w * p
       /\ Power(Radix, o + (n + 1)) = Radix * (Radix * w * p)
  <2>1. Power(Radix, o + n) = Power(Radix, o) * Power(Radix, n)
    BY <1>1, <1>2, PowerSum
  <2>2. o + n \in Nat /\ (o + n) + 1 = o + (n + 1)
    BY <1>1
  <2>3. Power(Radix, (o + n) + 1) = Radix * Power(Radix, o + n) /\ Power(Radix, o + 1) = Radix * p
    BY <2>2, Weights DEF p
  <2>4. p * (Radix * w) = Radix * w * p
    BY <1>1, <1>2, <1>9
  <2>5. Power(Radix, o + n) = p * (Radix * w)
    BY <1>1, <2>1 DEF p
  <2> QED BY <2>2, <2>3, <2>4, <2>5
<1>14. ASSUME M < m * (Radix * p)
       PROVE  /\ x = M \div (Radix * w * p)
              /\ est >= Radix <=> x = v1
              /\ est < Radix => b < m * p
              /\ est >= Radix => At(s.a, o + (n + 1)) >= 1
  <2> DEFINE g == Radix * w * p
             e == Value(a, o)
  <2>1. g \in Nat /\ g > 0
    <3>1. Radix * w \in Nat /\ Radix * w > 0
      BY <1>1, <1>2
    <3> DEFINE z == Radix * w
    <3> HIDE DEF z
    <3>2. z * p \in Nat /\ z * p > 0
      BY <1>9, <3>1 DEF z
    <3> QED BY <3>2 DEF z
  <2>2. M < Radix * g
    <3>1. m <= Radix * w
      <4>1. Magnitude(d) < Power(Radix, Len(d))
        BY <1>1, MagnitudeIs
      <4>2. m < Radix * w
        BY <1>1, <4>1 DEF m, n
      <4> QED BY <1>1, <1>2, <1>9, <4>2
    <3>2. m * (Radix * p) <= (Radix * w) * (Radix * p)
      <4> DEFINE z == Radix * p
                 u == Radix * w
      <4>1. z \in Nat /\ u \in Nat /\ m <= u
        BY <1>1, <1>2, <1>9, <3>1
      <4> HIDE DEF z, u
      <4>2. m * z <= u * z
        BY <1>9, <4>1
      <4> QED BY <4>2 DEF z, u
    <3>3. (Radix * w) * (Radix * p) = Radix * g
      BY <1>1, <1>2, <1>9
    <3> DEFINE f == m * (Radix * p)
               h == Radix * g
    <3>4. f \in Nat /\ h \in Nat /\ f <= h /\ M < f
      <4>1. Radix * p \in Nat
        BY <1>2, <1>9
      <4>2. f \in Nat
        BY <1>9, <4>1
      <4>3. h \in Nat
        <5> HIDE DEF g
        <5> QED BY <1>2, <2>1
      <4> QED BY <1>14, <3>2, <3>3, <4>2, <4>3
    <3> HIDE DEF f, h
    <3>5. M < h
      BY <1>9, <3>4
    <3> QED BY <3>5 DEF h
  <2> DEFINE i == o + (n + 1)
  <2>3. i \in Nat /\ Power(Radix, i) = Radix * g /\ Power(Radix, o + n) = g /\ o + n \in Nat /\ (o + n) + 1 = i
    BY <1>1, <1>13
  <2> HIDE DEF g, e, i
  <2>4. Value(a, i) = M
    <3>1. Magnitude(a) < Power(Radix, i)
      BY <2>2, <2>3 DEF M
    <3> QED BY <2>3, <3>1, Small DEF M
  <2>5. M = e + v * p /\ e \in Nat /\ e < p
    <3>1. n + 1 \in Nat /\ o + (n + 1) = i
      BY <1>1 DEF i
    <3>2. o + (n + 1) <= Len(a)
      BY DEF n
    <3>3. c \in Seq(Digit) /\ IsSlice(c, a, o, n + 1)
      BY <3>1, <3>2, SliceIs DEF c
    <3>4. Value(a, o + (n + 1)) = e + v * p
      BY <3>1, <3>3, ValueSplit DEF e, v, p
    <3> QED BY <2>4, <3>1, <3>4, ValueIs, ValueBound DEF e, p
  <2>6. x = M \div g
    <3> DEFINE j == o + n
    <3>1. j \in Nat /\ Power(Radix, j) = g /\ j + 1 = i
      BY <2>3
    <3> HIDE DEF j
    <3>2. At(a, j + 1) = (M \div g) % Radix
      BY <3>1, AtMagnitude DEF M
    <3>3. M \div g \in Nat
      BY <1>9, <2>1, DivMod
    <3>4. M \div g < Radix
      <4>1. M < g * Radix
        <5>1. Radix * g = g * Radix
          BY <1>2, <2>1
        <5> QED BY <2>2, <5>1
      <4> QED BY <1>2, <1>9, <2>1, <4>1, DivBound
    <3>5. (M \div g) % Radix = M \div g
      <4> DEFINE z == M \div g
      <4> HIDE DEF z
      <4> QED BY <1>2, <3>3, <3>4 DEF z
    <3> QED BY <3>1, <3>2, <3>5 DEF x, i
  <2>7. x <= v1
    <3>1. M >= x * g
      <4>1. M \div g \in Nat /\ M % g \in Nat /\ M = g * (M \div g) + (M % g)
        BY <1>9, <2>1, DivMod
      <4>2. M = g * x + (M % g)
        BY <2>6, <4>1
      <4>3. g * x \in Nat /\ g * x = x * g
        BY <1>3, <2>1
      <4> DEFINE z == g * x
                 u == M % g
      <4>4. z \in Nat /\ u \in Nat /\ M = z + u
        BY <4>1, <4>2, <4>3
      <4> HIDE DEF z, u
      <4>5. M >= z
        BY <4>4
      <4> QED BY <4>3, <4>5 DEF z
    <3>2. M >= x * (Radix * w * p) /\ M < (v1 * w + dl) * (Radix * p)
      BY <1>1, <1>14, <3>1 DEF g
    <3> QED BY <1>1, <1>3, <1>9, <3>2, TopSmall
  <2>8. est >= Radix <=> x = v1
    BY <1>1, <1>3, <1>5, <2>7
  <2>9. est < Radix => b < m * p
    BY <1>9, <1>12, <2>5, LeftOver
  <2>10. ASSUME est >= Radix
         PROVE  At(s.a, i) >= 1
    <3> DEFINE c2 == Slice(s.a, o, n + 1)
               v2 == Value(c2, n + 1)
               f == q * m
               h == Radix * w
    <3>1. v2 + f = v /\ f + h <= v
      BY <1>8, <1>11, <2>8, <2>10
    <3>2. c2 \in Seq(Digit) /\ IsSlice(c2, s.a, o, n + 1)
      <4>1. n + 1 \in Nat /\ o + (n + 1) <= Len(s.a)
        BY <1>1, <1>8 DEF n
      <4> QED BY <1>8, <4>1, SliceIs
    <3> HIDE DEF c2
    <3>3. v2 = Value(c2, n) + At(c2, n + 1) * Power(Radix, n) /\ Value(c2, n) \in Nat /\ Value(c2, n) < Power(Radix, n)
      BY <1>1, <3>2, ValueIs, ValueBound
    <3>4. At(c2, n + 1) = At(s.a, i) /\ At(s.a, i) \in Nat
      <4>1. n + 1 \in 1 .. n + 1 /\ i \in Int
        BY <1>1, <2>3
      <4> QED BY <1>8, <3>2, <4>1, AtIs DEF IsSlice, i
    <3>5. f \in Nat /\ h \in Nat
      BY <1>1, <1>2, <1>6, <1>9
    <3>6. v2 \in Nat
      <4>1. n + 1 \in Nat
        BY <1>1
      <4> QED BY <3>2, <4>1, ValueIs
    <3> HIDE DEF v2, f, h
    <3>7. v2 >= h
      BY <1>9, <3>1, <3>5, <3>6
    <3>8. At(s.a, i) = 0 => v2 = Value(c2, n)
      <4>1. Power(Radix, n) \in Nat
        BY <1>1, Weights
      <4>2. At(s.a, i) = 0 => At(c2, n + 1) * Power(Radix, n) = 0
        BY <3>4, <4>1
      <4> QED BY <3>3, <4>2
    <3>9. At(s.a, i) # 0
      BY <1>1, <3>3, <3>5, <3>6, <3>7, <3>8 DEF h
    <3> QED BY <3>4, <3>9
  <2> QED BY <2>6, <2>8, <2>9, <2>10 DEF g, i
<1>15. Less(b, s.q * m, p, M)
  BY <1>12 DEF Less
<1>16. Digited(s, a, o, d, est)
  BY <1>8, <1>13, <1>14, <1>15 DEF Digited, n, m, x, v1, p, M, b
<1> QED BY <1>3, <1>5, <1>16 DEF s, q, est, A, v1, n

(* Cells without leading zeros. *)
Tight(c, v) ==
    /\ c \in Seq(Digit) /\ Len(c) >= 1 /\ Last(c) >= 1
    /\ Magnitude(c) = v

LEMMA TightIs ==
    ASSUME NEW c, NEW v, Tight(c, v)
    PROVE  LET L == Len(c)
               w == Power(Radix, L - 1)
               t == Last(c)
               dl == Value(c, L - 1)
           IN  /\ L \in Nat /\ L - 1 \in Nat /\ w \in Nat /\ w > 0 /\ Power(Radix, L) = Radix * w
               /\ t \in Nat /\ t >= 1 /\ t < Radix /\ dl \in Nat /\ dl < w
               /\ v = t * w + dl /\ v \in Nat
               /\ w <= v /\ v < Radix * w /\ v < (t + 1) * w
<1> DEFINE L == Len(c)
           w == Power(Radix, L - 1)
           t == Last(c)
           dl == Value(c, L - 1)
<1>1. c \in Seq(Digit) /\ L \in Nat /\ L - 1 \in Nat /\ L \in 1 .. Len(c) /\ (L - 1) + 1 = L /\ L >= 1
  BY DEF Tight
<1>2. t = c[L] /\ At(c, L) = t /\ t \in Digit
  BY <1>1, AtIs DEF Last
<1>3. Radix \in Nat /\ Radix >= 4 /\ t \in Nat /\ t < Radix /\ t >= 1
  BY <1>2, Words DEF Tight, Digit
<1>4. w \in Nat /\ w > 0 /\ dl \in Nat /\ dl < w /\ Power(Radix, (L - 1) + 1) = Radix * w
  BY <1>1, Weights, ValueIs, ValueBound
<1>5. Value(c, (L - 1) + 1) = dl + At(c, (L - 1) + 1) * w
  BY <1>1, ValueIs
<1>6. v = t * w + dl
  <2>1. v = dl + t * w
    BY <1>1, <1>2, <1>5 DEF Magnitude, Tight
  <2> HIDE DEF t, w, dl
  <2> QED BY <1>3, <1>4, <2>1
<1> HIDE DEF t, w, dl, L
<1>7. t * w \in Nat /\ t * w >= w /\ (t + 1) * w = t * w + w
  BY <1>3, <1>4
<1>8. (t + 1) * w <= Radix * w /\ (t + 1) * w \in Nat /\ Radix * w \in Nat
  BY <1>3, <1>4
<1> DEFINE x == t * w
           y == (t + 1) * w
           z == Radix * w
<1>9. x \in Nat /\ y \in Nat /\ z \in Nat /\ x >= w /\ y = x + w /\ y <= z /\ v = x + dl
  BY <1>6, <1>7, <1>8
<1> HIDE DEF x, y, z
<1>10. v \in Nat /\ w <= v /\ v < z /\ v < y
  BY <1>4, <1>9
<1>11. /\ L \in Nat /\ L - 1 \in Nat /\ w \in Nat /\ w > 0 /\ Power(Radix, L) = Radix * w
       /\ t \in Nat /\ t >= 1 /\ t < Radix /\ dl \in Nat /\ dl < w
  BY <1>1, <1>3, <1>4
<1> QED BY <1>6, <1>10, <1>11 DEF x, y, z, t, w, dl, L

LEMMA TightFrom ==
    ASSUME NEW c \in Seq(Digit), NEW L \in Nat, Len(c) = L + 1, Magnitude(c) >= Power(Radix, L)
    PROVE  Tight(c, Magnitude(c))
<1>1. L + 1 \in 1 .. Len(c) /\ L + 1 >= 1
  OBVIOUS
<1>2. At(c, L + 1) = c[L + 1] /\ At(c, L + 1) \in Nat
  BY <1>1, AtIs
<1>3. Magnitude(c) = Value(c, L) + At(c, L + 1) * Power(Radix, L)
  BY ValueIs DEF Magnitude
<1>4. Value(c, L) < Power(Radix, L) /\ Value(c, L) \in Nat /\ Power(Radix, L) \in Nat
  BY ValueIs, ValueBound, Weights
<1>5. At(c, L + 1) # 0
  <2>1. At(c, L + 1) = 0 => At(c, L + 1) * Power(Radix, L) = 0
    BY <1>4
  <2> QED BY <1>3, <1>4, <2>1
<1> QED BY <1>1, <1>2, <1>5 DEF Tight, Last

LEMMA ReducedTight ==
    ASSUME NEW c \in Seq(Digit), Magnitude(c) >= 1
    PROVE  Tight(Reduce(c), Magnitude(c))
<1> DEFINE e == Reduce(c)
           T == Top(c)
<1>1. e \in Seq(Digit) /\ Len(e) = T /\ Magnitude(e) = Magnitude(c)
      /\ \A i \in Int : At(e, i) = At(c, i)
  BY ReduceIs
<1>2. T \in 0 .. Len(c) /\ (T > 0 => At(c, T) # 0) /\ Len(c) \in Nat
  BY TopIs, MagnitudeIs
<1> HIDE DEF e, T
<1>3. T > 0
  <2>1. T = 0 => Magnitude(e) = 0
    BY <1>1, ValueIs DEF Magnitude
  <2> QED BY <1>1, <1>2, <2>1
<1>4. T \in 1 .. Len(e) /\ T \in Int
  BY <1>1, <1>2, <1>3
<1>5. At(e, T) = e[T] /\ At(e, T) \in Nat /\ At(e, T) # 0
  BY <1>1, <1>2, <1>3, <1>4, AtIs
<1>6. Last(e) = e[T]
  BY <1>1 DEF Last
<1> QED BY <1>1, <1>4, <1>5, <1>6 DEF Tight, e

LEMMA CanonicalTight ==
    ASSUME NEW v \in Nat, ~ IsFixnum(v)
    PROVE  Tight(Canonical(v).cells, v) /\ v >= 1
<1> DEFINE c == Cells(Abs(v), Length(Abs(v)))
<1>1. Abs(v) = v /\ v >= 1 /\ ~ (v < 0)
  <2>1. FixLimit \in Nat /\ FixLimit >= 1
    BY Words
  <2> QED BY <2>1 DEF Abs, IsFixnum
<1>2. c \in Seq(Digit) /\ Magnitude(c) = v
  BY <1>1, CanonicalCells
<1> HIDE DEF c
<1>3. Tight(Reduce(c), v)
  BY <1>1, <1>2, ReducedTight
<1>4. Canonical(v) = Bignum(FALSE, Reduce(c))
  <2>1. Canonical(v) = Normalize(FALSE, c)
    <3>1. (v < 0) = FALSE
      BY <1>1
    <3> QED BY <3>1, Zenon DEF Canonical, c
  <2>2. Magnitude(Reduce(c)) = v
    BY <1>3 DEF Tight
  <2> QED BY <2>1, <2>2 DEF Normalize
<1> QED BY <1>1, <1>3, <1>4 DEF Bignum

LEMMA AsBignumTight ==
    ASSUME NEW n \in Int, n # 0
    PROVE  Tight(AsBignum(n).cells, Abs(n)) /\ AsBignum(n).neg = (n < 0) /\ Abs(n) >= 1
<1> DEFINE v == Abs(n)
<1>1. v \in Nat /\ v >= 1
  BY DEF Abs
<1>2. CASE IsFixnum(n)
  <2>1. AsBignum(n) = Bignum(n < 0, <<v>>)
    BY <1>2 DEF AsBignum, FixnumToBignum
  <2>2. v \in Digit
    <3>1. FixLimit \in Nat /\ 2 * FixLimit <= Radix /\ Radix \in Nat /\ Radix >= 4
      BY Words
    <3>2. v <= FixLimit
      BY <1>2, <3>1 DEF IsFixnum, Abs
    <3> QED BY <1>1, <3>1, <3>2 DEF Digit
  <2> HIDE DEF v
  <2>3. <<v>> \in Seq(Digit) /\ Len(<<v>>) = 1 /\ <<v>>[1] = v
    BY <2>2
  <2>4. Last(<<v>>) = v
    BY <2>3 DEF Last
  <2>5. Magnitude(<<v>>) = v
    <3>1. At(<<v>>, 0 + 1) = v
      <4>1. 1 \in 1 .. Len(<<v>>) /\ 0 + 1 = 1
        BY <2>3
      <4> QED BY <2>3, <4>1, AtIs
    <3>2. Value(<<v>>, 0 + 1) = 0 + v * 1
      BY <2>3, <3>1, ValueIs, Weights
    <3> QED BY <1>1, <2>3, <3>2 DEF Magnitude
  <2>6. Tight(<<v>>, v)
    BY <1>1, <2>3, <2>4, <2>5 DEF Tight
  <2> QED BY <1>1, <2>1, <2>6 DEF Bignum, v
<1>3. CASE ~ IsFixnum(n)
  <2> DEFINE c == Cells(v, Length(v))
             L == Length(v)
  <2>1. AsBignum(n) = Bignum(n < 0, c)
    BY <1>3 DEF AsBignum
  <2>2. c \in Seq(Digit) /\ Len(c) = L /\ Magnitude(c) = v /\ L \in Nat /\ L >= 1
        /\ (L = 1 \/ v >= Power(Radix, L - 1))
    BY <1>1, CanonicalCells, LengthIs
  <2> HIDE DEF c, L, v
  <2>3. Tight(c, v)
    <3>1. L - 1 \in Nat /\ (L - 1) + 1 = L
      BY <2>2
    <3>2. v >= Power(Radix, L - 1)
      BY <1>1, <2>2, Weights
    <3> QED BY <2>2, <3>1, <3>2, TightFrom
  <2> QED BY <1>1, <2>1, <2>3 DEF Bignum, v
<1> QED BY <1>2, <1>3

(* The length of such cells is that of the number.                          *)
LEMMA TightLength ==
    ASSUME NEW c, NEW v, Tight(c, v), NEW L \in Nat, Power(Radix, L) <= v, v < Power(Radix, L + 1)
    PROVE  Len(c) = L + 1
<1> DEFINE l == Len(c) - 1
<1>1. l \in Nat /\ Power(Radix, l) <= v /\ v < Power(Radix, l + 1) /\ v \in Nat /\ Len(c) = l + 1
  BY TightIs
<1> HIDE DEF l
<1>2. Radix \in Nat /\ Radix >= 2
  BY Words
<1>3. ~ (l + 1 <= L)
  <2>1. l + 1 <= L => Power(Radix, l + 1) <= Power(Radix, L)
    BY <1>1, <1>2, PowerGrows
  <2>2. Power(Radix, L) \in Nat /\ Power(Radix, l + 1) \in Nat
    <3>1. l + 1 \in Nat
      BY <1>1
    <3> QED BY <3>1, Weights
  <2> QED BY <1>1, <2>1, <2>2
<1>4. ~ (L + 1 <= l)
  <2>1. L + 1 <= l => Power(Radix, L + 1) <= Power(Radix, l)
    BY <1>1, <1>2, PowerGrows
  <2>2. Power(Radix, L + 1) \in Nat /\ Power(Radix, l) \in Nat
    <3>1. L + 1 \in Nat
      OBVIOUS
    <3> QED BY <1>1, <3>1, Weights
  <2> QED BY <1>1, <2>1, <2>2
<1>5. l = L
  BY <1>1, <1>3, <1>4
<1> QED BY <1>1, <1>5

LEMMA HalfRadix ==
    /\ 2 * HalfBits \in Nat /\ 2 * HalfBits >= 2
    /\ Radix \div 2 \in Nat /\ Radix = 2 * (Radix \div 2) /\ Radix \div 2 >= 2
    /\ \A x \in 0 .. 2 * HalfBits - 1 : /\ Power(2, x) \in Nat /\ Power(2, x) >= 1
                                        /\ \E y \in Nat : Radix = Power(2, x) * y
<1>1. 2 * HalfBits \in Nat /\ 2 * HalfBits >= 2 /\ 2 * HalfBits - 1 \in Nat /\ (2 * HalfBits - 1) + 1 = 2 * HalfBits
  BY WordAssumption
<1>2. Radix = 2 * Power(2, 2 * HalfBits - 1) /\ Power(2, 2 * HalfBits - 1) \in Nat
  <2> DEFINE l == 2 * HalfBits - 1
  <2>1. l \in Nat /\ l + 1 = 2 * HalfBits
    BY <1>1
  <2> HIDE DEF l
  <2>2. Power(2, l + 1) = 2 * Power(2, l) /\ Power(2, l) \in Nat
    BY <2>1, PowerIs
  <2> QED BY <2>1, <2>2, Words DEF l
<1>3. Radix \div 2 = Power(2, 2 * HalfBits - 1)
  BY <1>2, DivExact
<1>4. ASSUME NEW x \in 0 .. 2 * HalfBits - 1
      PROVE  /\ Power(2, x) \in Nat /\ Power(2, x) >= 1
             /\ \E y \in Nat : Radix = Power(2, x) * y
  <2> DEFINE l == 2 * HalfBits - x
  <2>1. x \in Nat /\ l \in Nat /\ x + l = 2 * HalfBits
    BY <1>1
  <2> HIDE DEF l
  <2>2. Power(2, x + l) = Power(2, x) * Power(2, l)
    BY <2>1, PowerSum
  <2>3. Power(2, x) \in Nat /\ Power(2, l) \in Nat
    BY <2>1, PowerIs
  <2>4. Power(2, x) > 0
    BY <2>1, PowerPositive
  <2>5. Radix = Power(2, x) * Power(2, l)
    BY <2>1, <2>2, Words
  <2>6. \E y \in Nat : Radix = Power(2, x) * y
    BY <2>3, <2>5
  <2> QED BY <2>3, <2>4, <2>6
<1> QED BY <1>1, <1>2, <1>3, <1>4, Words

LEMMA ShiftBitsIs ==
    ASSUME NEW t \in Nat, t >= 1, t < Radix
    PROVE  /\ ShiftBits(t) \in 0 .. 2 * HalfBits - 1
           /\ t * Power(2, ShiftBits(t)) \in Radix \div 2 .. Radix - 1
<1> DEFINE W == 2 * HalfBits - 1
           T == {x \in Nat : t * Power(2, x) >= Radix \div 2}
           h == Radix \div 2
<1>1. W \in Nat /\ h \in Nat /\ Radix = 2 * h /\ h >= 2
  BY HalfRadix
<1>2. \A x \in Nat : Power(2, x) \in Nat /\ Power(2, x + 1) = 2 * Power(2, x)
  BY PowerIs
<1>3. W \in T
  <2>1. Power(2, W + 1) = 2 * Power(2, W) /\ W + 1 = 2 * HalfBits /\ Power(2, W) \in Nat
    <3>1. W + 1 = 2 * HalfBits
      BY WordAssumption
    <3> HIDE DEF W, T, h
    <3> QED BY <1>1, <1>2, <3>1
  <2>2. Power(2, W) = h
    BY <1>1, <2>1, Words
  <2> HIDE DEF h, W
  <2>3. t * h >= h
    BY <1>1
  <2> QED BY <1>1, <2>2, <2>3 DEF h
<1>4. PICK x \in T : \A y \in T : x <= y
  <2>1. T \subseteq Nat /\ T # {}
    BY <1>3
  <2> HIDE DEF T
  <2> QED BY <2>1, LeastElement
<1>5. x \in Nat /\ x <= W /\ t * Power(2, x) >= h /\ t * Power(2, x) \in Nat
  BY <1>2, <1>3, <1>4
<1>6. t * Power(2, x) < Radix
  <2>1. CASE x = 0
    BY <1>1, <2>1, PowerIs
  <2>2. CASE x # 0
    <3> DEFINE y == x - 1
    <3>1. y \in Nat /\ y + 1 = x /\ y < x
      BY <1>5, <2>2
    <3>2. ~ (y \in T)
      BY <1>4, <3>1
    <3> HIDE DEF y
    <3>3. Power(2, x) = 2 * Power(2, y) /\ Power(2, y) \in Nat
      BY <1>2, <3>1
    <3>4. ~ (t * Power(2, y) >= h) /\ t * Power(2, y) \in Nat
      BY <3>1, <3>2, <3>3
    <3>5. t * Power(2, x) = 2 * (t * Power(2, y))
      BY <3>3
    <3> DEFINE z == t * Power(2, y)
    <3>6. t * Power(2, x) = 2 * z /\ z \in Nat /\ ~ (z >= h)
      BY <3>4, <3>5
    <3> HIDE DEF z, h
    <3> QED BY <1>1, <3>6
  <2> QED BY <2>1, <2>2
<1>7. \E z \in 0 .. 2 * HalfBits - 1 : t * Power(2, z) \in Radix \div 2 .. Radix - 1
  <2>1. x \in 0 .. 2 * HalfBits - 1
    BY <1>1, <1>5
  <2>2. t * Power(2, x) \in Radix \div 2 .. Radix - 1
    BY <1>1, <1>5, <1>6
  <2> QED BY <2>1, <2>2
<1> HIDE DEF T, W, h
<1> QED BY <1>7 DEF ShiftBits

(* After the shift the divisor has its top bit set.                         *)
LEMMA TopBit ==
    ASSUME NEW c, NEW v, Tight(c, v), NEW e,
           Tight(e, v * Power(2, ShiftBits(Last(c))))
    PROVE  2 * Last(e) >= Radix /\ Len(e) = Len(c)
<1> DEFINE L == Len(c) - 1
           w == Power(Radix, L)
           t == Last(c)
           dl == Value(c, L)
           x == ShiftBits(t)
           f == Power(2, x)
           h == Radix \div 2
           N == v * f
<1>1. /\ L \in Nat /\ w \in Nat /\ w > 0 /\ t \in Nat /\ t >= 1 /\ t < Radix /\ dl \in Nat /\ dl < w
      /\ v = t * w + dl /\ Len(c) = L + 1 /\ v \in Nat /\ v < (t + 1) * w
  BY TightIs
<1>2. Power(Radix, L + 1) = Radix * w /\ Radix \in Nat /\ Radix >= 4
  BY <1>1, Weights, Words
<1>3. x \in 0 .. 2 * HalfBits - 1 /\ t * f >= h /\ t * f < Radix
  <2>1. x \in 0 .. 2 * HalfBits - 1 /\ t * f \in Radix \div 2 .. Radix - 1
    BY <1>1, ShiftBitsIs
  <2>2. h \in Int /\ Radix - 1 \in Int
    BY <1>2, HalfRadix
  <2> QED BY <1>2, <2>1, <2>2
<1>4. h \in Nat /\ Radix = 2 * h /\ f \in Nat /\ f >= 1
  BY <1>3, HalfRadix
<1>5. PICK y \in Nat : Radix = f * y
  BY <1>3, HalfRadix
<1> HIDE DEF w, t, dl, f, x, h, L
<1>6. (t + 1) * f <= Radix
  <2>1. t < y
    <3>1. t >= y => t * f >= f * y
      BY <1>1, <1>4
    <3>2. t * f \in Nat /\ f * y \in Nat
      BY <1>1, <1>4
    <3> DEFINE a == t * f
               b == f * y
    <3>3. a \in Nat /\ b \in Nat /\ (t >= y => a >= b) /\ a < b
      BY <1>3, <1>5, <3>1, <3>2
    <3> HIDE DEF a, b
    <3> QED BY <1>1, <3>3
  <2>2. (t + 1) * f <= y * f
    BY <1>1, <1>4, <2>1
  <2>3. y * f = f * y
    BY <1>4
  <2> QED BY <1>5, <2>2, <2>3
<1>7. N \in Nat /\ N >= h * w /\ N < Radix * w
  <2>1. v >= t * w
    <3>1. t * w \in Nat
      BY <1>1
    <3> QED BY <1>1, <3>1
  <2>2. N >= (t * w) * f
    <3> DEFINE a == t * w
    <3>1. a \in Nat /\ v >= a
      BY <1>1, <2>1
    <3> HIDE DEF a
    <3> QED BY <1>1, <1>4, <3>1 DEF a
  <2>3. (t * w) * f = (t * f) * w
    BY <1>1, <1>4
  <2>4. (t * f) * w >= h * w
    <3> DEFINE a == t * f
    <3>1. a \in Nat /\ a >= h
      BY <1>1, <1>3, <1>4
    <3> HIDE DEF a
    <3> QED BY <1>1, <1>4, <3>1 DEF a
  <2>5. N < ((t + 1) * w) * f
    <3> DEFINE a == (t + 1) * w
    <3>1. a \in Nat /\ v < a
      BY <1>1
    <3> HIDE DEF a
    <3> QED BY <1>1, <1>4, <3>1 DEF a
  <2>6. ((t + 1) * w) * f = ((t + 1) * f) * w
    BY <1>1, <1>4
  <2>7. ((t + 1) * f) * w <= Radix * w
    <3> DEFINE a == (t + 1) * f
    <3>1. a \in Nat /\ a <= Radix
      BY <1>1, <1>4, <1>6
    <3> HIDE DEF a
    <3> QED BY <1>1, <1>2, <3>1 DEF a
  <2> DEFINE a == (t * w) * f
             b == h * w
             d == ((t + 1) * w) * f
             g == Radix * w
  <2>8. N \in Nat /\ a \in Nat /\ b \in Nat /\ d \in Nat /\ g \in Nat
    <3>1. t * w \in Nat /\ (t + 1) * w \in Nat
      BY <1>1
    <3> DEFINE i == t * w
               j == (t + 1) * w
    <3> HIDE DEF i, j
    <3>2. i * f \in Nat /\ j * f \in Nat
      BY <1>4, <3>1 DEF i, j
    <3> QED BY <1>1, <1>2, <1>4, <3>2 DEF i, j
  <2>9. N >= a /\ a >= b /\ N < d /\ d <= g
    BY <2>2, <2>3, <2>4, <2>5, <2>6, <2>7
  <2> HIDE DEF N, a, b, d, g
  <2>10. N >= b /\ N < g
    BY <2>8, <2>9
  <2> QED BY <2>8, <2>10 DEF b, g
<1> HIDE DEF N
<1>8. Tight(e, N)
  BY DEF N, f, x, t
<1>9. Len(e) = L + 1
  <2>1. w <= N
    <3>1. h * w >= w
      <4>1. h >= 1
        BY <1>2, <1>4
      <4> QED BY <1>1, <1>4, <4>1
    <3>2. h * w \in Nat
      BY <1>1, <1>4
    <3> QED BY <1>1, <1>7, <3>1, <3>2
  <2> QED BY <1>1, <1>2, <1>7, <1>8, <2>1, TightLength DEF w
<1>10. 2 * Last(e) >= Radix
  <2> DEFINE s == Last(e)
  <2>1. s \in Nat /\ N < (s + 1) * w
    <3>1. Len(e) - 1 = L
      BY <1>1, <1>9
    <3> QED BY <1>8, <3>1, TightIs DEF w
  <2> HIDE DEF s
  <2>2. ~ (s + 1 <= h)
    <3>1. s + 1 <= h => (s + 1) * w <= h * w
      BY <1>1, <1>4, <2>1
    <3>2. (s + 1) * w \in Nat /\ h * w \in Nat
      BY <1>1, <1>4, <2>1
    <3> QED BY <1>7, <2>1, <3>1, <3>2
  <2> QED BY <1>4, <2>1, <2>2 DEF s
<1> QED BY <1>1, <1>9, <1>10

(* Twice a number's second digit less its first, times Radix - 1. *)
LEMMA MifsudSum ==
    ASSUME NEW v1 \in Nat, NEW v2 \in Nat, v1 < v2, v2 < Radix, NEW w \in Nat, NEW d \in Nat, d < w,
           NEW r \in Nat, r = Radix
    PROVE  \E y \in Nat : /\ ((v1 * r + v2) * w + d) * (r - 1) = v1 * (r * (r * w)) + y
                          /\ y < (v2 - v1 + 1) * (r * w)
<1> DEFINE u == r * w
           g == v2 - v1 - 1
           p == g * u
           i == (r - v2) * w
           j == d * (r - 1)
           y == p + i + j
<1>1. u \in Nat /\ g \in Nat /\ r - v2 \in Nat /\ r - 1 \in Nat
  OBVIOUS
<1>2. p \in Nat /\ i \in Nat /\ j \in Nat /\ y \in Nat
  <2> HIDE DEF u, g
  <2>1. p \in Nat /\ i \in Nat /\ j \in Nat
    BY <1>1
  <2> HIDE DEF p, i, j
  <2> QED BY <2>1
<1>3. i <= u
  <2>1. (r - v2) * w = r * w - v2 * w /\ v2 * w \in Nat
    OBVIOUS
  <2> QED BY <2>1
<1>4. j < u
  <2>1. d * (r - 1) <= w * (r - 1)
    BY <1>1
  <2>2. w * (r - 1) = r * w - w
    OBVIOUS
  <2> HIDE DEF j, u
  <2>3. w > 0
    OBVIOUS
  <2> QED BY <1>1, <1>2, <2>1, <2>2, <2>3 DEF j, u
<1>5. (v2 - v1 + 1) * u = p + u + u
  <2> HIDE DEF u
  <2>1. (g + 2) * u = g * u + u + u
    BY <1>1
  <2>2. g + 2 = v2 - v1 + 1
    OBVIOUS
  <2> HIDE DEF g
  <2> QED BY <2>1, <2>2
<1>6. y < (v2 - v1 + 1) * u
  <2> DEFINE e == (v2 - v1 + 1) * u
  <2>1. e = p + u + u
    BY <1>5
  <2> HIDE DEF p, i, j, u, e
  <2>2. p + i + j < p + u + u
    BY <1>1, <1>2, <1>3, <1>4
  <2> QED BY <2>1, <2>2 DEF e
<1>7. ((v1 * r + v2) * w + d) * (r - 1) = v1 * (r * u) + y
  <2>1. (v1 * r + v2) * w = v1 * u + v2 * w
    OBVIOUS
  <2>2. (v1 * u) * (r - 1) = v1 * (r * u) - v1 * u
    <3> HIDE DEF u
    <3> QED BY <1>1
  <2>3. (v2 * w) * (r - 1) = v2 * u - v2 * w
    OBVIOUS
  <2>4. p = v2 * u - v1 * u - u
    <3> HIDE DEF u
    <3> QED BY <1>1
  <2>5. i = u - v2 * w
    OBVIOUS
  <2> DEFINE a == v1 * u
             b == v2 * w
             c == v1 * (r * u)
             e == v2 * u
             s == r - 1
  <2>6. a \in Nat /\ b \in Nat /\ c \in Nat /\ e \in Nat /\ s \in Nat
    <3> HIDE DEF u
    <3> QED BY <1>1
  <2>7. a * s = c - a /\ b * s = e - b /\ p = e - a - u /\ i = u - b /\ j = d * s
    BY <2>2, <2>3, <2>4, <2>5
  <2>8. (v1 * r + v2) * w + d = a + b + d
    BY <2>1
  <2> HIDE DEF a, b, c, e, s, u, p, i, j
  <2>9. (a + b + d) * s = a * s + b * s + d * s
    BY <2>6
  <2>10. (a + b + d) * s = c + (p + i + j)
    BY <1>1, <1>2, <2>6, <2>7, <2>9
  <2> QED BY <2>8, <2>10 DEF c, s
<1> HIDE DEF p, i, j, u
<1> QED BY <1>2, <1>6, <1>7 DEF u

(* Mifsud's second action: the divisor times Radix - 1 has the same first   *)
(* digit and a second one that is not larger.                               *)
LEMMA Mifsud ==
    ASSUME NEW c, NEW v, Tight(c, v), 2 * Last(c) >= Radix, Len(c) > 1,
           Last(c) < c[Len(c) - 1], NEW e, Tight(e, v * (Radix - 1))
    PROVE  Divisor(e)
<1> DEFINE l == Len(c) - 2
           w == Power(Radix, l)
           v1 == Last(c)
           v2 == c[Len(c) - 1]
           d == Value(c, l)
           N == v * (Radix - 1)
           u == Radix * w
           g == Radix * u
<1>1. c \in Seq(Digit) /\ Len(c) \in Nat /\ l \in Nat /\ l + 1 = Len(c) - 1 /\ (l + 1) + 1 = Len(c)
      /\ l + 1 \in 1 .. Len(c) /\ l + 1 \in Nat
  <2>1. c \in Seq(Digit) /\ Len(c) \in Nat
    BY DEF Tight
  <2> QED BY <2>1
<1>2. Radix \in Nat /\ Radix >= 4
  BY Words
<1>3. w \in Nat /\ w > 0 /\ d \in Nat /\ d < w /\ Power(Radix, l + 1) = u /\ Power(Radix, (l + 1) + 1) = g
      /\ Power(Radix, ((l + 1) + 1) + 1) = Radix * g
  <2> HIDE DEF l
  <2>1. (l + 1) + 1 \in Nat
    BY <1>1
  <2> QED BY <1>1, <2>1, Weights, ValueIs, ValueBound
<1>4. v2 \in Nat /\ v2 < Radix /\ Value(c, l + 1) = d + v2 * w
  <2>1. At(c, l + 1) = v2 /\ v2 \in Digit
    <3>1. c[l + 1] = v2
      BY <1>1
    <3> HIDE DEF l, v2
    <3>2. At(c, l + 1) = c[l + 1] /\ At(c, l + 1) \in Digit
      BY <1>1, AtIs
    <3> QED BY <3>1, <3>2
  <2> HIDE DEF l
  <2>2. Value(c, l + 1) = d + At(c, l + 1) * w
    BY <1>1, ValueIs
  <2> QED BY <1>2, <2>1, <2>2 DEF Digit
<1>5. v1 \in Nat /\ v1 >= 1 /\ v1 < Radix /\ v1 < v2 /\ v = v1 * u + Value(c, l + 1)
  <2>1. Len(c) - 1 = l + 1
    BY <1>1
  <2> QED BY <1>3, <2>1, TightIs
<1> HIDE DEF w, d, v1, v2, l
<1>6. v = (v1 * Radix + v2) * w + d
  <2>1. (v1 * Radix + v2) * w = v1 * (Radix * w) + v2 * w
    BY <1>2, <1>3, <1>4, <1>5
  <2> DEFINE a == (v1 * Radix + v2) * w
             b == v1 * (Radix * w)
             i == v2 * w
  <2>2. a = b + i /\ v = b + (d + i) /\ b \in Nat /\ i \in Nat
    <3>1. Radix * w \in Nat
      BY <1>2, <1>3
    <3> QED BY <1>3, <1>4, <1>5, <2>1, <3>1
  <2> HIDE DEF a, b, i
  <2>3. v = a + d
    BY <1>3, <2>2
  <2> QED BY <2>3 DEF a
<1>7. PICK y \in Nat : N = v1 * g + y /\ y < (v2 - v1 + 1) * u
  <2>1. \E y \in Nat : /\ ((v1 * Radix + v2) * w + d) * (Radix - 1) = v1 * (Radix * (Radix * w)) + y
                       /\ y < (v2 - v1 + 1) * (Radix * w)
    BY <1>2, <1>3, <1>4, <1>5, MifsudSum
  <2> QED BY <1>6, <2>1
<1>8. u \in Nat /\ u > 0 /\ g \in Nat /\ g > 0 /\ g = Radix * u
  <2>1. u \in Nat /\ u > 0
    BY <1>2, <1>3
  <2> HIDE DEF u
  <2> QED BY <1>2, <2>1
<1> HIDE DEF u, g, N
<1>9. y < g
  <2>1. v2 - v1 + 1 \in Nat /\ v2 - v1 + 1 <= Radix
    BY <1>2, <1>4, <1>5
  <2> DEFINE z == v2 - v1 + 1
  <2> HIDE DEF z
  <2>2. z * u <= Radix * u /\ z * u \in Nat
    BY <1>2, <1>8, <2>1 DEF z
  <2> QED BY <1>7, <1>8, <2>2 DEF z
<1>10. N \in Nat /\ g <= N /\ N < Radix * g
  <2>1. v1 * g \in Nat /\ v1 * g >= g /\ (v1 + 1) * g <= Radix * g /\ (v1 + 1) * g = v1 * g + g
    BY <1>2, <1>5, <1>8
  <2> DEFINE a == v1 * g
             b == (v1 + 1) * g
             i == Radix * g
  <2>2. a \in Nat /\ a >= g /\ b <= i /\ b = a + g /\ i \in Nat /\ N = a + y
    BY <1>2, <1>7, <1>8, <2>1
  <2> HIDE DEF a, b, i
  <2>3. N \in Nat /\ g <= N /\ N < i
    BY <1>8, <1>9, <2>2
  <2> QED BY <2>3 DEF i
<1> DEFINE L == (l + 1) + 1
<1>11. L \in Nat /\ Power(Radix, L) = g /\ Power(Radix, L + 1) = Radix * g
  BY <1>1, <1>3
<1> HIDE DEF L
<1>12. Tight(e, N)
  BY DEF N
<1>13. Len(e) = L + 1
  BY <1>10, <1>11, <1>12, TightLength
<1> DEFINE t == Last(e)
           dl == Value(e, L)
<1>14. t \in Nat /\ dl \in Nat /\ dl < g /\ N = t * g + dl /\ e \in Seq(Digit)
  <2>1. Len(e) - 1 = L
    BY <1>11, <1>13
  <2> QED BY <1>11, <1>12, <2>1, TightIs DEF Tight
<1> HIDE DEF t, dl
<1>15. t = v1 /\ dl = y
  <2>1. dl + t * g = y + v1 * g
    <3>1. t * g \in Nat /\ v1 * g \in Nat
      <4>1. t \in Nat /\ g \in Nat /\ v1 \in Nat
        BY <1>5, <1>8, <1>14
      <4> QED BY <4>1
    <3> QED BY <1>7, <1>14, <3>1
  <2>2. /\ g \in Nat /\ dl \in Nat /\ y \in Nat /\ t \in Nat /\ v1 \in Nat
        /\ dl < g /\ y < g /\ dl + t * g = y + v1 * g
    BY <1>5, <1>8, <1>9, <1>14, <2>1
  <2>3. dl = y /\ t = v1
    BY <2>2, TopDigit, Zenon
  <2> QED BY <2>3
<1>16. e[L] <= v1
  <2> DEFINE s == At(e, L)
             f == Value(e, l + 1)
  <2>1. dl = f + s * u /\ f \in Nat
    <3> DEFINE i == l + 1
    <3>1. i \in Nat /\ i + 1 = L /\ Power(Radix, i) = u
      BY <1>1, <1>3 DEF L
    <3> HIDE DEF i
    <3>2. Value(e, i + 1) = Value(e, i) + At(e, i + 1) * Power(Radix, i) /\ Value(e, i) \in Nat
      BY <1>14, <3>1, ValueIs
    <3> QED BY <3>1, <3>2 DEF dl, i
  <2>2. s \in Nat /\ s = e[L]
    <3>1. L \in 1 .. Len(e) /\ L \in Int
      BY <1>1, <1>11, <1>13 DEF L
    <3> QED BY <1>14, <3>1, AtIs
  <2> HIDE DEF s, f
  <2>3. s < v2 - v1 + 1
    <3> DEFINE z == v2 - v1 + 1
    <3>1. z \in Nat /\ y < z * u
      BY <1>4, <1>5, <1>7
    <3> HIDE DEF z
    <3>2. s >= z => s * u >= z * u
      <4>1. s \in Nat /\ u \in Nat /\ z \in Nat
        BY <1>8, <2>2, <3>1
      <4> QED BY <4>1
    <3>3. s * u \in Nat /\ z * u \in Nat
      BY <1>8, <2>2, <3>1
    <3> DEFINE a == s * u
               b == z * u
    <3>4. a \in Nat /\ b \in Nat /\ (s >= z => a >= b) /\ y < b /\ y = f + a
      BY <1>15, <2>1, <3>1, <3>2, <3>3
    <3> HIDE DEF a, b
    <3>5. s < z
      BY <2>1, <2>2, <3>1, <3>4
    <3> QED BY <3>5 DEF z
  <2>4. 2 * v1 >= Radix
    BY DEF v1
  <2> QED BY <1>2, <1>4, <1>5, <2>2, <2>3, <2>4
<1>17. Len(e) - 1 = L /\ Len(e) >= 1
  BY <1>11, <1>13
<1> QED BY <1>14, <1>15, <1>16, <1>17 DEF Divisor, t, v1

LEMMA ZeroLow ==
    ASSUME NEW c \in Seq(Digit), NEW j \in Nat, j <= Len(c), \A i \in 1 .. j : c[i] = 0
    PROVE  \E z \in Nat : Magnitude(c) = Power(Radix, j) * z
<1> DEFINE m == Len(c) - j
           e == Slice(c, j, m)
           z == Value(e, m)
<1>1. m \in Nat /\ j + m = Len(c) /\ j + m <= Len(c)
  BY AtIs
<1>2. e \in Seq(Digit) /\ IsSlice(e, c, j, m)
  <2> HIDE DEF m
  <2> QED BY <1>1, SliceIs
<1> HIDE DEF m, e
<1>3. Value(c, j) = 0
  <2>1. <<>> \in Seq(Digit) /\ Len(<<>>) = 0
    OBVIOUS
  <2>2. \A i \in 1 .. j : At(c, i) = At(<<>>, i)
    <3> TAKE i \in 1 .. j
    <3>1. i \in 1 .. Len(c) /\ i \in Int /\ i > 0
      BY AtIs
    <3>2. At(c, i) = 0
      BY <3>1, AtIs
    <3>3. At(<<>>, i) = 0
      BY <2>1, <3>1, AtIs
    <3> QED BY <3>2, <3>3
  <2>3. Value(c, j) = Value(<<>>, j)
    BY <2>1, <2>2, ValueSame
  <2>4. Value(<<>>, j) = Magnitude(<<>>) /\ Magnitude(<<>>) = 0
    <3>1. \A n \in Nat : n >= Len(<<>>) => Value(<<>>, n) = Magnitude(<<>>)
      BY <2>1, MagnitudeIs
    <3>2. Value(<<>>, 0) = 0
      BY <2>1, ValueIs
    <3>3. j >= Len(<<>>) /\ 0 >= Len(<<>>) /\ 0 \in Nat
      BY <2>1
    <3> QED BY <3>1, <3>2, <3>3
  <2> QED BY <2>3, <2>4
<1>4. z \in Nat /\ Power(Radix, j) \in Nat
  BY <1>1, <1>2, ValueIs, Weights
<1>5. Value(c, j + m) = Value(c, j) + z * Power(Radix, j)
  BY <1>1, <1>2, ValueSplit
<1>6. Magnitude(c) = z * Power(Radix, j)
  <2> HIDE DEF z
  <2>1. z * Power(Radix, j) \in Nat
    BY <1>4
  <2> QED BY <1>1, <1>3, <1>5, <2>1 DEF Magnitude
<1>7. z * Power(Radix, j) = Power(Radix, j) * z
  <2> HIDE DEF z
  <2> QED BY <1>4
<1> QED BY <1>4, <1>6, <1>7

LEMMA DigitPut ==
    ASSUME NEW c \in Seq(Digit), NEW j \in 1 .. Len(c), c[j] = 0, NEW x \in Digit
    PROVE  LET e == [c EXCEPT ![j] = x]
           IN  /\ e \in Seq(Digit) /\ Len(e) = Len(c)
               /\ \A i \in 1 .. Len(c) : i # j => e[i] = c[i]
               /\ Magnitude(e) = Magnitude(c) + x * Power(Radix, j - 1)
<1> DEFINE e == [c EXCEPT ![j] = x]
           o == j - 1
           w == Power(Radix, o)
           s == Slice(c, o, 1)
           t == Slice(e, o, 1)
<1>1. Len(c) \in Nat /\ o \in Nat /\ o + 1 <= Len(c) /\ o + 1 = j /\ 1 \in Nat /\ j \in Int
  BY AtIs
<1>2. e \in Seq(Digit) /\ Len(e) = Len(c) /\ e[j] = x /\ \A i \in 1 .. Len(c) : i # j => e[i] = c[i]
  OBVIOUS
<1> HIDE DEF e, o
<1>3. ASSUME NEW i \in Int, i # j
      PROVE  At(e, i) = At(c, i)
  <2>1. CASE i \in 1 .. Len(c)
    BY <1>2, <1>3, <2>1, AtIs
  <2>2. CASE ~ (i \in 1 .. Len(c))
    <3>1. i > Len(c) \/ i < 1
      BY <1>1, <2>2
    <3> QED BY <1>2, <3>1, AtIs
  <2> QED BY <2>1, <2>2
<1>4. s \in Seq(Digit) /\ IsSlice(s, c, o, 1) /\ t \in Seq(Digit) /\ IsSlice(t, e, o, 1)
  BY <1>1, <1>2, SliceIs
<1> HIDE DEF s, t
<1>5. Exchanged(Magnitude(e), Value(s, 1), Magnitude(c), Value(t, 1), w)
  <2>1. \A i \in 1 .. o : At(e, i) = At(c, i)
    <3> TAKE i \in 1 .. o
    <3>1. i \in Int /\ i # j
      BY <1>1
    <3> QED BY <1>3, <3>1
  <2>2. \A i \in Nat : i > o + 1 => At(e, i) = At(c, i)
    <3> TAKE i \in Nat
    <3>1. i > o + 1 => i \in Int /\ i # j
      BY <1>1
    <3> QED BY <1>3, <3>1
  <2> QED BY <1>1, <1>2, <1>4, <2>1, <2>2, Changed
<1>6. Value(s, 1) = 0 /\ Value(t, 1) = x
  <2>1. At(s, 1) = At(c, j) /\ At(t, 1) = At(e, j)
    <3>1. 1 \in 1 .. 1
      OBVIOUS
    <3> QED BY <1>1, <1>4, <3>1 DEF IsSlice
  <2>2. At(c, j) = 0 /\ At(e, j) = x
    BY <1>2, AtIs
  <2>3. Value(s, 0 + 1) = 0 + At(s, 0 + 1) * 1 /\ Value(t, 0 + 1) = 0 + At(t, 0 + 1) * 1
    BY <1>4, ValueIs, Weights
  <2>4. x \in Nat
    BY Words DEF Digit
  <2> QED BY <2>1, <2>2, <2>3, <2>4
<1>7. Magnitude(e) = Magnitude(c) + x * w
  <2>1. Magnitude(e) \in Nat /\ w \in Nat
    BY <1>1, <1>2, MagnitudeIs, Weights
  <2>2. Magnitude(e) + 0 * w = Magnitude(c) + x * w
    BY <1>5, <1>6 DEF Exchanged
  <2> HIDE DEF w
  <2> QED BY <2>1, <2>2
<1> QED BY <1>2, <1>7 DEF e, w, o

Under(a, m, p) == a < m * p

Multiple(c, p, z) == c = p * z

(* The remainder and the quotient make up the dividend.                     *)
MadeOf(a, m, c, N) == a + m * c = N

LEMMA SumStep ==
    ASSUME NEW a \in Nat, NEW b \in Nat, NEW q \in Nat, NEW m \in Nat, NEW w \in Nat, NEW c \in Nat,
           NEW N \in Nat, MadeOf(a, m, c, N), Less(b, q * m, w, a)
    PROVE  MadeOf(b, m, c + q * w, N) /\ MadeOf(b, m, (c + q * w) - c, a)
<1> DEFINE x == m * c
           y == (q * m) * w
           z == q * w
<1>1. z \in Nat /\ m * (c + z) = m * c + m * z /\ m * z = y
  <2>1. z \in Nat
    OBVIOUS
  <2>2. m * z = y
    OBVIOUS
  <2> HIDE DEF z, y
  <2>3. m * (c + z) = m * c + m * z
    BY <2>1
  <2> QED BY <2>1, <2>2, <2>3
<1>2. x \in Nat /\ y \in Nat
  <2>1. q * m \in Nat
    OBVIOUS
  <2> QED BY <2>1
<1>3. a + x = N /\ b + y = a
  BY DEF MadeOf, Less
<1>4. m * (c + z) = x + y
  BY <1>1
<1>5. (c + z) - c = z /\ m * z = y
  BY <1>1
<1> HIDE DEF x, y, z
<1>6. b + (x + y) = N
  BY <1>2, <1>3
<1> QED BY <1>3, <1>4, <1>5, <1>6 DEF MadeOf, z

(* The rest of N over m * p is a.                                           *)
Leaves(N, m, p, a) == N % (m * p) = a

LEMMA Rest ==
    ASSUME NEW a \in Nat, NEW m \in Nat, NEW c \in Nat, NEW N \in Nat, MadeOf(a, m, c, N),
           NEW p \in Nat, NEW z \in Nat, Under(a, m, p), Multiple(c, p, z)
    PROVE  Leaves(N, m, p, a)
<1>0. c = p * z /\ a < m * p
  BY DEF Under, Multiple
<1> DEFINE g == m * p
<1>1. g \in Nat /\ g > 0 /\ a < g
  <2>1. g \in Nat
    OBVIOUS
  <2> QED BY <1>0, <2>1
<1>2. N = g * z + a
  <2>1. m * (p * z) = (m * p) * z
    OBVIOUS
  <2>2. a + m * (p * z) = N
    BY <1>0 DEF MadeOf
  <2> DEFINE x == g * z
  <2>3. x \in Nat
    <3> HIDE DEF g
    <3> QED BY <1>1
  <2>4. a + x = N
    BY <2>1, <2>2
  <2> HIDE DEF x
  <2>5. N = x + a
    BY <2>3, <2>4
  <2> QED BY <2>5 DEF x
<1> HIDE DEF g
<1>3. N % g = a
  <2>1. z \in Int /\ N \in Int
    OBVIOUS
  <2> QED BY <1>1, <1>2, <2>1, DivUnique
<1> QED BY <1>3 DEF g, Leaves

(* The j-th digit of the quotient has no estimate in one word.              *)
Met(N, d, j) == (N % (Magnitude(d) * Power(Radix, j))) \div Power(Radix, Len(d) - 1 + j) = Last(d)

(* What holds as the loop comes to digit top of the remainder: the remainder  *)
(* and the quotient make up N, and either no digit was without an estimate  *)
(* and what is left is less than the divisor at the place of the digit, or  *)
(* one was, and the remainder keeps a digit that no step will come to.      *)
Looping(d, a, c, top, N) ==
    LET j == top - (Len(d) - 1)
        m == Magnitude(d)
    IN  /\ Divisor(d) /\ a \in Seq(Digit) /\ c \in Seq(Digit) /\ top \in Nat /\ j \in Nat
        /\ top + 1 <= Len(a) /\ j <= Len(c)
        /\ \A i \in 1 .. j : c[i] = 0
        /\ MadeOf(Magnitude(a), m, Magnitude(c), N)
        /\ N < m * Power(Radix, Len(c))
        /\ \/ /\ Magnitude(a) < m * Power(Radix, j)
              /\ \A i \in j + 1 .. Len(c) : ~ Met(N, d, i)
           \/ /\ \E i \in j + 1 .. Len(c) : Met(N, d, i)
              /\ \E i \in Nat : i >= top + 2 /\ At(a, i) >= 1

LEMMA Places ==
    ASSUME NEW n \in Nat, n >= 1, NEW top \in Nat, top > n - 1
    PROVE  LET j == top - (n - 1)
               o == j - 1
           IN  /\ o \in Nat /\ j \in Nat /\ j >= 1 /\ o + 1 = j /\ o + n = top /\ o + (n + 1) = top + 1
               /\ o < j /\ o \in Int /\ j \in Int /\ top \in Int /\ top - 1 \in Nat /\ top + 1 \in Nat
               /\ (n - 1) + j = top /\ (top - 1) + 1 = top /\ (top - 1) + 2 = top + 1
               /\ top - (n - 1) - 1 = o /\ top - 1 - (n - 1) = o
OBVIOUS

(* What a turn of the loop makes of the remainder and the quotient.         *)
Turned(d, a, c, top, N) ==
    LET r == Len(d) - 1
        est == (a[top + 1] * Radix + a[top]) \div Last(d)
        s == SubtractMul(a, top - r - 1, d, est % Radix)
        e == [c EXCEPT ![top - r] = s.q]
    IN  /\ Looping(d, s.a, e, top - 1, N)
        /\ est \in Nat
        /\ est >= Radix => \E i \in 1 .. Len(c) : Met(N, d, i)
        /\ est < Radix /\ Magnitude(a) < Magnitude(d) * Power(Radix, top - r)
           => /\ Magnitude(s.a) < Magnitude(d) * Power(Radix, top - 1 - r)
              /\ Magnitude(a) = Magnitude(s.a) + Magnitude(d) * (Magnitude(e) - Magnitude(c))

LEMMA LoopStep ==
    ASSUME NEW d, NEW a, NEW c, NEW top, NEW N \in Nat, Looping(d, a, c, top, N), top > Len(d) - 1
    PROVE  Turned(d, a, c, top, N)
<1> DEFINE n == Len(d)
           j == top - (n - 1)
           o == j - 1
           m == Magnitude(d)
           est == (a[top + 1] * Radix + a[top]) \div Last(d)
           s == SubtractMul(a, o, d, est % Radix)
           e == [c EXCEPT ![j] = s.q]
           M == Magnitude(a)
           w == Power(Radix, o)
<1>1. /\ Divisor(d) /\ a \in Seq(Digit) /\ c \in Seq(Digit) /\ top \in Nat /\ j \in Nat
      /\ top + 1 <= Len(a) /\ j <= Len(c)
      /\ \A i \in 1 .. j : c[i] = 0
      /\ MadeOf(M, m, Magnitude(c), N)
      /\ N < m * Power(Radix, Len(c))
      /\ \/ /\ M < m * Power(Radix, j)
            /\ \A i \in j + 1 .. Len(c) : ~ Met(N, d, i)
         \/ /\ \E i \in j + 1 .. Len(c) : Met(N, d, i)
            /\ \E i \in Nat : i >= top + 2 /\ At(a, i) >= 1
  BY DEF Looping
<1>2. n \in Nat /\ n >= 1 /\ m \in Nat /\ M \in Nat /\ Magnitude(c) \in Nat /\ Len(c) \in Nat /\ Len(a) \in Nat
  BY <1>1, DivisorIs, MagnitudeIs DEF Divisor
<1>3. /\ o \in Nat /\ j >= 1 /\ o + 1 = j /\ o + n = top /\ o + (n + 1) = top + 1
      /\ o < j /\ o \in Int /\ j \in Int /\ top \in Int /\ top - 1 \in Nat /\ top + 1 \in Nat
      /\ (n - 1) + j = top /\ (top - 1) + 1 = top /\ (top - 1) + 2 = top + 1
      /\ top - (n - 1) - 1 = o /\ top - 1 - (n - 1) = o
  <2>1. n \in Nat /\ n >= 1 /\ top \in Nat /\ top > n - 1
    BY <1>1, <1>2
  <2> HIDE DEF n
  <2> QED BY <2>1, Places
<1>30. /\ top - (Len(d) - 1) - 1 = o /\ top - (Len(d) - 1) = j /\ top - 1 - (Len(d) - 1) = o
       /\ (top - 1) - (Len(d) - 1) = o
  <2>1. n = Len(d) /\ j = top - (n - 1)
    OBVIOUS
  <2> HIDE DEF n, j, o
  <2> QED BY <1>3, <2>1
<1>31. j \in 1 .. Len(c) /\ o <= Len(c) /\ (top - 1) + 1 <= Len(a)
  <2>1. j <= Len(c) /\ Len(c) \in Nat /\ Len(a) \in Nat /\ top + 1 <= Len(a)
    BY <1>1, <1>2
  <2> HIDE DEF j, o
  <2> QED BY <1>3, <2>1
<1>4. est \in Nat /\ Digited(s, a, o, d, est)
  <2>1. o + (Len(d) + 1) <= Len(a)
    BY <1>1, <1>3
  <2>2. a[o + (Len(d) + 1)] = a[top + 1] /\ a[o + Len(d)] = a[top]
    BY <1>3
  <2> HIDE DEF o
  <2> QED BY <1>1, <1>3, <2>1, <2>2, DigitStep
<1> HIDE DEF s, est
<1> DEFINE x == At(a, o + (n + 1))
<1>5. /\ s.a \in Seq(Digit) /\ Len(s.a) = Len(a) /\ s.q \in Digit
      /\ \A i \in Nat : i > o + (n + 1) => At(s.a, i) = At(a, i)
      /\ Less(Magnitude(s.a), s.q * m, w, M)
      /\ M < m * Power(Radix, o + 1)
         => /\ x = M \div Power(Radix, o + n)
            /\ est >= Radix <=> x = Last(d)
            /\ est < Radix => Magnitude(s.a) < m * w
            /\ est >= Radix => At(s.a, o + (n + 1)) >= 1
  BY <1>4 DEF Digited
<1>6. /\ e \in Seq(Digit) /\ Len(e) = Len(c)
      /\ \A i \in 1 .. Len(c) : i # j => e[i] = c[i]
      /\ Magnitude(e) = Magnitude(c) + s.q * w
  <2>1. c[j] = 0
    <3>1. j \in 1 .. j
      BY <1>3
    <3> QED BY <1>1, <3>1
  <2>2. j - 1 = o
    OBVIOUS
  <2> HIDE DEF j, o, e
  <2>3. e = [c EXCEPT ![j] = s.q]
    BY DEF e
  <2>4. c \in Seq(Digit) /\ j \in 1 .. Len(c) /\ s.q \in Digit
    BY <1>1, <1>31, <1>5
  <2> DEFINE f == [c EXCEPT ![j] = s.q]
  <2>5. /\ f \in Seq(Digit) /\ Len(f) = Len(c)
        /\ \A i \in 1 .. Len(c) : i # j => f[i] = c[i]
        /\ Magnitude(f) = Magnitude(c) + s.q * Power(Radix, j - 1)
    BY <2>1, <2>4, DigitPut
  <2> HIDE DEF f
  <2>6. e = f
    BY <2>3 DEF f
  <2> QED BY <2>2, <2>5, <2>6
<1> HIDE DEF e, o, j, n, m, M, x
<1>7. MadeOf(Magnitude(s.a), m, Magnitude(e), N) /\ MadeOf(Magnitude(s.a), m, Magnitude(e) - Magnitude(c), M)
  <2>1. Magnitude(s.a) \in Nat /\ s.q \in Nat /\ w \in Nat
    <3>1. Magnitude(s.a) \in Nat
      BY <1>5, MagnitudeIs
    <3>2. w \in Nat
      BY <1>3, Weights
    <3> QED BY <1>5, <3>1, <3>2, Words DEF Digit
  <2>2. MadeOf(M, m, Magnitude(c), N) /\ Less(Magnitude(s.a), s.q * m, w, M) /\ Magnitude(e) = Magnitude(c) + s.q * w
    BY <1>1, <1>5, <1>6
  <2>3. /\ MadeOf(Magnitude(s.a), m, Magnitude(c) + s.q * w, N)
        /\ MadeOf(Magnitude(s.a), m, (Magnitude(c) + s.q * w) - Magnitude(c), M)
    <3> DEFINE b == Magnitude(s.a)
               g == Magnitude(c)
               q == s.q
    <3>1. /\ M \in Nat /\ b \in Nat /\ q \in Nat /\ m \in Nat /\ w \in Nat /\ g \in Nat
          /\ MadeOf(M, m, g, N) /\ Less(b, q * m, w, M)
      BY <1>2, <2>1, <2>2
    <3> HIDE DEF b, g, q, w
    <3>2. MadeOf(b, m, g + q * w, N) /\ MadeOf(b, m, (g + q * w) - g, M)
      BY <3>1, SumStep
    <3> QED BY <3>2 DEF b, g, q
  <2> QED BY <2>2, <2>3
<1>8. \A i \in 1 .. o : e[i] = 0
  <2> TAKE i \in 1 .. o
  <2>1. i \in 1 .. Len(c) /\ i # j /\ i \in 1 .. j
    <3>1. o \in Int /\ o < j /\ j \in Int /\ j <= Len(c) /\ Len(c) \in Int
      BY <1>1, <1>2, <1>3
    <3> QED BY <3>1
  <2> QED BY <1>1, <1>6, <2>1
<1>9. M < m * Power(Radix, j) => (Met(N, d, j) <=> est >= Radix)
  <2> HAVE M < m * Power(Radix, j)
  <2>1. PICK z \in Nat : Magnitude(c) = Power(Radix, j) * z
    BY <1>1, ZeroLow
  <2>2. Power(Radix, j) \in Nat
    BY <1>1, Weights
  <2>3. N % (m * Power(Radix, j)) = M
    <3>1. MadeOf(M, m, Magnitude(c), N)
      BY <1>1
    <3> DEFINE g == Magnitude(c)
               f == Power(Radix, j)
    <3>2. M \in Nat /\ m \in Nat /\ g \in Nat /\ MadeOf(M, m, g, N) /\ f \in Nat /\ Multiple(g, f, z) /\ Under(M, m, f)
      BY <1>2, <2>1, <2>2, <3>1 DEF Multiple, Under
    <3> HIDE DEF f, g
    <3>3. Leaves(N, m, f, M)
      BY <3>2, Rest
    <3> QED BY <3>3 DEF f, Leaves
  <2>4. Met(N, d, j) <=> M \div Power(Radix, top) = Last(d)
    BY <1>3, <1>30, <2>3 DEF Met, m, n
  <2>5. x = M \div Power(Radix, top) /\ (est >= Radix <=> x = Last(d))
    BY <1>3, <1>5
  <2> QED BY <2>4, <2>5
<1>10. est < Radix \/ est >= Radix
  BY <1>4, Words
<1>11. \/ /\ Magnitude(s.a) < m * w
          /\ \A i \in o + 1 .. Len(c) : ~ Met(N, d, i)
       \/ /\ \E i \in o + 1 .. Len(c) : Met(N, d, i)
          /\ \E i \in Nat : i >= (top - 1) + 2 /\ At(s.a, i) >= 1
  <2>1. ASSUME M < m * Power(Radix, j), \A i \in j + 1 .. Len(c) : ~ Met(N, d, i), est < Radix
        PROVE  Magnitude(s.a) < m * w /\ \A i \in o + 1 .. Len(c) : ~ Met(N, d, i)
    <3>1. Magnitude(s.a) < m * w
      BY <1>3, <1>5, <2>1
    <3>2. ~ Met(N, d, j)
      BY <1>4, <1>9, <2>1, Words
    <3>3. \A i \in o + 1 .. Len(c) : i = j \/ i \in j + 1 .. Len(c)
      BY <1>2, <1>3
    <3> QED BY <2>1, <3>1, <3>2, <3>3
  <2>2. ASSUME M < m * Power(Radix, j), est >= Radix
        PROVE  /\ \E i \in o + 1 .. Len(c) : Met(N, d, i)
               /\ \E i \in Nat : i >= (top - 1) + 2 /\ At(s.a, i) >= 1
    <3>1. Met(N, d, j) /\ j \in o + 1 .. Len(c)
      <4>1. Met(N, d, j)
        BY <1>9, <2>2
      <4>2. o + 1 = j /\ j \in 1 .. Len(c) /\ Len(c) \in Int
        BY <1>2, <1>3, <1>31
      <4> QED BY <4>1, <4>2
    <3>2. At(s.a, top + 1) >= 1 /\ top + 1 \in Nat /\ top + 1 >= (top - 1) + 2
      <4>1. o + 1 = j /\ o + (n + 1) = top + 1
        BY <1>3
      <4>2. At(s.a, o + (n + 1)) >= 1
        BY <1>5, <2>2, <4>1
      <4> QED BY <1>3, <4>1, <4>2
    <3> QED BY <3>1, <3>2
  <2>3. ASSUME \E i \in j + 1 .. Len(c) : Met(N, d, i),
               \E i \in Nat : i >= top + 2 /\ At(a, i) >= 1
        PROVE  /\ \E i \in o + 1 .. Len(c) : Met(N, d, i)
               /\ \E i \in Nat : i >= (top - 1) + 2 /\ At(s.a, i) >= 1
    <3>1. j + 1 .. Len(c) \subseteq o + 1 .. Len(c)
      <4> SUFFICES ASSUME NEW i \in j + 1 .. Len(c) PROVE i \in o + 1 .. Len(c)
        OBVIOUS
      <4>1. j \in Int /\ o \in Int /\ o < j /\ Len(c) \in Int
        BY <1>2, <1>3
      <4> QED BY <4>1
    <3>2. PICK i \in Nat : i >= top + 2 /\ At(a, i) >= 1
      BY <2>3
    <3>3. i > o + (n + 1) /\ i >= (top - 1) + 2
      <4>1. i > top + 1 /\ i >= top + 1
        BY <1>3, <3>2
      <4> QED BY <1>3, <4>1
    <3>4. At(s.a, i) = At(a, i)
      BY <1>5, <3>3
    <3> QED BY <2>3, <3>1, <3>2, <3>3, <3>4
  <2> QED BY <1>1, <1>10, <2>1, <2>2, <2>3
<1>12. Looping(d, s.a, e, top - 1, N)
  <2> QED BY <1>1, <1>3, <1>30, <1>31, <1>5, <1>6, <1>7, <1>8, <1>11 DEF Looping, m
<1>13. est >= Radix => \E i \in 1 .. Len(c) : Met(N, d, i)
  <2> HAVE est >= Radix
  <2>1. CASE M < m * Power(Radix, j)
    BY <1>31, <1>9, <2>1
  <2>2. CASE \E i \in j + 1 .. Len(c) : Met(N, d, i)
    <3>1. j + 1 .. Len(c) \subseteq 1 .. Len(c)
      BY <1>1, <1>2
    <3> QED BY <2>2, <3>1
  <2> QED BY <1>1, <2>1, <2>2
<1>14. est < Radix /\ M < m * Power(Radix, j)
       => Magnitude(s.a) < m * w /\ M = Magnitude(s.a) + m * (Magnitude(e) - Magnitude(c))
  BY <1>3, <1>5, <1>7 DEF MadeOf
<1> QED BY <1>3, <1>30, <1>4, <1>12, <1>13, <1>14 DEF s, e, est, m, M, w, Turned

(* The longer of two numbers is not the smaller one.                        *)
LEMMA NotShorter ==
    ASSUME NEW c, NEW v, Tight(c, v), NEW e, NEW u, Tight(e, u), u <= v
    PROVE  Len(e) <= Len(c)
<1> DEFINE l == Len(c) - 1
           k1 == Len(e) - 1
<1>1. l \in Nat /\ v < Power(Radix, l + 1) /\ v \in Nat /\ Len(c) = l + 1
  BY TightIs
<1>2. k1 \in Nat /\ Power(Radix, k1) <= u /\ u \in Nat /\ Len(e) = k1 + 1
  BY TightIs
<1> HIDE DEF l, k1
<1>3. ~ (l + 1 <= k1)
  <2>1. l + 1 <= k1 => Power(Radix, l + 1) <= Power(Radix, k1)
    BY <1>1, <1>2, Words, PowerGrows
  <2>2. Power(Radix, l + 1) \in Nat /\ Power(Radix, k1) \in Nat
    <3>1. l + 1 \in Nat
      BY <1>1
    <3> QED BY <1>2, <3>1, Weights
  <2> QED BY <1>1, <1>2, <2>1, <2>2
<1> QED BY <1>1, <1>2, <1>3

LEMMA EnterPlaces ==
    ASSUME NEW n \in Nat, NEW r \in Nat, r <= n, NEW x \in {0, 1}
    PROVE  LET top == n + x
           IN  /\ top \in Nat /\ top - r \in Nat /\ n + 1 + x = top + 1 /\ top + 1 \in Nat
               /\ n - r + x = top - r
               /\ n - r \in Nat /\ r + (n - r) = n
               /\ x = 1 => top = n + 1 /\ top - r = (n - r) + 1 /\ r + (top - r) = n + 1
               /\ x = 0 => top = n /\ top - r = n - r
OBVIOUS

(* The numbers as the loop finds them.                                      *)
LEMMA Entered ==
    ASSUME NEW c, NEW N, Tight(c, N), NEW d, NEW D, Tight(d, D), Divisor(d), D <= N
    PROVE  LET n == Len(c) - 1
               r == Len(d) - 1
               x == IF Last(c) >= Last(d) THEN 1 ELSE 0
           IN  Looping(d, Cells(Magnitude(c), n + 1 + x), Cells(0, n - r + x), n + x, N)
<1> DEFINE n == Len(c) - 1
           r == Len(d) - 1
           x == IF Last(c) >= Last(d) THEN 1 ELSE 0
           top == n + x
           w == Power(Radix, n)
           u == Power(Radix, r)
           t == Last(c)
           s == Last(d)
<1>1. /\ n \in Nat /\ w \in Nat /\ w > 0 /\ Power(Radix, n + 1) = Radix * w /\ t \in Nat
      /\ N \in Nat /\ w <= N /\ N < Radix * w /\ N < (t + 1) * w
  <2>1. Len(c) = n + 1
    BY TightIs
  <2> QED BY <2>1, TightIs
<1>2. /\ r \in Nat /\ u \in Nat /\ u > 0 /\ s \in Nat /\ D \in Nat /\ u <= D
      /\ \E dl \in Nat : D = s * u + dl
  BY TightIs
<1>3. r <= n
  <2>1. Len(d) <= Len(c) /\ Len(d) \in Nat /\ Len(c) \in Nat
    BY NotShorter, TightIs
  <2> QED BY <2>1
<1>4. x \in {0, 1} /\ Magnitude(c) = N /\ Magnitude(d) = D
  BY DEF Tight
<1>5. /\ top \in Nat /\ top - r \in Nat /\ n + 1 + x = top + 1 /\ top + 1 \in Nat
      /\ n - r + x = top - r
      /\ n - r \in Nat /\ r + (n - r) = n
      /\ x = 1 => top = n + 1 /\ top - r = (n - r) + 1 /\ r + (top - r) = n + 1
      /\ x = 0 => top = n /\ top - r = n - r
  <2> HIDE DEF n, r, x
  <2> QED BY <1>1, <1>2, <1>3, <1>4, EnterPlaces
<1>x. (x = 1 \/ x = 0) /\ (x = 0 => t + 1 <= s)
  BY <1>1, <1>2
<1> DEFINE j == top - r
           p == Power(Radix, n - r)
           q == Power(Radix, j)
<1>6. p \in Nat /\ q \in Nat /\ u * p = w
  <2>1. u * p = Power(Radix, r + (n - r))
    <3> HIDE DEF n, r
    <3> QED BY <1>2, <1>5, Words, PowerSum
  <2> QED BY <1>5, <2>1, Weights
<1>7. N < D * q
  <2>1. CASE x = 1
    <3>1. u * q = Radix * w
      <4>1. u * q = Power(Radix, r + j)
        <5> HIDE DEF n, r, x
        <5> QED BY <1>2, <1>5, Words, PowerSum
      <4> QED BY <1>1, <1>5, <2>1, <4>1
    <3> HIDE DEF u, q, w
    <3>2. u * q <= D * q
      <4>1. u \in Nat /\ D \in Nat /\ u <= D /\ q \in Nat
        BY <1>2, <1>6
      <4> QED BY ONLY <4>1
    <3>3. u * q \in Nat /\ D * q \in Nat
      BY <1>2, <1>6
    <3> QED BY <1>1, <3>1, <3>2, <3>3
  <2>2. CASE x = 0
    <3>1. q = p
      BY <1>5, <2>2
    <3> HIDE DEF u, q, w, p, t, s, x
    <3>2. (t + 1) * w <= s * w
      BY <1>1, <1>2, <1>x, <2>2
    <3>3. s * w = (s * u) * p
      BY <1>2, <1>6
    <3>4. (s * u) * p <= D * p
      <4>1. PICK dl \in Nat : D = s * u + dl
        BY <1>2
      <4>2. s * u \in Nat
        BY <1>2
      <4> DEFINE y == s * u
      <4> HIDE DEF y
      <4>3. y <= D /\ y \in Nat
        BY <4>1, <4>2 DEF y
      <4>4. y * p <= D * p
        BY <1>2, <1>6, <4>3
      <4> QED BY <4>4 DEF y
    <3>5. (t + 1) * w \in Nat /\ s * w \in Nat /\ D * p \in Nat
      BY <1>1, <1>2, <1>6
    <3> QED BY <1>1, <3>1, <3>2, <3>3, <3>4, <3>5
  <2> QED BY <1>x, <2>1, <2>2
<1> DEFINE a == Cells(N, top + 1)
           e == Cells(0, j)
<1>8. a \in Seq(Digit) /\ Len(a) = top + 1 /\ Magnitude(a) = N
  <2>1. N < Power(Radix, top + 1)
    <3>1. n + 1 <= top + 1 /\ n + 1 \in Nat
      BY <1>1, <1>5, <1>x
    <3>2. Power(Radix, n + 1) <= Power(Radix, top + 1)
      <4> HIDE DEF n, top
      <4> QED BY <1>5, <3>1, Words, PowerGrows
    <3>3. Power(Radix, n + 1) \in Nat /\ Power(Radix, top + 1) \in Nat
      BY <1>5, <3>1, Weights
    <3> QED BY <1>1, <3>2, <3>3
  <2> QED BY <1>1, <1>5, <2>1, CellsAre, CellsMagnitude
<1>9. /\ e \in Seq(Digit) /\ Len(e) = j /\ Magnitude(e) = 0
      /\ \A i \in 1 .. j : e[i] = 0
  <2>1. /\ e \in Seq(Digit) /\ Len(e) = j
        /\ \A i \in Int : At(e, i) = 0
        /\ \A i \in Nat : Value(e, i) = 0
    BY <1>5, ZeroCells
  <2>2. \A i \in 1 .. Len(e) : At(e, i) = e[i]
    BY <2>1, AtIs
  <2> QED BY <1>5, <2>1, <2>2 DEF Magnitude
<1> HIDE DEF a, e
<1>10. MadeOf(Magnitude(a), D, Magnitude(e), N)
  BY <1>1, <1>2, <1>8, <1>9 DEF MadeOf
<1>11. j <= Len(e) /\ top + 1 <= Len(a) /\ j + 1 .. Len(e) = {}
  BY <1>5, <1>8, <1>9
<1>12. Looping(d, a, e, top, N)
  <2>1. j = top - (Len(d) - 1)
    OBVIOUS
  <2> HIDE DEF top, j
  <2> QED BY <1>4, <1>5, <1>7, <1>8, <1>9, <1>10, <1>11, <2>1 DEF Looping, j
<1>13. Cells(Magnitude(c), n + 1 + x) = a /\ Cells(0, n - r + x) = e
  BY <1>4, <1>5 DEF a, e
<1> HIDE DEF a, e, x
<1> QED BY <1>12, <1>13 DEF x

LEMMA OneDigit ==
    ASSUME NEW v \in Digit
    PROVE  <<v>> \in Seq(Digit) /\ Len(<<v>>) = 1 /\ Magnitude(<<v>>) = v
<1>1. v \in Nat /\ <<v>> \in Seq(Digit) /\ Len(<<v>>) = 1 /\ <<v>>[1] = v
  BY Words DEF Digit
<1>2. At(<<v>>, 0 + 1) = v
  <2>1. 1 \in 1 .. Len(<<v>>) /\ 0 + 1 = 1
    BY <1>1
  <2> QED BY <1>1, <2>1, AtIs
<1>3. Value(<<v>>, 0 + 1) = 0 + v * 1
  BY <1>1, <1>2, ValueIs, Weights
<1> QED BY <1>1, <1>3 DEF Magnitude

Scaled(c) == Reduce(MulBignumWords(c, <<Radix - 1>>))

LEMMA ScaledTight ==
    ASSUME NEW c, NEW v, Tight(c, v), v >= 1
    PROVE  Tight(Scaled(c), v * (Radix - 1))
<1> DEFINE o == <<Radix - 1>>
           p == MulBignumWords(c, o)
<1>1. Radix \in Nat /\ Radix >= 4 /\ Radix - 1 \in Digit /\ Radix - 1 \in Nat /\ Radix - 1 >= 1
  BY Words DEF Digit
<1>2. o \in Seq(Digit) /\ Len(o) = 1 /\ Magnitude(o) = Radix - 1
  BY <1>1, OneDigit
<1>3. c \in Seq(Digit) /\ Magnitude(c) = v /\ v \in Nat
  BY TightIs DEF Tight
<1> HIDE DEF o
<1>4. p \in Seq(Digit) /\ Magnitude(p) = v * (Radix - 1)
  <2>1. ~ LosesCarry(c, o)
    BY <1>2, <1>3, OneRow
  <2>2. p \in Seq(Digit) /\ Magnitude(p) = Magnitude(c) * Magnitude(o)
    BY <1>2, <1>3, <2>1, ProductIs
  <2> HIDE DEF p
  <2> QED BY <1>2, <1>3, <2>2
<1>5. v * (Radix - 1) >= 1
  <2> DEFINE r == Radix - 1
  <2> HIDE DEF r
  <2>1. r \in Nat /\ r >= 1
    BY <1>1 DEF r
  <2>2. v * r >= v
    BY <1>3, <2>1
  <2>3. v * r \in Nat
    BY <1>3, <2>1
  <2> QED BY <1>3, <2>2, <2>3 DEF r
<1> HIDE DEF p
<1>6. Tight(Reduce(p), v * (Radix - 1))
  <2>1. Magnitude(p) >= 1
    BY <1>4, <1>5
  <2> QED BY <1>4, <2>1, ReducedTight
<1> QED BY <1>6 DEF Scaled, p, o

LEMMA ShiftedTight ==
    ASSUME NEW a, NEW v, Tight(a.cells, v), IsBignum(a), NEW x \in Nat,
           v * Power(2, x) >= FixLimit
    PROVE  Tight(BignumShift(a, x, FALSE).cells, v * Power(2, x))
<1> DEFINE s == Shifted(Magnitude(a.cells), x)
<1>1. a.cells \in Seq(Digit) /\ Magnitude(a.cells) = v /\ v \in Nat
  BY TightIs DEF Tight
<1>2. s = v * Power(2, x)
  <2>1. ~ (x < 0)
    OBVIOUS
  <2> QED BY <1>1, <2>1 DEF Shifted
<1>3. s \in Nat
  BY <1>1, ShiftedIs
<1>4. BignumShift(a, x, FALSE) = Canonical(s)
  <2>1. x \in Int
    OBVIOUS
  <2> QED BY <2>1, BignumShiftIs
<1> HIDE DEF s
<1>5. ~ IsFixnum(s)
  BY <1>2, <1>3, Words DEF IsFixnum
<1> QED BY <1>2, <1>3, <1>4, <1>5, CanonicalTight

(* The divisor and the dividend as they are before the loop.                *)
LEMMA Prepared ==
    ASSUME NEW m \in Int, NEW n \in Int, n # 0, ~ IsDirect(AsBignum(m), AsBignum(n))
    PROVE  LET d == AsBignum(n)
               x == ShiftBits(Last(d.cells))
               f == Power(2, x)
               sn == BignumShift(AsBignum(m), x, FALSE).cells
               sd == BignumShift(d, x, FALSE).cells
           IN  /\ x \in 0 .. 2 * HalfBits - 1
               /\ f \in Nat /\ f >= 1
               /\ Abs(n) \in Nat /\ Abs(m) \in Nat /\ Abs(n) >= 1 /\ Abs(n) <= Abs(m)
               /\ Tight(sn, Abs(m) * f) /\ Tight(sd, Abs(n) * f)
               /\ 2 * Last(sd) >= Radix
<1> DEFINE a == AsBignum(m)
           d == AsBignum(n)
           t == Last(d.cells)
           x == ShiftBits(t)
           f == Power(2, x)
           sn == BignumShift(a, x, FALSE).cells
           sd == BignumShift(d, x, FALSE).cells
           A == Abs(m)
           B == Abs(n)
           h == Radix \div 2
<1>1. A \in Nat /\ B \in Nat
  BY DEF Abs
<1>2. Tight(d.cells, B) /\ IsBignum(d) /\ B >= 1
  BY AsBignumTight, AsBignumIs
<1>3. Magnitude(a.cells) = A
  <2>1. IsBignum(a) /\ Number(a) = m
    BY AsBignumIs
  <2>2. Magnitude(a.cells) \in Nat
    BY <2>1, MagnitudeIs DEF IsBignum
  <2>3. a.neg = (m < 0)
    BY DEF AsBignum, FixnumToBignum, Bignum
  <2> HIDE DEF a
  <2> QED BY <2>1, <2>2, <2>3 DEF Number, Signed, Abs
<1>4. B <= A /\ m # 0
  <2>1. ~ (Magnitude(a.cells) < Magnitude(d.cells))
    BY DEF IsDirect
  <2>2. Magnitude(d.cells) = B
    BY <1>2 DEF Tight
  <2>3. B <= A
    BY <1>1, <1>3, <2>1, <2>2
  <2>4. m = 0 => A = 0
    BY DEF Abs
  <2> QED BY <1>1, <1>2, <2>3, <2>4
<1>5. Tight(a.cells, A) /\ IsBignum(a)
  BY <1>4, AsBignumTight, AsBignumIs
<1>6. t \in Nat /\ t >= 1 /\ t < Radix /\ t <= B
  <2> HIDE DEF A, B, d
  <2> DEFINE w == Power(Radix, Len(d.cells) - 1)
             dl == Value(d.cells, Len(d.cells) - 1)
  <2>1. t \in Nat /\ t >= 1 /\ t < Radix /\ w \in Nat /\ w > 0 /\ dl \in Nat /\ B = t * w + dl
    BY <1>2, TightIs
  <2> HIDE DEF t, w, dl
  <2>2. t * w >= t /\ t * w \in Nat
    BY <2>1
  <2> DEFINE y == t * w
  <2> HIDE DEF y
  <2>3. y >= t /\ y \in Nat /\ B = y + dl
    BY <2>1, <2>2 DEF y
  <2> QED BY <2>1, <2>3
<1> HIDE DEF a, d, A, B, t
<1>7. x \in 0 .. 2 * HalfBits - 1 /\ t * f \in h .. Radix - 1
  BY <1>6, ShiftBitsIs
<1>8. f \in Nat /\ f >= 1 /\ h \in Nat /\ Radix = 2 * h
  BY <1>7, HalfRadix
<1>80. x \in Nat
  BY <1>7, HalfRadix
<1>9. h >= FixLimit
  BY <1>8, Words
<1> HIDE DEF h, f
<1>10. B * f >= FixLimit /\ A * f >= FixLimit
  <2>1. t * f <= B * f
    BY <1>1, <1>6, <1>8
  <2>2. B * f <= A * f
    BY <1>1, <1>4, <1>8
  <2>3. t * f \in Nat /\ B * f \in Nat /\ A * f \in Nat /\ FixLimit \in Nat
    BY <1>1, <1>6, <1>8, Words
  <2>4. t * f >= h
    BY <1>7, <1>8, Words
  <2> QED BY <1>8, <1>9, <2>1, <2>2, <2>3, <2>4
<1>11. Tight(sn, A * f) /\ Tight(sd, B * f)
  BY <1>2, <1>5, <1>80, <1>10, ShiftedTight DEF f
<1>12. 2 * Last(sd) >= Radix
  BY <1>2, <1>11, TopBit DEF f, t
<1> QED BY <1>1, <1>2, <1>4, <1>7, <1>8, <1>11, <1>12 DEF a, d, A, B, t, f

(* What both numbers are multiplied by before the loop.                     *)
Factor(x, twice) == Power(2, x) * (IF twice THEN Radix - 1 ELSE 1)

LEMMA Multiplied ==
    ASSUME NEW v \in Nat, NEW x, Power(2, x) \in Nat
    PROVE  /\ v * Factor(x, FALSE) = v * Power(2, x)
           /\ v * Factor(x, TRUE) = (v * Power(2, x)) * (Radix - 1)
<1> DEFINE f == Power(2, x)
           r == Radix - 1
<1>1. r \in Nat /\ f \in Nat
  BY Words
<1>2. Factor(x, FALSE) = f * 1 /\ Factor(x, TRUE) = f * r
  BY Zenon DEF Factor
<1> HIDE DEF f, r
<1>3. f * 1 = f
  BY <1>1
<1>4. v * (f * r) = (v * f) * r
  BY <1>1
<1> QED BY <1>2, <1>3, <1>4 DEF f, r

LEMMA FactorIs ==
    ASSUME NEW x \in 0 .. 2 * HalfBits - 1, NEW twice \in BOOLEAN
    PROVE  Factor(x, twice) \in Nat /\ Factor(x, twice) >= 1
<1> DEFINE f == Power(2, x)
           r == IF twice THEN Radix - 1 ELSE 1
<1>1. f \in Nat /\ f >= 1
  BY HalfRadix
<1>2. r \in Nat /\ r >= 1
  BY Words
<1> HIDE DEF f, r
<1>3. f * r >= f /\ f * r \in Nat
  BY <1>1, <1>2
<1>4. f * r >= 1
  BY <1>1, <1>3
<1> QED BY <1>3, <1>4 DEF f, r, Factor

(* What the loop is given. *)
LEMMA Given ==
    ASSUME NEW m \in Int, NEW n \in Int, n # 0, ~ IsDirect(AsBignum(m), AsBignum(n))
    PROVE  LET d == AsBignum(n)
               x == ShiftBits(Last(d.cells))
               sn == BignumShift(AsBignum(m), x, FALSE).cells
               sd == BignumShift(d, x, FALSE).cells
               twice == NeedsSecond(sd)
               c == IF twice THEN Scaled(sn) ELSE sn
               e == IF twice THEN Scaled(sd) ELSE sd
               f == Factor(x, twice)
           IN  /\ x \in 0 .. 2 * HalfBits - 1 /\ twice \in BOOLEAN
               /\ Abs(n) <= Abs(m) /\ Abs(m) \in Nat /\ Abs(n) \in Nat
               /\ Tight(c, Abs(m) * f) /\ Tight(e, Abs(n) * f) /\ Divisor(e)
               /\ Abs(n) * f <= Abs(m) * f
<1> DEFINE d == AsBignum(n)
           x == ShiftBits(Last(d.cells))
           sn == BignumShift(AsBignum(m), x, FALSE).cells
           sd == BignumShift(d, x, FALSE).cells
           twice == NeedsSecond(sd)
           c == IF twice THEN Scaled(sn) ELSE sn
           e == IF twice THEN Scaled(sd) ELSE sd
           p == Power(2, x)
           f == Factor(x, twice)
           A == Abs(m)
           B == Abs(n)
<1>1. /\ x \in 0 .. 2 * HalfBits - 1 /\ p \in Nat /\ p >= 1
      /\ A \in Nat /\ B \in Nat /\ B >= 1 /\ B <= A
      /\ Tight(sn, A * p) /\ Tight(sd, B * p)
      /\ 2 * Last(sd) >= Radix
  BY Prepared
<1>2. twice \in BOOLEAN
  BY DEF NeedsSecond
<1>3. f \in Nat /\ f >= 1
  BY <1>1, <1>2, FactorIs
<1> HIDE DEF d, x, sn, sd, p, A, B
<1>4. B * f <= A * f
  <2> HIDE DEF f
  <2> QED BY <1>1, <1>3
<1>5. Tight(c, A * f) /\ Tight(e, B * f) /\ Divisor(e)
  <2>0. /\ A * Factor(x, FALSE) = A * p /\ B * Factor(x, FALSE) = B * p
        /\ A * Factor(x, TRUE) = (A * p) * (Radix - 1) /\ B * Factor(x, TRUE) = (B * p) * (Radix - 1)
    BY <1>1, Multiplied DEF p
  <2>1. CASE twice
    <3>1. twice = TRUE
      BY <2>1
    <3>2. c = Scaled(sn) /\ e = Scaled(sd) /\ f = Factor(x, TRUE)
      BY <3>1
    <3> DEFINE y == A * p
               z == B * p
    <3>3. y >= 1 /\ z >= 1
      <4> HIDE DEF y, z
      <4>1. z >= p /\ z \in Nat
        BY <1>1 DEF z
      <4>2. y >= z /\ y \in Nat
        BY <1>1 DEF y, z
      <4> QED BY <1>1, <4>1, <4>2
    <3>4. Tight(sn, y) /\ Tight(sd, z)
      BY <1>1
    <3> HIDE DEF y, z
    <3>5. Tight(Scaled(sn), y * (Radix - 1)) /\ Tight(Scaled(sd), z * (Radix - 1))
      BY <3>3, <3>4, ScaledTight
    <3>6. Divisor(Scaled(sd))
      <4>1. Len(sd) > 1 /\ Last(sd) < sd[Len(sd) - 1]
        BY <2>1 DEF NeedsSecond
      <4> QED BY <1>1, <3>4, <3>5, <4>1, Mifsud
    <3> HIDE DEF twice, c, e, f
    <3> QED BY <2>0, <3>2, <3>5, <3>6 DEF y, z
  <2>2. CASE ~ twice
    <3>1. twice = FALSE
      BY <1>2, <2>2
    <3>2. c = sn /\ e = sd /\ f = Factor(x, FALSE)
      BY <3>1
    <3>3. Divisor(sd)
      <4>1. sd \in Seq(Digit) /\ Len(sd) >= 1
        BY <1>1 DEF Tight
      <4>2. Len(sd) > 1 => ~ (Last(sd) < sd[Len(sd) - 1])
        BY <2>2 DEF NeedsSecond
      <4>3. Len(sd) > 1 => sd[Len(sd) - 1] \in Nat /\ Last(sd) \in Nat
        <5>1. Len(sd) > 1 => Len(sd) - 1 \in 1 .. Len(sd) /\ Len(sd) \in 1 .. Len(sd)
          BY <4>1
        <5>2. \A i \in 1 .. Len(sd) : sd[i] \in Nat
          BY <4>1, Words DEF Digit
        <5> QED BY <5>1, <5>2 DEF Last
      <4> QED BY <1>1, <4>1, <4>2, <4>3 DEF Divisor
    <3> HIDE DEF twice, c, e, f
    <3> QED BY <1>1, <2>0, <3>2, <3>3
  <2> QED BY <2>1, <2>2
<1> HIDE DEF twice, c, e, f
<1> QED BY <1>1, <1>2, <1>4, <1>5 DEF d, x, sn, sd, A, B, twice, c, e, f

-----------------------------------------------------------------------------
(* The division under way: what the remainder and the quotient of the loop  *)
(* have to do with the numbers asked for.                                   *)
Dividing ==
    /\ call.op \in {"div", "rem"} /\ call.by \in Implementations
    /\ call.a \in Int /\ call.b \in Int /\ call.b # 0
    /\ ~ (IsFixnum(call.a) /\ IsFixnum(call.b))
    /\ Abs(call.b) <= Abs(call.a)
    /\ shift \in 0 .. 2 * HalfBits - 1 /\ second \in BOOLEAN
    /\ Magnitude(den) = Abs(call.b) * Factor(shift, second)
    /\ Looping(den, rem, quo, k, Abs(call.a) * Factor(shift, second))

LoopInv == phase = "divide" => Dividing

LEMMA EnterDivides ==
    ASSUME NEW m \in Int, NEW n \in Int, n # 0, ~ (IsFixnum(m) /\ IsFixnum(n)),
           ~ IsDirect(AsBignum(m), AsBignum(n)),
           NEW op \in {"div", "rem"}, NEW by \in Implementations,
           call' = [op |-> op, by |-> by, a |-> m, b |-> n],
           LET x == ShiftBits(Last(AsBignum(n).cells))
               sn == BignumShift(AsBignum(m), x, FALSE).cells
               sd == BignumShift(AsBignum(n), x, FALSE).cells
               twice == NeedsSecond(sd)
           IN  /\ shift' = x
               /\ second' = twice
               /\ Enter(IF twice THEN Scaled(sn) ELSE sn, IF twice THEN Scaled(sd) ELSE sd)
    PROVE  Dividing' /\ phase' = "divide"
<1> DEFINE x == ShiftBits(Last(AsBignum(n).cells))
           sn == BignumShift(AsBignum(m), x, FALSE).cells
           sd == BignumShift(AsBignum(n), x, FALSE).cells
           twice == NeedsSecond(sd)
           c == IF twice THEN Scaled(sn) ELSE sn
           e == IF twice THEN Scaled(sd) ELSE sd
           f == Factor(x, twice)
           N == Abs(m) * f
           D == Abs(n) * f
<1>1. /\ x \in 0 .. 2 * HalfBits - 1 /\ twice \in BOOLEAN
      /\ Abs(n) <= Abs(m) /\ Abs(m) \in Nat /\ Abs(n) \in Nat
      /\ Tight(c, N) /\ Tight(e, D) /\ Divisor(e)
      /\ D <= N
  BY Given
<1>2. shift' = x /\ second' = twice /\ Enter(c, e)
  OBVIOUS
<1> HIDE DEF x, sn, sd, twice, c, e, N, D
<1> DEFINE l == Len(c) - 1
           r == Len(e) - 1
           y == IF Last(c) >= Last(e) THEN 1 ELSE 0
<1>3. Looping(e, Cells(Magnitude(c), l + 1 + y), Cells(0, l - r + y), l + y, N)
  BY <1>1, Entered
<1>4. /\ phase' = "divide" /\ den' = e /\ k' = l + y
      /\ rem' = Cells(Magnitude(c), l + 1 + y) /\ quo' = Cells(0, l - r + y)
  BY <1>2 DEF Enter
<1> HIDE DEF l, r, y
<1>5. Looping(den', rem', quo', k', N) /\ Magnitude(den') = D
  BY <1>1, <1>3, <1>4 DEF Tight
<1>6. call'.op = op /\ call'.by = by /\ call'.a = m /\ call'.b = n
  OBVIOUS
<1>7. N = Abs(call'.a) * Factor(shift', second') /\ D = Abs(call'.b) * Factor(shift', second')
  BY <1>2, <1>6 DEF N, D
<1>8. Looping(den', rem', quo', k', Abs(call'.a) * Factor(shift', second'))
      /\ Magnitude(den') = Abs(call'.b) * Factor(shift', second')
  BY <1>5, <1>7
<1> QED BY <1>1, <1>2, <1>4, <1>6, <1>8 DEF Dividing

LEMMA DividingIs ==
    ASSUME Dividing
    PROVE  LET N == Abs(call.a) * Factor(shift, second)
           IN  /\ Abs(call.a) \in Nat /\ Abs(call.b) \in Nat /\ Abs(call.b) >= 1
               /\ Factor(shift, second) \in Nat /\ Factor(shift, second) >= 1
               /\ N \in Nat /\ Looping(den, rem, quo, k, N)
               /\ k \in Nat /\ Len(den) \in Nat
<1> DEFINE f == Factor(shift, second)
           A == Abs(call.a)
<1>1. A \in Nat /\ Abs(call.b) \in Nat /\ Abs(call.b) >= 1
  BY DEF Dividing, Abs
<1>2. f \in Nat /\ f >= 1
  BY FactorIs DEF Dividing
<1>3. Looping(den, rem, quo, k, A * f)
  BY DEF Dividing
<1> HIDE DEF f, A
<1>4. A * f \in Nat
  BY <1>1, <1>2
<1>5. k \in Nat /\ Len(den) \in Nat
  BY <1>3, DivisorIs DEF Looping
<1> QED BY <1>1, <1>2, <1>3, <1>4, <1>5 DEF f, A

(* One turn of the loop.                                                    *)
LEMMA StepLoops ==
    ASSUME Dividing, QuotientStep
    PROVE  /\ phase' = "divide" => Dividing'
           /\ Estimate >= Radix => \E i \in 1 .. Len(quo) : Met(Abs(call.a) * Factor(shift, second), den, i)
           /\ phase' = "divide" => Divides
<1> DEFINE N == Abs(call.a) * Factor(shift, second)
           r == Len(den) - 1
           s == SubtractMul(rem, k - r - 1, den, Estimate % Radix)
           e == [quo EXCEPT ![k - r] = s.q]
<1>1. N \in Nat /\ Looping(den, rem, quo, k, N) /\ k \in Nat /\ Len(den) \in Nat
  BY DividingIs
<1>2. phase = "divide" /\ k > r /\ call' = call
  BY DEF QuotientStep
<1>3. /\ Looping(den, s.a, e, k - 1, N)
      /\ Estimate \in Nat
      /\ Estimate >= Radix => \E i \in 1 .. Len(quo) : Met(N, den, i)
      /\ Estimate < Radix /\ Magnitude(rem) < Magnitude(den) * Power(Radix, k - r)
         => /\ Magnitude(s.a) < Magnitude(den) * Power(Radix, k - 1 - r)
            /\ Magnitude(rem) = Magnitude(s.a) + Magnitude(den) * (Magnitude(e) - Magnitude(quo))
  <2>1. Turned(den, rem, quo, k, N)
    <3> HIDE DEF N
    <3> QED BY <1>1, <1>2, LoopStep
  <2> HIDE DEF N
  <2> QED BY <2>1 DEF Turned, Estimate
<1>4. phase' = "divide" => /\ rem' = s.a /\ quo' = e /\ k' = k - 1
                           /\ den' = den /\ shift' = shift /\ second' = second
  BY DEF QuotientStep, Stop
<1> HIDE DEF s, e
<1>5. phase' = "divide" => Dividing'
  <2> HAVE phase' = "divide"
  <2>1. Looping(den', rem', quo', k', N)
    BY <1>3, <1>4
  <2>2. N = Abs(call'.a) * Factor(shift', second') /\ call' = call /\ den' = den
        /\ shift' = shift /\ second' = second
    BY <1>2, <1>4
  <2> HIDE DEF N
  <2> QED BY <2>1, <2>2 DEF Dividing
<1>6. phase' = "divide" => Divides
  <2> HIDE DEF N
  <2> QED BY <1>3, <1>4 DEF Divides
<1> QED BY <1>3, <1>5, <1>6 DEF N

LEMMA EnteredOnly ==
    ASSUME DivideBignums, phase' = "divide"
    PROVE  Dividing'
<1>1. PICK m \in Dividends, n \in Divisors, op \in {"div", "rem"}, by \in Implementations :
        LET num == AsBignum(m)
            d == AsBignum(n)
            x == ShiftBits(Last(d.cells))
            sn == BignumShift(num, x, FALSE).cells
            sd == BignumShift(d, x, FALSE).cells
            twice == NeedsSecond(sd)
        IN  /\ ~ (IsFixnum(m) /\ IsFixnum(n))
            /\ call' = [op |-> op, by |-> by, a |-> m, b |-> n]
            /\ IF n = 0 THEN Stop("error")
               ELSE IF IsDirect(num, d) THEN DivideDirectly(op, num, d)
               ELSE IF twice /\ by = "kernel" THEN Stop("fault")
               ELSE /\ shift' = x
                    /\ second' = twice
                    /\ IF twice THEN Enter(Scaled(sn), Scaled(sd)) ELSE Enter(sn, sd)
  BY DEF DivideBignums, Scaled
<1> DEFINE num == AsBignum(m)
           d == AsBignum(n)
           x == ShiftBits(Last(d.cells))
           sn == BignumShift(num, x, FALSE).cells
           sd == BignumShift(d, x, FALSE).cells
           twice == NeedsSecond(sd)
<1>2. m \in Int /\ n \in Int
  BY OperandsAssumption
<1>3. ~ (IsFixnum(m) /\ IsFixnum(n)) /\ call' = [op |-> op, by |-> by, a |-> m, b |-> n]
  BY <1>1
<1>4. n # 0
  BY <1>1 DEF Stop
<1>5. ~ IsDirect(num, d)
  <2>1. IsDirect(num, d) => DivideDirectly(op, num, d)
    BY <1>1, <1>4
  <2>2. DivideDirectly(op, num, d) => phase' = "done"
    BY DEF DivideDirectly, Return, Finish
  <2> QED BY <2>1, <2>2
<1>6. ~ (twice /\ by = "kernel")
  BY <1>1, <1>4, <1>5 DEF Stop
<1>7. /\ shift' = x /\ second' = twice
      /\ IF twice THEN Enter(Scaled(sn), Scaled(sd)) ELSE Enter(sn, sd)
  BY <1>1, <1>4, <1>5, <1>6
<1>8. Enter(IF twice THEN Scaled(sn) ELSE sn, IF twice THEN Scaled(sd) ELSE sd)
  BY <1>7
<1> QED BY <1>2, <1>3, <1>4, <1>5, <1>7, <1>8, EnterDivides

LEMMA LoopInvStep ==
    ASSUME LoopInv, [Next]_vars
    PROVE  LoopInv' /\ [Divides]_vars
<1>1. CASE Calculate
  BY <1>1 DEF Calculate, Finish, LoopInv, Divides
<1>2. CASE ShiftInteger
  BY <1>2 DEF ShiftInteger, Finish, LoopInv, Divides
<1>3. CASE DivideFixnums
  BY <1>3 DEF DivideFixnums, Finish, LoopInv, Divides
<1>4. CASE DivideBignums
  <2>1. phase = "idle"
    BY <1>4 DEF DivideBignums
  <2> QED BY <1>4, <2>1, EnteredOnly DEF LoopInv, Divides
<1>5. CASE QuotientStep
  <2>1. phase = "divide"
    BY <1>5 DEF QuotientStep
  <2>2. Dividing
    BY <2>1 DEF LoopInv
  <2>3. phase' # "divide" => Divides
    BY DEF Divides
  <2> QED BY <1>5, <2>2, <2>3, StepLoops DEF LoopInv
<1>6. CASE FinishDivision
  BY <1>6 DEF FinishDivision, Return, Finish, LoopInv, Divides
<1>7. CASE NextCall
  BY <1>7 DEF NextCall, LoopInv, Divides
<1>8. CASE UNCHANGED vars
  BY <1>8 DEF vars, LoopInv, Dividing
<1> QED BY <1>1, <1>2, <1>3, <1>4, <1>5, <1>6, <1>7, <1>8 DEF Next

Sign(neg, v) == IF neg THEN -v ELSE v

LEMMA Products4 ==
    ASSUME NEW b \in Nat, NEW q \in Nat
    PROVE  (-b) * q = -(b * q) /\ b * (-q) = -(b * q) /\ (-b) * (-q) = b * q
<1> DEFINE x == b * q
           c == -b
<1>1. x \in Nat
  OBVIOUS
<1>2. c \in Int /\ b + c = 0
  OBVIOUS
<1>3. c * q + b * q = (c + b) * q
  BY <1>2
<1>4. c * q = -x
  <2>1. c + b = 0
    BY <1>2
  <2>2. (c + b) * q = 0
    BY <2>1
  <2> DEFINE y == c * q
  <2>3. y \in Int
    BY <1>2
  <2>4. y + x = 0
    BY <1>3, <2>2
  <2> HIDE DEF x, y
  <2> QED BY <1>1, <2>3, <2>4 DEF y
<1> DEFINE p == -q
<1>5. p \in Int /\ q + p = 0
  OBVIOUS
<1>6. b * p = -x
  <2>1. b * p + b * q = b * (p + q)
    BY <1>5
  <2>2. b * (p + q) = 0
    <3>1. p + q = 0
      BY <1>5
    <3> QED BY <3>1
  <2> DEFINE y == b * p
  <2>3. y \in Int
    BY <1>5
  <2>4. y + x = 0
    BY <2>1, <2>2
  <2> HIDE DEF x, y
  <2> QED BY <1>1, <2>3, <2>4 DEF y
<1>7. c * p = x
  <2> HIDE DEF c, p
  <2>1. c * p + c * q = c * (p + q)
    BY <1>2, <1>5
  <2>2. c * (p + q) = 0
    <3>1. p + q = 0
      BY <1>5
    <3> QED BY <1>2, <3>1
  <2> DEFINE y == c * p
             z == c * q
  <2>3. y \in Int /\ z \in Int
    BY <1>2, <1>5
  <2>4. y + z = 0 /\ z = -x
    BY <1>4, <2>1, <2>2
  <2> HIDE DEF x, y, z
  <2>5. y = x
    BY <1>1, <2>3, <2>4
  <2> QED BY <2>5 DEF y
<1> QED BY <1>4, <1>6, <1>7

(* The quotient is truncated and the remainder has the sign of the dividend.*)
LEMMA SignedQuotient ==
    ASSUME NEW m \in Int, NEW n \in Int, n # 0
    PROVE  LET q == Abs(m) \div Abs(n)
               r == Abs(m) % Abs(n)
           IN  /\ Abs(m) \in Nat /\ Abs(n) \in Nat /\ Abs(n) >= 1
               /\ q \in Nat /\ r \in Nat /\ r < Abs(n) /\ Abs(m) = Abs(n) * q + r
               /\ Truncated(m, n) = Sign((m < 0) # (n < 0), q)
               /\ m - n * Truncated(m, n) = Sign(m < 0, r)
<1> DEFINE A == Abs(m)
           B == Abs(n)
           q == A \div B
           r == A % B
           t == Truncated(m, n)
           x == B * q
<1>1. A \in Nat /\ B \in Nat /\ B >= 1 /\ m = Sign(m < 0, A) /\ n = Sign(n < 0, B)
  BY DEF Abs, Sign
<1>2. t = IF (m < 0) = (n < 0) THEN q ELSE -q
  BY DEF Truncated
<1> HIDE DEF A, B
<1>3. q \in Nat /\ r \in Nat /\ r < B /\ A = B * q + r
  BY <1>1, DivMod
<1> HIDE DEF q, r, t
<1>4. t = Sign((m < 0) # (n < 0), q)
  BY <1>2 DEF Sign
<1>5. x \in Nat /\ (-B) * q = -x /\ B * (-q) = -x /\ (-B) * (-q) = x
  BY <1>1, <1>3, Products4
<1>6. n * t = Sign(m < 0, x)
  <2>1. CASE m < 0 /\ n < 0
    <3>1. n = -B /\ t = q
      BY <1>1, <1>2, <2>1 DEF Sign
    <3> HIDE DEF x
    <3> QED BY <1>5, <2>1, <3>1 DEF Sign
  <2>2. CASE m < 0 /\ ~ (n < 0)
    <3>1. n = B /\ t = -q
      BY <1>1, <1>2, <2>2 DEF Sign
    <3> HIDE DEF x
    <3> QED BY <1>5, <2>2, <3>1 DEF Sign
  <2>3. CASE ~ (m < 0) /\ n < 0
    <3>1. n = -B /\ t = -q
      BY <1>1, <1>2, <2>3 DEF Sign
    <3> HIDE DEF x
    <3> QED BY <1>5, <2>3, <3>1 DEF Sign
  <2>4. CASE ~ (m < 0) /\ ~ (n < 0)
    <3>1. n = B /\ t = q
      BY <1>1, <1>2, <2>4 DEF Sign
    <3> QED BY <2>4, <3>1 DEF Sign
  <2> QED BY <2>1, <2>2, <2>3, <2>4
<1>7. A = x + r
  BY <1>3
<1> HIDE DEF x
<1>8. m - n * t = Sign(m < 0, r)
  <2> DEFINE y == n * t
  <2>1. y = Sign(m < 0, x)
    BY <1>6
  <2> HIDE DEF y
  <2>2. m - y = Sign(m < 0, r)
    BY <1>1, <1>3, <1>5, <1>7, <2>1 DEF Sign
  <2> QED BY <2>2 DEF y
<1> QED BY <1>1, <1>3, <1>4, <1>8 DEF A, B, q, r, t

LEMMA SignedIs ==
    ASSUME NEW c \in Seq(Digit), NEW neg \in BOOLEAN
    PROVE  Normalize(neg, c) = Canonical(Sign(neg, Magnitude(c)))
BY NormalizeIs DEF Signed, Sign

-----------------------------------------------------------------------------
(* Division by one digit.                                                   *)
(* What is passed down: the remainder of the highest i cells.               *)
ShortLeft(num, d) ==
    LET left[i \in Nat] == IF i = 0 THEN 0
                           ELSE (left[i - 1] * Radix + At(num, Len(num) + 1 - i)) % d
    IN  left

LEMMA ShortLeftIs ==
    ASSUME NEW c \in Seq(Digit), NEW d \in Nat, d >= 1
    PROVE  /\ ShortLeft(c, d)[0] = 0
           /\ \A i \in Nat : /\ ShortLeft(c, d)[i] \in Nat /\ ShortLeft(c, d)[i] < d
                             /\ ShortLeft(c, d)[i + 1] =
                                   (ShortLeft(c, d)[i] * Radix + At(c, Len(c) - i)) % d
<1> DEFINE n == Len(c)
           Next1(i, x) == (x * Radix + At(c, n + 1 - i)) % d
           S == 0 .. d - 1
           G == [i \in Nat |-> [x \in S |-> Next1(i, x)]]
           Is(q) == q = [i \in Nat |-> IF i = 0 THEN 0
                                       ELSE (q[i - 1] * Radix + At(c, n + 1 - i)) % d]
           p == CHOOSE q : Is(q)
<1>0. ASSUME NEW i \in Nat, NEW x \in S
      PROVE  Next1(i, x) \in S
  <2> DEFINE a == At(c, n + 1 - i)
             m == x * Radix + a
  <2>1. n + 1 - i \in Int
    BY AtIs
  <2>2. a \in Nat
    BY <2>1, AtIs
  <2>3. x \in Nat /\ Radix \in Nat
    BY Words
  <2> HIDE DEF a
  <2>4. x * Radix \in Nat
    BY <2>3
  <2>5. m \in Nat
    BY <2>2, <2>4
  <2> HIDE DEF m
  <2>6. m % d \in Nat /\ m % d < d
    BY <2>5, DivMod
  <2>7. m % d \in S
    BY <2>6
  <2> QED BY <2>7 DEF m, a
<1>1. G \in [Nat -> [S -> S]] /\ 0 \in S
  <2> HIDE DEF Next1
  <2> QED BY <1>0
<1>2. \A i \in Nat : \A x \in S : G[i][x] = Next1(i, x)
  <2> HIDE DEF Next1
  <2> QED OBVIOUS
<1> HIDE DEF G
<1>3. \E q : Is(q)
  <2>1. PICK q \in [Nat -> S] : Recurs(q, 0, G)
    BY <1>1, RecursionExists
  <2>2. \A i \in Nat : i # 0 => i - 1 \in Nat /\ q[i - 1] \in S
    <3> HIDE DEF S
    <3> QED OBVIOUS
  <2>3. \A i \in Nat : q[i] = IF i = 0 THEN 0 ELSE Next1(i, q[i - 1])
    <3> HIDE DEF Next1, S
    <3> QED BY <1>2, <2>1, <2>2 DEF Recurs
  <2>4. Is(q)
    BY <2>3
  <2> QED BY <2>4
<1>4. Is(p)
  BY <1>3
<1>5. ShortLeft(c, d) = p
  BY DEF ShortLeft
<1> HIDE DEF p
<1>6. \A i \in Nat : p[i] = IF i = 0 THEN 0 ELSE Next1(i, p[i - 1])
  BY <1>4
<1>7. \A i \in Nat : p[i] \in S
  <2>1. Stays(p, S)
    <3>1. p[0] \in S
      <4> HIDE DEF Next1, S
      <4> QED BY <1>1, <1>6
    <3>2. ASSUME NEW i \in Nat, p[i] \in S
          PROVE  p[i + 1] \in S
      <4>1. i + 1 \in Nat /\ i + 1 # 0 /\ (i + 1) - 1 = i
        OBVIOUS
      <4>2. p[i + 1] = Next1(i + 1, p[i])
        <5> HIDE DEF Next1, S
        <5> QED BY <1>6, <4>1
      <4> HIDE DEF Next1, S
      <4> QED BY <1>0, <3>2, <4>1, <4>2
    <3> HIDE DEF S
    <3> QED BY <3>1, <3>2 DEF Stays
  <2> HIDE DEF S
  <2> QED BY <2>1, StaysIn
<1>8. ASSUME NEW i \in Nat
      PROVE  p[i] \in Nat /\ p[i] < d /\ p[i + 1] = (p[i] * Radix + At(c, n - i)) % d
  <2>1. i + 1 \in Nat /\ i + 1 # 0 /\ (i + 1) - 1 = i
    OBVIOUS
  <2>2. n + 1 - (i + 1) = n - i
    <3>1. n \in Nat
      BY AtIs
    <3> HIDE DEF n
    <3> QED BY <3>1
  <2>3. p[i + 1] = Next1(i + 1, p[i])
    <3> HIDE DEF Next1
    <3> QED BY <2>1, <1>6
  <2>4. p[i] \in S
    BY <1>7
  <2> QED BY <2>2, <2>3, <2>4
<1>9. p[0] = 0
  <2> HIDE DEF Next1
  <2> QED BY <1>6
<1> QED BY <1>5, <1>8, <1>9

(* Down to a cell: the cells below it, what is passed down and the quotient *)
(* so far make up the number.                                               *)
Down(v, l, w, d, x, A, y) == v + l * w + d * x = A + d * y

Passed(l, r, a, d, q, e) == l * r + a = d * q + e

LEMMA DownStep ==
    ASSUME NEW v \in Nat, NEW a \in Nat, NEW w \in Nat, NEW l \in Nat, NEW e \in Nat, NEW q \in Nat,
           NEW d \in Nat, NEW x \in Nat, NEW A \in Nat, NEW y \in Nat, NEW r \in Nat,
           Passed(l, r, a, d, q, e), Down(v + a * w, l, r * w, d, x, A, y + q * w)
    PROVE  Down(v, e, w, d, x, A, y)
<1> DEFINE aw == a * w
           lw == l * (r * w)
           dx == d * x
           dy == d * y
           dqw == d * (q * w)
           ew == e * w
<1>1. aw \in Nat /\ lw \in Nat /\ dx \in Nat /\ dy \in Nat /\ dqw \in Nat /\ ew \in Nat
  <2>1. r * w \in Nat /\ q * w \in Nat
    OBVIOUS
  <2> QED BY <2>1
<1>2. lw + aw = dqw + ew
  <2>1. (l * r + a) * w = (d * q + e) * w
    BY DEF Passed
  <2>2. (l * r + a) * w = lw + aw
    <3> DEFINE g == l * r
    <3>1. g \in Nat
      OBVIOUS
    <3>2. g * w = lw
      OBVIOUS
    <3> HIDE DEF g
    <3>3. (g + a) * w = g * w + a * w
      BY <3>1
    <3> QED BY <3>2, <3>3 DEF g
  <2>3. (d * q + e) * w = dqw + ew
    <3> DEFINE g == d * q
    <3>1. g \in Nat
      OBVIOUS
    <3>2. g * w = dqw
      OBVIOUS
    <3> HIDE DEF g
    <3>3. (g + e) * w = g * w + e * w
      BY <3>1
    <3> QED BY <3>2, <3>3 DEF g
  <2> QED BY <2>1, <2>2, <2>3
<1>3. (v + aw) + lw + dx = A + (dy + dqw)
  <2>1. d * (y + q * w) = dy + dqw
    <3> DEFINE g == q * w
    <3>1. g \in Nat
      OBVIOUS
    <3> HIDE DEF g
    <3>2. d * (y + g) = d * y + d * g
      BY <3>1
    <3> QED BY <3>2 DEF g
  <2> QED BY <2>1 DEF Down
<1> HIDE DEF aw, lw, dx, dy, dqw, ew
<1>4. v + ew + dx = A + dy
  BY <1>1, <1>2, <1>3
<1> QED BY <1>4 DEF Down, ew, dx, dy

LEMMA ShortDigit ==
    ASSUME NEW l \in Nat, NEW d \in Nat, l < d, NEW a \in Nat, a < Radix
    PROVE  LET m == l * Radix + a
               q == m \div d
               e == m % d
           IN  q \in Digit /\ q \in Nat /\ e \in Nat /\ Passed(l, Radix, a, d, q, e)
<1> DEFINE m == l * Radix + a
           q == m \div d
           e == m % d
<1>0. Radix \in Nat /\ Radix >= 4 /\ d > 0
  BY Words
<1>1. l * Radix \in Nat
  BY <1>0
<1>2. m \in Nat
  BY <1>1
<1>3. m < d * Radix
  <2>1. (l + 1) * Radix <= d * Radix
    <3>1. l + 1 \in Nat /\ l + 1 <= d
      OBVIOUS
    <3> DEFINE z == l + 1
    <3> HIDE DEF z
    <3>2. z \in Nat /\ z <= d
      BY <3>1 DEF z
    <3>3. z * Radix <= d * Radix
      BY <1>0, <3>2
    <3> QED BY <3>3 DEF z
  <2>2. (l + 1) * Radix = l * Radix + Radix
    BY <1>0
  <2> DEFINE x == l * Radix
             y == d * Radix
  <2>3. y \in Nat
    BY <1>0
  <2>4. x \in Nat /\ x + Radix <= y
    BY <1>1, <2>1, <2>2
  <2> HIDE DEF x, y
  <2>5. x + a < y
    BY <1>0, <2>3, <2>4
  <2> QED BY <2>5 DEF x, y
<1>4. q < Radix
  <2> HIDE DEF m
  <2> QED BY <1>0, <1>2, <1>3, DivBound
<1>5. q \in Nat /\ e \in Nat /\ m = d * q + e
  <2> HIDE DEF m
  <2> QED BY <1>0, <1>2, DivMod
<1> HIDE DEF q, e
<1>6. q \in Digit
  BY <1>0, <1>4, <1>5 DEF Digit
<1> QED BY <1>5, <1>6 DEF Passed, q, e

LEMMA ShortDivision ==
    ASSUME NEW c \in Seq(Digit), NEW d \in Nat, d >= 1
    PROVE  LET s == DivideByHalfWord(c, d)
               A == Magnitude(c)
           IN  /\ s.quotient \in Seq(Digit) /\ Magnitude(s.quotient) = A \div d
               /\ s.remainder = <<A % d>>
<1> DEFINE n == Len(c)
           L == ShortLeft(c, d)
           Q == [i \in 1 .. n |-> (L[n - i] * Radix + c[i]) \div d]
           A == Magnitude(c)
           x == Magnitude(Q)
           Holds(i) == Down(Value(c, n - i), L[i], Power(Radix, n - i), d, x, A, Value(Q, n - i))
           T == {i \in Nat : i <= n => Holds(i)}
<1>1. DivideByHalfWord(c, d) = [quotient |-> Q, remainder |-> <<L[n]>>]
  BY DEF DivideByHalfWord, ShortLeft
<1>2. n \in Nat /\ A \in Nat
  BY MagnitudeIs
<1>3. /\ L[0] = 0
      /\ \A i \in Nat : L[i] \in Nat /\ L[i] < d /\ L[i + 1] = (L[i] * Radix + At(c, n - i)) % d
  BY ShortLeftIs
<1> HIDE DEF L, n
<1>4. \A i \in 1 .. n : c[i] = At(c, i) /\ c[i] \in Nat /\ c[i] < Radix /\ i \in Int /\ n - i \in Nat
  <2> TAKE i \in 1 .. n
  <2>1. n = Len(c) /\ i \in Int /\ n - i \in Nat
    BY <1>2 DEF n
  <2> QED BY <2>1, AtIs
<1>5. \A i \in 1 .. n : (L[n - i] * Radix + c[i]) \div d \in Digit
  <2> TAKE i \in 1 .. n
  <2>1. L[n - i] \in Nat /\ L[n - i] < d /\ c[i] \in Nat /\ c[i] < Radix
    BY <1>3, <1>4
  <2> DEFINE l == L[n - i]
             a == c[i]
  <2> HIDE DEF l, a
  <2>2. (l * Radix + a) \div d \in Digit
    BY <2>1, ShortDigit DEF l, a
  <2> QED BY <2>2 DEF l, a
<1>6. Q \in Seq(Digit) /\ Len(Q) = n
  BY <1>2, <1>5
<1>7. \A i \in 1 .. n : Q[i] = (L[n - i] * Radix + c[i]) \div d
  OBVIOUS
<1> HIDE DEF Q
<1>8. x \in Nat /\ x = Value(Q, n)
  BY <1>6, MagnitudeIs DEF Magnitude
<1>9. 0 \in T
  <2>1. n - 0 = n
    BY <1>2
  <2>2. Value(c, n) = A
    BY DEF Magnitude, n
  <2>3. Power(Radix, n) \in Nat
    BY <1>2, Weights
  <2> HIDE DEF x, A
  <2>4. Down(A, 0, Power(Radix, n), d, x, A, x)
    <3> DEFINE w == Power(Radix, n)
               y == d * x
    <3>1. 0 * w = 0 /\ y \in Nat
      BY <1>8, <2>3
    <3> HIDE DEF w, y
    <3>2. A + 0 * w + y = A + y
      BY <1>2, <3>1
    <3> QED BY <3>2 DEF Down, w, y
  <2>5. Holds(0)
    BY <1>3, <1>8, <2>1, <2>2, <2>4
  <2> QED BY <2>5
<1>10. ASSUME NEW i \in Nat, i \in T
       PROVE  i + 1 \in T
  <2> SUFFICES ASSUME i + 1 <= n
               PROVE  Holds(i + 1)
    OBVIOUS
  <2> DEFINE j == n - (i + 1)
             w == Power(Radix, j)
             l == L[i]
             a == c[j + 1]
             q == Q[j + 1]
             e == L[i + 1]
             v == Value(c, j)
             y == Value(Q, j)
  <2>1. j \in Nat /\ j + 1 = n - i /\ j + 1 \in 1 .. n /\ n - (j + 1) = i /\ i <= n
    BY <1>2
  <2>2. Holds(i)
    BY <1>10, <2>1
  <2>3. l \in Nat /\ l < d /\ a \in Nat /\ a < Radix /\ a = At(c, j + 1)
    BY <1>3, <1>4, <2>1
  <2>4. q = (l * Radix + a) \div d /\ e = (l * Radix + a) % d
    BY <1>3, <1>7, <2>1, <2>3
  <2>5. q \in Nat /\ e \in Nat /\ Passed(l, Radix, a, d, q, e)
    <3> HIDE DEF l, a, q, e
    <3> QED BY <2>3, <2>4, ShortDigit
  <2>6. q = At(Q, j + 1)
    BY <1>6, <2>1, AtIs
  <2> HIDE DEF j
  <2>7. Value(c, j + 1) = v + a * w /\ Value(Q, j + 1) = y + q * w /\ v \in Nat /\ y \in Nat
    <3> HIDE DEF a, q
    <3>1. Value(c, j + 1) = v + At(c, j + 1) * w /\ v \in Nat
      BY <2>1, ValueIs
    <3>2. Value(Q, j + 1) = y + At(Q, j + 1) * w /\ y \in Nat
      BY <1>6, <2>1, ValueIs
    <3>3. a = At(c, j + 1) /\ q = At(Q, j + 1)
      BY <2>3, <2>6
    <3> HIDE DEF v, y, w
    <3> QED BY <3>1, <3>2, <3>3
  <2>8. w \in Nat /\ Power(Radix, j + 1) = Radix * w
    BY <2>1, Weights
  <2>9. Down(v + a * w, l, Radix * w, d, x, A, y + q * w)
    <3>1. Down(Value(c, j + 1), l, Power(Radix, j + 1), d, x, A, Value(Q, j + 1))
      BY <2>1, <2>2
    <3> HIDE DEF l, a, q, e, v, y, w, x, A
    <3> QED BY <2>7, <2>8, <3>1
  <2>10. Down(v, e, w, d, x, A, y)
    <3> HIDE DEF l, a, q, e, v, y, w, x, A
    <3>1. Radix \in Nat
      BY Words
    <3> QED BY <1>2, <1>8, <2>3, <2>5, <2>7, <2>8, <2>9, <3>1, DownStep
  <2> QED BY <2>10 DEF j
<1>11. \A i \in Nat : i \in T
  <2> HIDE DEF T
  <2> QED BY <1>9, <1>10, Induction
<1>12. Holds(n)
  BY <1>2, <1>11
<1>13. A = d * x + L[n]
  <2>1. n - n = 0
    BY <1>2
  <2>2. Value(c, 0) = 0 /\ Value(Q, 0) = 0 /\ Power(Radix, 0) = 1
    BY <1>6, ValueIs, Weights
  <2>3. Down(0, L[n], 1, d, x, A, 0)
    <3> HIDE DEF x, A
    <3> QED BY <1>12, <2>1, <2>2
  <2>4. L[n] \in Nat
    BY <1>2, <1>3
  <2> DEFINE y == d * x
             l == L[n]
  <2>5. y \in Nat /\ 0 + l * 1 + y = A + d * 0
    <3> HIDE DEF x, A
    <3> QED BY <1>8, <2>3 DEF Down
  <2>6. d * 0 = 0 /\ l * 1 = l
    BY <2>4
  <2> HIDE DEF y, l, A
  <2>7. A = y + l
    BY <1>2, <2>4, <2>5, <2>6 DEF l
  <2> QED BY <2>7 DEF y, l
<1>14. A \div d = x /\ A % d = L[n]
  <2>1. L[n] \in Nat /\ L[n] < d
    BY <1>2, <1>3
  <2> DEFINE l == L[n]
  <2> HIDE DEF x, A, l, T, Holds
  <2>2. l \in Nat /\ l < d /\ A = d * x + l /\ A \in Int /\ x \in Int /\ d > 0
    BY <1>2, <1>8, <1>13, <2>1 DEF l
  <2>3. A \div d = x /\ A % d = l
    BY <2>2, DivUnique
  <2> QED BY <2>3 DEF l
<1> QED BY <1>1, <1>6, <1>14

LEMMA QuotientBound ==
    ASSUME NEW A \in Nat, NEW B \in Nat, B >= 1, NEW q \in Nat, NEW r \in Nat, A = B * q + r
    PROVE  q <= A /\ (B >= 2 => q = 0 \/ q < A) /\ (B = 1 => A = q + r)
<1> DEFINE x == B * q
<1>1. x \in Nat /\ A = x + r
  OBVIOUS
<1>2. x >= q
  OBVIOUS
<1>3. B >= 2 => x >= 2 * q
  OBVIOUS
<1>4. B = 1 => x = q
  OBVIOUS
<1> HIDE DEF x
<1> QED BY <1>1, <1>2, <1>3, <1>4

LEMMA WrappedIs ==
    ASSUME NEW v \in Int
    PROVE  /\ IsFixnum(v) => Wrapped(v) = v
           /\ v = FixLimit => Wrapped(v) = -FixLimit
<1> DEFINE F == FixLimit
           g == 2 * F
           n == v + F
<1>1. F \in Nat /\ F >= 2 /\ g \in Nat /\ g > 0 /\ n \in Int
  BY Words
<1>2. IsFixnum(v) => n \in Nat /\ n < g
  BY <1>1 DEF IsFixnum
<1>3. v = F => n = g
  BY <1>1
<1>4. Wrapped(v) = (n % g) - F
  BY DEF Wrapped
<1>5. n \in Nat /\ n < g => n % g = n
  <2> HIDE DEF n, g
  <2> HAVE n \in Nat /\ n < g
  <2>1. n = g * 0 + n
    BY <1>1
  <2> QED BY <1>1, <2>1, DivUnique
<1>6. n = g => n % g = 0
  <2> HIDE DEF n, g
  <2> HAVE n = g
  <2>1. n = g * 1 + 0
    BY <1>1
  <2> QED BY <1>1, <2>1, DivUnique
<1>7. n - F = v /\ 0 - F = -F
  BY <1>1
<1> HIDE DEF F, g, n
<1>8. IsFixnum(v) => Wrapped(v) = v
  BY <1>2, <1>4, <1>5, <1>7
<1>9. v = F => Wrapped(v) = -F
  BY <1>3, <1>4, <1>6, <1>7
<1> QED BY <1>8, <1>9 DEF F

(* The quotient of two fixnums.                                             *)
LEMMA FixnumDivision ==
    ASSUME NEW m \in Int, NEW n \in Int, n # 0, IsFixnum(m), IsFixnum(n)
    PROVE  /\ Truncated(m, n) \in Int
           /\ Fixnum(Wrapped(Truncated(m, n))) = Canonical(Truncated(m, n))
              <=> ~ (m = -FixLimit /\ n = -1)
<1> DEFINE A == Abs(m)
           B == Abs(n)
           q == A \div B
           r == A % B
           t == Truncated(m, n)
           F == FixLimit
           s == (m < 0) # (n < 0)
<1>1. /\ A \in Nat /\ B \in Nat /\ B >= 1 /\ q \in Nat /\ r \in Nat /\ r < B /\ A = B * q + r
      /\ t = Sign(s, q)
  BY SignedQuotient
<1>2. F \in Nat /\ F >= 2
  BY Words DEF FixLimit
<1>3. /\ A <= F /\ (A = F <=> m = -F) /\ (B = 1 <=> n = 1 \/ n = -1)
      /\ -F <= m /\ m < F
  BY <1>2 DEF IsFixnum, Abs
<1> HIDE DEF A, B
<1>4. q <= A /\ (B >= 2 => q = 0 \/ q < A) /\ (B = 1 => A = q + r)
  <2> HIDE DEF q, r
  <2> QED BY <1>1, QuotientBound
<1> HIDE DEF q, r, t, F
<1>5. t \in Int
  BY <1>1 DEF Sign
<1>6. CASE m = -F /\ n = -1
  <2>1. A = F /\ B = 1 /\ r = 0 /\ q = F
    BY <1>1, <1>3, <1>4, <1>6
  <2>2. t = F
    <3>1. ~ s
      BY <1>2, <1>6
    <3> QED BY <1>1, <2>1, <3>1 DEF Sign
  <2>3. Wrapped(t) = -F
    BY <1>5, <2>2, WrappedIs DEF F
  <2>4. ~ IsFixnum(t)
    BY <1>2, <2>2 DEF IsFixnum, F
  <2>5. Canonical(t).tag = "bignum"
    BY <1>5, <2>4, CanonicalIs
  <2>6. Fixnum(Wrapped(t)).tag = "fixnum"
    BY DEF Fixnum
  <2>7. Fixnum(Wrapped(t)) # Canonical(t)
    BY <2>5, <2>6
  <2> QED BY <1>5, <1>6, <2>7 DEF t, F
<1>7. CASE ~ (m = -F /\ n = -1)
  <2>1. -F <= t /\ t < F
    <3>1. CASE s
      BY <1>1, <1>2, <1>3, <1>4, <3>1 DEF Sign
    <3>2. CASE ~ s /\ q < F
      BY <1>1, <1>2, <3>2 DEF Sign
    <3>3. CASE ~ s /\ q = F
      <4>1. A = F /\ m = -F
        BY <1>1, <1>2, <1>3, <1>4, <3>3
      <4>2. B = 1
        BY <1>1, <1>2, <1>4, <3>3, <4>1
      <4>3. n = 1
        BY <1>3, <1>7, <4>1, <4>2
      <4>4. s
        BY <1>2, <4>1, <4>3
      <4> QED BY <3>3, <4>4
    <3> QED BY <1>1, <1>2, <1>3, <1>4, <3>1, <3>2, <3>3
  <2>2. IsFixnum(t)
    BY <2>1 DEF IsFixnum, F
  <2>3. Fixnum(Wrapped(t)) = Canonical(t)
    BY <1>5, <2>2, WrappedIs, CanonicalIs
  <2> QED BY <1>5, <1>7, <2>3 DEF t, F
<1> QED BY <1>6, <1>7

-----------------------------------------------------------------------------
(* The cases that need no loop. *)
Quotient(op, m, n) == IF op = "div" THEN Truncated(m, n) ELSE m - n * Truncated(m, n)

LEMMA QuotientIs ==
    ASSUME NEW m \in Int, NEW n \in Int, n # 0, NEW op \in {"div", "rem"}
    PROVE  /\ Quotient(op, m, n) \in Int
           /\ Quotient(op, m, n) = IF op = "div" THEN Sign((m < 0) # (n < 0), Abs(m) \div Abs(n))
                                   ELSE Sign(m < 0, Abs(m) % Abs(n))
<1> DEFINE q == Abs(m) \div Abs(n)
           r == Abs(m) % Abs(n)
<1>1. /\ q \in Nat /\ r \in Nat
      /\ Truncated(m, n) = Sign((m < 0) # (n < 0), q)
      /\ m - n * Truncated(m, n) = Sign(m < 0, r)
  BY SignedQuotient
<1> HIDE DEF q, r
<1>2. Sign((m < 0) # (n < 0), q) \in Int /\ Sign(m < 0, r) \in Int
  BY <1>1 DEF Sign
<1> QED BY <1>1, <1>2 DEF Quotient, q, r

LEMMA AsBignumCells ==
    ASSUME NEW m \in Int
    PROVE  LET a == AsBignum(m)
           IN  a.cells \in Seq(Digit) /\ Magnitude(a.cells) = Abs(m) /\ a.neg = (m < 0) /\ a.neg \in BOOLEAN
<1> DEFINE a == AsBignum(m)
<1>1. IsBignum(a) /\ Number(a) = m
  BY AsBignumIs
<1>2. a.neg = (m < 0)
  BY DEF AsBignum, FixnumToBignum, Bignum
<1> HIDE DEF a
<1>3. a.cells \in Seq(Digit) /\ a.neg \in BOOLEAN
  BY <1>1 DEF IsBignum
<1>4. Magnitude(a.cells) \in Nat
  BY <1>3, MagnitudeIs
<1>5. Magnitude(a.cells) = Abs(m)
  BY <1>1, <1>2, <1>4 DEF Number, Signed, Abs
<1> QED BY <1>2, <1>3, <1>5 DEF a

LEMMA OneTight ==
    ASSUME NEW c, NEW v, Tight(c, v), Len(c) = 1
    PROVE  Last(c) = v
<1> DEFINE w == Power(Radix, Len(c) - 1)
           t == Last(c)
           dl == Value(c, Len(c) - 1)
<1>1. t \in Nat /\ dl \in Nat /\ dl < w /\ v = t * w + dl
  BY TightIs
<1>2. Len(c) - 1 = 0
  OBVIOUS
<1>3. w = 1
  BY <1>2, Weights
<1> HIDE DEF w, t, dl
<1>4. dl = 0 /\ t * 1 = t
  BY <1>1, <1>3
<1>5. v = t
  BY <1>1, <1>3, <1>4
<1> QED BY <1>5 DEF t

LEMMA SignZero ==
    ASSUME NEW neg, NEW v \in Nat
    PROVE  v = 0 => Sign(neg, v) = 0
<1>1. -v = 0 - v /\ (v = 0 => 0 - v = 0)
  OBVIOUS
<1> DEFINE w == -v
<1>2. v = 0 => w = 0
  BY <1>1
<1>3. Sign(neg, v) = IF neg THEN w ELSE v
  BY DEF Sign
<1> HIDE DEF w
<1> QED BY <1>2, <1>3

LEMMA DirectDivision ==
    ASSUME NEW m \in Int, NEW n \in Int, n # 0, NEW op \in {"div", "rem"},
           IsDirect(AsBignum(m), AsBignum(n)), DivideDirectly(op, AsBignum(m), AsBignum(n))
    PROVE  /\ phase' = "done" /\ UNCHANGED work
           /\ answer' = Canonical(Quotient(op, m, n))
<1> DEFINE a == AsBignum(m)
           d == AsBignum(n)
           e == Reduce(a.cells)
           c == Reduce(d.cells)
           short == DivideByHalfWord(e, Last(c))
           A == Abs(m)
           B == Abs(n)
           s == (m < 0) # (n < 0)
<1>1. /\ a.cells \in Seq(Digit) /\ Magnitude(a.cells) = A /\ a.neg = (m < 0) /\ a.neg \in BOOLEAN
      /\ d.cells \in Seq(Digit) /\ Magnitude(d.cells) = B /\ d.neg = (n < 0) /\ d.neg \in BOOLEAN
  BY AsBignumCells
<1>2. A \in Nat /\ B \in Nat /\ B >= 1
  BY DEF Abs
<1>3. e \in Seq(Digit) /\ Magnitude(e) = A /\ c \in Seq(Digit) /\ Magnitude(c) = B
  BY <1>1, ReduceIs
<1>4. Quotient(op, m, n) = IF op = "div" THEN Sign(s, A \div B) ELSE Sign(m < 0, A % B)
  BY QuotientIs
<1>5. IF A < B THEN Return(op, Fixnum(0), Normalize(a.neg, e))
      ELSE Return(op, Normalize(a.neg # d.neg, short.quotient), Normalize(a.neg, short.remainder))
  BY <1>3 DEF DivideDirectly
<1>6. A < B \/ Len(e) = 1 \/ Len(c) = 1
  BY <1>1 DEF IsDirect
<1>70. (a.neg # d.neg) = s /\ s \in BOOLEAN
  BY <1>1
<1> HIDE DEF a, d, e, c, A, B, s
<1>7. CASE A < B
  <2>1. A = B * 0 + A
    BY <1>2
  <2>2. A \div B = 0 /\ A % B = A
    BY <1>2, <1>7, <2>1, DivUnique
  <2>3. Sign(s, A \div B) = 0
    <3>1. A \div B \in Nat
      BY <2>2
    <3> DEFINE x == A \div B
    <3>2. x = 0 /\ x \in Nat
      BY <2>2
    <3> HIDE DEF x
    <3>3. Sign(s, x) = 0
      BY <3>2, SignZero
    <3> QED BY <3>3 DEF x
  <2>4. Canonical(0) = Fixnum(0)
    BY Words, CanonicalIs DEF IsFixnum
  <2>5. Normalize(a.neg, e) = Canonical(Sign(m < 0, A))
    BY <1>1, <1>3, SignedIs
  <2>6. Return(op, Fixnum(0), Normalize(a.neg, e))
    BY <1>5, <1>7
  <2>7. /\ phase' = "done" /\ UNCHANGED work
        /\ answer' = IF op = "div" THEN Fixnum(0) ELSE Canonical(Sign(m < 0, A))
    BY <2>5, <2>6 DEF Return, Finish
  <2> QED BY <1>4, <2>2, <2>3, <2>4, <2>7
<1>8. CASE ~ (A < B)
  <2>1. B <= A /\ A >= 1
    BY <1>2, <1>8
  <2>2. Tight(e, A) /\ Tight(c, B)
    <3>1. Tight(Reduce(a.cells), Magnitude(a.cells)) /\ Tight(Reduce(d.cells), Magnitude(d.cells))
      BY <1>1, <1>2, <2>1, ReducedTight
    <3> QED BY <1>1, <3>1 DEF e, c
  <2>3. Len(c) = 1
    <3>1. Len(c) <= Len(e) /\ Len(c) >= 1 /\ Len(c) \in Nat
      BY <1>3, <2>1, <2>2, NotShorter DEF Tight
    <3> QED BY <1>6, <1>8, <3>1
  <2>4. Last(c) = B
    BY <2>2, <2>3, OneTight
  <2>5. /\ short.quotient \in Seq(Digit) /\ Magnitude(short.quotient) = A \div B
        /\ short.remainder = <<A % B>>
    BY <1>2, <1>3, <2>4, ShortDivision
  <2>6. A % B \in Digit
    <3>1. A % B \in Nat /\ A % B < B
      BY <1>2, DivMod
    <3>2. B < Radix
      BY <2>2, <2>4, TightIs
    <3> DEFINE x == A % B
    <3> HIDE DEF x
    <3>3. x \in Digit
      BY <1>2, <3>1, <3>2, Words DEF Digit, x
    <3> QED BY <3>3 DEF x
  <2>7. short.remainder \in Seq(Digit) /\ Magnitude(short.remainder) = A % B
    BY <2>5, <2>6, OneDigit
  <2> HIDE DEF short
  <2>8. Normalize(a.neg # d.neg, short.quotient) = Canonical(Sign(s, A \div B))
    BY <1>70, <2>5, SignedIs
  <2>9. Normalize(a.neg, short.remainder) = Canonical(Sign(m < 0, A % B))
    BY <1>1, <2>7, SignedIs
  <2>10. /\ phase' = "done" /\ UNCHANGED work
         /\ answer' = IF op = "div" THEN Canonical(Sign(s, A \div B)) ELSE Canonical(Sign(m < 0, A % B))
    BY <1>5, <1>8, <2>8, <2>9 DEF Return, Finish
  <2> QED BY <1>4, <2>10
<1> QED BY <1>7, <1>8

(* What is left of A after q times B, without the factor f.                 *)
Unscaled(A, B, q, f, z) ==
    LET p == A - B * q IN p \in Nat /\ z = p * f /\ A = B * q + p

LEMMA Unscale ==
    ASSUME NEW A \in Nat, NEW B \in Nat, NEW q \in Nat, NEW f \in Nat, f >= 1, NEW z \in Nat,
           MadeOf(z, B * f, q, A * f)
    PROVE  Unscaled(A, B, q, f, z)
<1> DEFINE x == B * q
           p == A - x
<1>1. x \in Nat /\ p \in Int
  OBVIOUS
<1>2. (B * f) * q = x * f
  <2>1. (B * f) * q = (B * q) * f
    OBVIOUS
  <2> QED BY <2>1
<1>3. z + x * f = A * f
  BY <1>2 DEF MadeOf
<1>4. A = x + p
  BY <1>1
<1> HIDE DEF x, p
<1>5. A * f = x * f + p * f
  BY <1>1, <1>4
<1> DEFINE pf == p * f
           xf == x * f
           Af == A * f
<1>6. pf \in Int /\ xf \in Nat /\ Af \in Nat
  BY <1>1
<1>7. z = pf
  <2>1. z + xf = Af /\ Af = xf + pf
    BY <1>3, <1>5
  <2> HIDE DEF pf, xf, Af
  <2> QED BY <1>6, <2>1
<1>8. p >= 0
  <2>1. ASSUME p <= -1
        PROVE  FALSE
    <3>1. p * f <= (-1) * f
      BY <1>1, <2>1
    <3>2. (-1) * f = -f
      OBVIOUS
    <3>3. pf <= -f
      BY <3>1, <3>2
    <3> HIDE DEF pf
    <3> QED BY <1>6, <1>7, <3>3
  <2> QED BY <1>1, <2>1
<1>9. p \in Nat
  BY <1>1, <1>8
<1> QED BY <1>4, <1>7, <1>9 DEF x, p, Unscaled

LEMMA DigitWeight ==
    ASSUME NEW c \in Seq(Digit), NEW i \in Nat, NEW l \in Nat, i >= l + 1, At(c, i) >= 1
    PROVE  Power(Radix, l) <= Magnitude(c)
<1> DEFINE t == Top(c)
<1>1. i \in 1 .. Len(c) /\ c[i] # 0 /\ Len(c) \in Nat
  <2>1. i \in Int /\ At(c, i) # 0
    OBVIOUS
  <2>2. ~ (i > Len(c) \/ i < 1)
    BY <2>1, AtIs
  <2>3. i \in 1 .. Len(c) /\ Len(c) \in Nat
    BY <2>2, AtIs
  <2> QED BY <2>1, <2>3, AtIs
<1>2. t \in Nat /\ i <= t
  <2>1. t \in 0 .. Len(c) /\ \A j \in Int : j > t => At(c, j) = 0
    BY TopIs
  <2>2. i \in Int /\ At(c, i) # 0
    OBVIOUS
  <2>3. ~ (i > t)
    BY <2>1, <2>2
  <2> HIDE DEF t
  <2> QED BY <1>1, <2>1, <2>3
<1>3. t > 0
  <2> HIDE DEF t
  <2> QED BY <1>2
<1>4. t - 1 \in Nat /\ Power(Radix, t - 1) <= Magnitude(c)
  BY <1>3, TopWeight
<1> HIDE DEF t
<1>5. l <= t - 1
  BY <1>2
<1>6. Power(Radix, l) <= Power(Radix, t - 1)
  BY <1>4, <1>5, Words, PowerGrows
<1>7. Power(Radix, l) \in Nat /\ Power(Radix, t - 1) \in Nat /\ Magnitude(c) \in Nat
  BY <1>4, Weights, MagnitudeIs
<1> QED BY <1>4, <1>6, <1>7

LEMMA Cancelled ==
    ASSUME NEW p \in Nat, NEW B \in Nat, NEW f \in Nat, f >= 1
    PROVE  /\ p * f < B * f => p < B
           /\ B * f < p * f => B < p
<1>1. p >= B => p * f >= B * f
  OBVIOUS
<1>2. p <= B => p * f <= B * f
  OBVIOUS
<1> DEFINE x == p * f
           y == B * f
<1>3. x \in Nat /\ y \in Nat
  OBVIOUS
<1> HIDE DEF x, y
<1>4. x < y => p < B
  BY <1>1, <1>3 DEF x, y
<1>5. y < x => B < p
  BY <1>2, <1>3 DEF x, y
<1> QED BY <1>4, <1>5 DEF x, y

(* What the loop leaves: the remainder of the numbers asked for, or more    *)
(* than the divisor if a digit had no estimate.                             *)
LEMMA Left ==
    ASSUME Dividing, k = Len(den) - 1
    PROVE  LET A == Abs(call.a)
               B == Abs(call.b)
               f == Factor(shift, second)
               p == A - B * Magnitude(quo)
           IN  /\ p \in Nat /\ A = B * Magnitude(quo) + p
               /\ Magnitude(rem) = p * f
               /\ \/ p < B /\ \A j \in 1 .. Len(quo) : ~ Met(A * f, den, j)
                  \/ B < p /\ \E j \in 1 .. Len(quo) : Met(A * f, den, j)
<1> DEFINE A == Abs(call.a)
           B == Abs(call.b)
           f == Factor(shift, second)
           q == Magnitude(quo)
           z == Magnitude(rem)
           p == A - B * q
           N == A * f
           n == Len(den)
<1>1. /\ A \in Nat /\ B \in Nat /\ B >= 1 /\ f \in Nat /\ f >= 1 /\ N \in Nat
      /\ Looping(den, rem, quo, k, N)
  BY DividingIs
<1>2. Magnitude(den) = B * f
  BY DEF Dividing
<1>3. /\ Divisor(den) /\ rem \in Seq(Digit) /\ quo \in Seq(Digit)
      /\ MadeOf(z, Magnitude(den), q, N)
      /\ \/ /\ z < Magnitude(den) * Power(Radix, k - (Len(den) - 1))
            /\ \A i \in k - (Len(den) - 1) + 1 .. Len(quo) : ~ Met(N, den, i)
         \/ /\ \E i \in k - (Len(den) - 1) + 1 .. Len(quo) : Met(N, den, i)
            /\ \E i \in Nat : i >= k + 2 /\ At(rem, i) >= 1
  <2> HIDE DEF A, B, f, N
  <2> QED BY <1>1 DEF Looping
<1>4. n \in Nat /\ n >= 1 /\ den \in Seq(Digit)
  BY <1>3, DivisorIs DEF Divisor
<1>5. k - (Len(den) - 1) = 0 /\ 0 + 1 = 1 /\ k + 2 = n + 1
  BY <1>4
<1>6. q \in Nat /\ z \in Nat
  BY <1>3, MagnitudeIs
<1> HIDE DEF A, B, f, q, z, n
<1>7. p \in Nat /\ z = p * f /\ A = B * q + p
  <2>1. MadeOf(z, B * f, q, A * f)
    BY <1>2, <1>3
  <2>2. A \in Nat /\ B \in Nat /\ q \in Nat /\ f \in Nat /\ f >= 1 /\ z \in Nat
    BY <1>1, <1>6
  <2>3. Unscaled(A, B, q, f, z)
    <3> HIDE DEF p
    <3> QED BY <2>1, <2>2, Unscale
  <2> QED BY <2>3 DEF Unscaled
<1> HIDE DEF p
<1>8. CASE z < Magnitude(den) * Power(Radix, 0) /\ \A i \in 1 .. Len(quo) : ~ Met(N, den, i)
  <2>1. z < B * f
    <3>1. Magnitude(den) * 1 = Magnitude(den)
      BY <1>4, MagnitudeIs
    <3> QED BY <1>2, <1>8, <3>1, Weights
  <2>2. p < B
    BY <1>1, <1>7, <2>1, Cancelled
  <2> QED BY <1>7, <1>8, <2>2 DEF A, B, f, q, z, p
<1>9. CASE /\ \E i \in 1 .. Len(quo) : Met(N, den, i)
           /\ \E i \in Nat : i >= n + 1 /\ At(rem, i) >= 1
  <2>1. Power(Radix, n) <= z
    BY <1>3, <1>4, <1>9, DigitWeight DEF z
  <2>2. B * f < Power(Radix, n)
    BY <1>2, <1>4, MagnitudeIs DEF n
  <2>3. B * f < p * f
    <3>1. Power(Radix, n) \in Nat
      BY <1>4, Weights
    <3> DEFINE x == B * f
               y == Power(Radix, n)
    <3>2. x \in Nat
      BY <1>1
    <3> HIDE DEF x, y
    <3>3. x < z
      BY <1>6, <2>1, <2>2, <3>1, <3>2 DEF x, y
    <3> QED BY <1>7, <3>3 DEF x
  <2>4. B < p
    BY <1>1, <1>7, <2>3, Cancelled
  <2> QED BY <1>7, <1>9, <2>4 DEF A, B, f, q, z, p
<1> QED BY <1>3, <1>5, <1>8, <1>9

LEMMA DigitMetIs ==
    ASSUME Dividing
    PROVE  DigitMet <=> \E j \in 1 .. Len(quo) : Met(Abs(call.a) * Factor(shift, second), den, j)
<1> DEFINE A == Abs(call.a)
           B == Abs(call.b)
           f == Factor(shift, second)
           d == Magnitude(den)
<1>1. A \in Nat /\ B \in Nat /\ B >= 1 /\ f \in Nat /\ Looping(den, rem, quo, k, A * f)
  BY DividingIs
<1>2. d = B * f
  BY DEF Dividing
<1>3. den # <<>>
  <2>1. Len(den) >= 1
    BY <1>1 DEF Looping, Divisor
  <2> QED BY <2>1
<1> HIDE DEF B, f
<1>4. (B * f) \div B = f
  BY <1>1, DivExact
<1> DEFINE n == A * (d \div B)
<1>5. n = A * f
  BY <1>2, <1>4
<1> HIDE DEF A, d, n
<1>6. DigitMet <=> /\ den # <<>>
                   /\ \E j \in 1 .. Len(quo) :
                         (n % (d * Power(Radix, j))) \div Power(Radix, Len(den) - 1 + j) = Last(den)
  BY DEF DigitMet, n, A, B, d
<1>7. \A j : Met(n, den, j) <=> (n % (d * Power(Radix, j))) \div Power(Radix, Len(den) - 1 + j) = Last(den)
  BY DEF Met, d
<1>8. DigitMet <=> \E j \in 1 .. Len(quo) : Met(n, den, j)
  BY <1>3, <1>6, <1>7
<1> QED BY <1>5, <1>8 DEF A, f

(* Multiplied by p and s and divided again. *)
LEMMA ShiftedBack ==
    ASSUME NEW p \in Nat, NEW x \in Nat, NEW s \in Nat, s >= 1, NEW r \in Nat, r >= 1
    PROVE  /\ (p * (x * s)) \div s = p * x
           /\ x >= 1 => (p * x) \div x = p /\ p <= p * x
           /\ s >= 1 /\ x >= 1 => p * x <= p * (x * s)
           /\ p * x \in Nat /\ p * (x * s) \in Nat
<1> DEFINE y == p * x
<1>1. y \in Nat
  OBVIOUS
<1>2. p * (x * s) = y * s
  OBVIOUS
<1>3. x >= 1 => p <= y
  OBVIOUS
<1>4. x >= 1 => (p * x) \div x = p
  BY DivExact
<1> HIDE DEF y
<1>5. (y * s) \div s = y
  BY <1>1, DivExact
<1>6. y <= y * s
  BY <1>1
<1>7. y * s \in Nat
  BY <1>1
<1> QED BY <1>1, <1>2, <1>3, <1>4, <1>5, <1>6, <1>7 DEF y

(* The remainder after it has been divided and shifted back.                *)
LEMMA RemainderIs ==
    ASSUME Dividing, NEW p \in Nat, Magnitude(rem) = p * Factor(shift, second), rem \in Seq(Digit)
    PROVE  Remainder = IF call.by = "kernel" /\ shift > 0 /\ IsFixnum(p) THEN Fixnum(p)
                       ELSE Canonical(Sign(call.a < 0, p))
<1> DEFINE s == IF second THEN Radix - 1 ELSE 1
           x == Power(2, shift)
           z == Magnitude(rem)
           m == z \div s
           L == Len(rem)
           c == Cells(m, L)
           w == ShiftBignumWords(c, -shift, L)
           back == Normalize(FALSE, w)
           neg == call.a < 0
<1>1. shift \in Int /\ shift >= 0 /\ shift \in Nat
  <2>1. shift \in 0 .. 2 * HalfBits - 1
    BY DEF Dividing
  <2> QED BY <2>1
<1>2. x \in Nat /\ x >= 1
  BY HalfRadix DEF Dividing
<1>3. s \in Nat /\ s >= 1
  BY Words
<1>4. z = p * (x * s)
  BY DEF Factor
<1> HIDE DEF s, x, z
<1>5. m = p * x /\ m <= z /\ m \in Nat /\ z \in Nat /\ m \div x = p /\ p <= m
  BY <1>2, <1>3, <1>4, ShiftedBack
<1> HIDE DEF m
<1>6. L \in Nat /\ z < Power(Radix, L) /\ Power(Radix, L) \in Nat
  BY MagnitudeIs, Weights DEF z
<1> HIDE DEF L
<1>7. c \in Seq(Digit) /\ Magnitude(c) = m
  <2>1. m < Power(Radix, L)
    BY <1>5, <1>6
  <2> QED BY <1>5, <1>6, <2>1, CellsAre, CellsMagnitude
<1> HIDE DEF c
<1>8. Shifted(m, -shift) = p
  <2> DEFINE t == -shift
  <2>1. t = 0 - shift /\ t \in Int
    BY <1>1
  <2>2. -t = shift
    BY <1>1
  <2> HIDE DEF t
  <2>3. CASE t < 0
    <3>1. Shifted(m, t) = m \div Power(2, shift)
      BY <2>2, <2>3 DEF Shifted
    <3> QED BY <1>5, <3>1 DEF t, x
  <2>4. CASE ~ (t < 0)
    <3>1. t = 0 /\ shift = 0
      BY <1>1, <2>1, <2>4
    <3>2. Power(2, 0) = 1
      BY PowerIs
    <3>3. x = 1
      BY <3>1, <3>2 DEF x
    <3>4. m = p
      BY <1>5, <3>3
    <3>5. Shifted(m, t) = m * 1
      BY <2>4, <3>1, <3>2 DEF Shifted
    <3> QED BY <1>5, <3>4, <3>5 DEF t
  <2> QED BY <2>3, <2>4
<1>9. w = Cells(p, L)
  <2>1. -shift \in Int
    BY <1>1
  <2>2. w = Cells(Shifted(Magnitude(c), -shift), L)
    BY <1>6, <1>7, <2>1, ShiftedCells
  <2> QED BY <1>7, <1>8, <2>2
<1> HIDE DEF w
<1>10. w \in Seq(Digit) /\ Magnitude(w) = p
  <2>1. p < Power(Radix, L)
    BY <1>5, <1>6
  <2> QED BY <1>6, <1>9, <2>1, CellsAre, CellsMagnitude
<1>11. back = Canonical(p)
  <2>1. Normalize(FALSE, w) = Canonical(Sign(FALSE, p))
    BY <1>10, SignedIs
  <2> QED BY <2>1 DEF Sign
<1> HIDE DEF back
<1>12. Remainder = IF back.tag = "bignum" THEN Normalize(neg, back.cells)
                   ELSE IF call.by = "kernel" /\ shift > 0 THEN back
                   ELSE Fixnum(IF neg THEN -back.n ELSE back.n)
  BY DEF Remainder, back, w, c, L, m, z, s
<1> HIDE DEF neg
<1>13. CASE ~ IsFixnum(p)
  <2>1. back.tag = "bignum"
    BY <1>11, <1>13, CanonicalIs
  <2>2. Tight(back.cells, p)
    BY <1>11, <1>13, CanonicalTight
  <2>3. neg \in BOOLEAN
    BY DEF neg
  <2>4. Normalize(neg, back.cells) = Canonical(Sign(neg, p))
    BY <2>2, <2>3, SignedIs DEF Tight
  <2> QED BY <1>12, <1>13, <2>1, <2>4 DEF neg
<1>14. CASE IsFixnum(p)
  <2>1. back = Fixnum(p)
    BY <1>11, <1>14, CanonicalIs
  <2>2. back.tag = "fixnum" /\ back.n = p
    BY <2>1 DEF Fixnum
  <2>3. Remainder = IF call.by = "kernel" /\ shift > 0 THEN Fixnum(p) ELSE Fixnum(Sign(neg, p))
    BY <1>12, <2>1, <2>2 DEF Sign
  <2>4. Sign(neg, p) \in Int /\ IsFixnum(Sign(neg, p))
    BY <1>14, Words DEF Sign, IsFixnum
  <2>5. Canonical(Sign(neg, p)) = Fixnum(Sign(neg, p))
    BY <2>4, CanonicalIs
  <2> QED BY <1>14, <2>3, <2>5 DEF neg
<1> QED BY <1>13, <1>14

(* What the loop leaves against the quotient and the remainder themselves.  *)
LEMMA Leftover ==
    ASSUME NEW A \in Nat, NEW B \in Nat, B >= 1, NEW q \in Nat, NEW p \in Nat, A = B * q + p
    PROVE  /\ A \div B \in Nat /\ A % B \in Nat
           /\ p < B => A \div B = q /\ A % B = p
           /\ B < p => A \div B # q /\ A % B < p
<1>1. p < B => A \div B = q /\ A % B = p
  BY DivUnique
<1>2. A \div B \in Int /\ A % B \in Nat /\ A % B < B /\ A = B * (A \div B) + (A % B)
  BY DivMod
<1>3. A \div B \in Nat
  OBVIOUS
<1> DEFINE u == A \div B
           r == A % B
           x == B * q
<1>4. x \in Nat /\ A = x + p
  OBVIOUS
<1>5. u = q => A = x + r
  BY <1>2
<1> HIDE DEF u, r, x
<1>6. B < p => u # q /\ r < p
  BY <1>2, <1>3, <1>4, <1>5 DEF u, r
<1> QED BY <1>1, <1>2, <1>3, <1>6 DEF u, r

(* The end of a long division.                                              *)
LEMMA FinishExact ==
    ASSUME Dividing, FinishDivision
    PROVE  DivisionExact' /\ phase' = "done"
<1> DEFINE m == call.a
           n == call.b
           A == Abs(call.a)
           B == Abs(call.b)
           f == Factor(shift, second)
           q == Magnitude(quo)
           p == A - B * q
           Q == A \div B
           R == A % B
           s == (m < 0) # (n < 0)
           neg == m < 0
           lost == call.by = "kernel" /\ shift > 0
           met == DigitMet
           v == IF lost /\ IsFixnum(p) THEN p ELSE Sign(neg, p)
<1>1. /\ k = Len(den) - 1 /\ phase' = "done" /\ call' = call
      /\ answer' = IF call.op = "div" THEN Normalize(s, quo) ELSE Remainder
      /\ den' = den /\ rem' = rem /\ quo' = quo /\ k' = k /\ shift' = shift /\ second' = second
  BY DEF FinishDivision, Return, Finish, work
<1>2. /\ m \in Int /\ n \in Int /\ n # 0 /\ call.op \in {"div", "rem"}
      /\ ~ (IsFixnum(m) /\ IsFixnum(n)) /\ call.by \in Implementations
  BY DEF Dividing
<1>3. A \in Nat /\ B \in Nat /\ B >= 1 /\ rem \in Seq(Digit) /\ quo \in Seq(Digit) /\ q \in Nat
  <2>1. rem \in Seq(Digit) /\ quo \in Seq(Digit)
    BY DEF Dividing, Looping
  <2> QED BY <2>1, DividingIs, MagnitudeIs
<1>4. /\ p \in Nat /\ A = B * q + p /\ Magnitude(rem) = p * f
      /\ \/ p < B /\ \A j \in 1 .. Len(quo) : ~ Met(A * f, den, j)
         \/ B < p /\ \E j \in 1 .. Len(quo) : Met(A * f, den, j)
  BY <1>1, Left
<1>5. met \in BOOLEAN /\ (~ met => p < B) /\ (met => B < p)
  <2>1. met <=> \E j \in 1 .. Len(quo) : Met(A * f, den, j)
    BY DigitMetIs
  <2>2. met \in BOOLEAN
    BY DEF DigitMet
  <2> QED BY <1>4, <2>1, <2>2
<1>6. /\ Q \in Nat /\ R \in Nat /\ (~ met => Q = q /\ R = p) /\ (met => Q # q /\ R < p)
  <2> HIDE DEF A, B, q, p, met
  <2> QED BY <1>3, <1>4, <1>5, Leftover
<1>7. Normalize(s, quo) = Canonical(Sign(s, q))
  BY <1>3, SignedIs
<1>8. Remainder = Canonical(v)
  <2>1. Remainder = IF lost /\ IsFixnum(p) THEN Fixnum(p) ELSE Canonical(Sign(neg, p))
    <3> HIDE DEF p
    <3> QED BY <1>3, <1>4, RemainderIs
  <2>2. IsFixnum(p) => Canonical(p) = Fixnum(p)
    <3> HIDE DEF p
    <3> QED BY <1>4, CanonicalIs
  <2> QED BY <2>1, <2>2
<1>9. Quotient(call.op, m, n) = IF call.op = "div" THEN Sign(s, Q) ELSE Sign(neg, R)
  BY <1>2, QuotientIs
<1>10. Result' = Quotient(call.op, m, n)
  BY <1>1, <1>2 DEF Result, Quotient
<1>11. ~ (FixnumWraps')
  <2>1. call.a = -FixLimit /\ call.b = -1 => IsFixnum(call.a) /\ IsFixnum(call.b)
    BY Words DEF IsFixnum
  <2> QED BY <1>1, <1>2, <2>1 DEF FixnumWraps
<1>12. DigitMet' <=> met
  BY <1>1 DEF DigitMet
<1>13. SignForgotten' <=> (call.op = "rem" /\ lost /\ neg /\ Result' # 0 /\ IsFixnum(-Result'))
  BY <1>1 DEF SignForgotten
<1>14. s \in BOOLEAN /\ neg \in BOOLEAN /\ lost \in BOOLEAN
  OBVIOUS
<1> HIDE DEF m, n, A, B, f, q, p, Q, R, s, neg, lost, met
<1>15. /\ Sign(s, q) = Sign(s, Q) <=> ~ met
       /\ v \in Int /\ Sign(s, q) \in Int /\ Sign(s, Q) \in Int /\ Sign(neg, R) \in Int
       /\ v = Sign(neg, R)
          <=> ~ (met \/ (lost /\ neg /\ Sign(neg, R) # 0 /\ IsFixnum(-Sign(neg, R))))
  <2>1. Sign(s, q) = Sign(s, Q) <=> ~ met
    BY <1>3, <1>6 DEF Sign
  <2>2. Sign(s, q) \in Int /\ Sign(s, Q) \in Int /\ Sign(neg, R) \in Int
    BY <1>3, <1>6 DEF Sign
  <2>3. v \in Int /\ (v = p \/ v = -p)
    BY <1>4 DEF Sign
  <2> HIDE DEF v
  <2>4. CASE met
    <3>1. R < p /\ (Sign(neg, R) = R \/ Sign(neg, R) = -R)
      BY <1>6, <2>4 DEF Sign
    <3>2. v # Sign(neg, R)
      BY <1>4, <1>6, <2>3, <3>1
    <3> QED BY <2>1, <2>2, <2>3, <2>4, <3>2
  <2>5. CASE ~ met
    <3>1. R = p
      BY <1>6, <2>5
    <3>2. CASE neg
      <4>1. Sign(neg, R) = -p
        BY <3>1, <3>2 DEF Sign
      <4>2. v = IF lost /\ IsFixnum(p) THEN p ELSE -p
        BY <3>2 DEF v, Sign
      <4>3. -(-p) = p /\ (p = -p <=> p = 0) /\ (-p # 0 <=> p # 0)
        BY <1>4
      <4>4. v = -p <=> ~ (lost /\ IsFixnum(p) /\ p # 0)
        BY <1>4, <4>2, <4>3
      <4>5. Sign(neg, R) # 0 /\ IsFixnum(-Sign(neg, R)) <=> p # 0 /\ IsFixnum(p)
        BY <4>1, <4>3
      <4> QED BY <2>1, <2>2, <2>3, <2>5, <3>2, <4>1, <4>4, <4>5
    <3>3. CASE ~ neg
      <4>1. Sign(neg, R) = p /\ v = p
        BY <3>1, <3>3 DEF Sign, v
      <4> QED BY <2>1, <2>2, <2>3, <2>5, <3>3, <4>1
    <3> QED BY <3>2, <3>3
  <2> QED BY <2>4, <2>5
<1> HIDE DEF v
<1>16. CASE call.op = "div"
  <2>1. Result' = Sign(s, Q) /\ answer' = Canonical(Sign(s, q))
    BY <1>1, <1>7, <1>9, <1>10, <1>16
  <2>2. ~ (SignForgotten')
    BY <1>13, <1>16
  <2>3. answer' = Canonical(Result') <=> ~ met
    BY <1>15, <2>1, CanonicalDiffers
  <2> QED BY <1>1, <1>11, <1>12, <2>2, <2>3 DEF DivisionExact
<1>17. CASE call.op = "rem"
  <2>1. Result' = Sign(neg, R) /\ answer' = Canonical(v)
    BY <1>1, <1>8, <1>9, <1>10, <1>17
  <2>2. SignForgotten' <=> (lost /\ neg /\ Sign(neg, R) # 0 /\ IsFixnum(-Sign(neg, R)))
    BY <1>13, <1>17, <2>1
  <2>3. answer' = Canonical(Result') <=> v = Sign(neg, R)
    BY <1>15, <2>1, CanonicalDiffers
  <2>4. answer' = Canonical(Result') <=> ~ (DigitMet' \/ SignForgotten')
    BY <1>12, <1>15, <2>2, <2>3
  <2> QED BY <1>1, <1>11, <2>4 DEF DivisionExact
<1> QED BY <1>2, <1>16, <1>17

(* Outside a long division there is no divisor in the loop.                 *)
ExactInv ==
    /\ LoopInv
    /\ phase = "idle" => den = <<>> /\ shift = 0
    /\ DivisionExact

(* Two fixnums.                                                             *)
LEMMA FixnumsExact ==
    ASSUME ExactInv, DivideFixnums
    PROVE  ExactInv'
<1>1. PICK m \in Dividends, n \in Divisors :
        /\ IsFixnum(m) /\ IsFixnum(n) /\ n # 0
        /\ call' = [op |-> "div", by |-> "library", a |-> m, b |-> n]
        /\ Finish(Fixnum(Wrapped(Truncated(m, n))))
  BY DEF DivideFixnums
<1>2. m \in Int /\ n \in Int
  BY OperandsAssumption
<1>3. phase = "idle" /\ phase' = "done" /\ answer' = Fixnum(Wrapped(Truncated(m, n))) /\ den' = den
  BY <1>1 DEF DivideFixnums, Finish, work
<1>4. call'.op = "div" /\ call'.by = "library" /\ call'.a = m /\ call'.b = n
  BY <1>1
<1>5. answer' = Canonical(Truncated(m, n)) <=> ~ (m = -FixLimit /\ n = -1)
  BY <1>1, <1>2, <1>3, FixnumDivision
<1>6. Result' = Truncated(m, n)
  BY <1>4 DEF Result
<1>7. FixnumWraps' <=> (m = -FixLimit /\ n = -1)
  BY <1>4 DEF FixnumWraps
<1>8. ~ (SignForgotten')
  BY <1>4 DEF SignForgotten
<1>9. ~ (DigitMet')
  <2>1. den' = <<>>
    BY <1>3 DEF ExactInv
  <2> QED BY <2>1 DEF DigitMet
<1>10. DivisionExact'
  <2>1. answer' = Canonical(Result') <=> ~ (FixnumWraps' \/ SignForgotten' \/ DigitMet')
    BY <1>5, <1>6, <1>7, <1>8, <1>9
  <2> QED BY <1>3, <2>1 DEF DivisionExact
<1> QED BY <1>3, <1>10 DEF ExactInv, LoopInv

(* A bignum among the two.                                                  *)
LEMMA BignumsExact ==
    ASSUME ExactInv, DivideBignums
    PROVE  ExactInv'
<1>1. PICK m \in Dividends, n \in Divisors, op \in {"div", "rem"}, by \in Implementations :
        LET num == AsBignum(m)
            d == AsBignum(n)
            x == ShiftBits(Last(d.cells))
            sn == BignumShift(num, x, FALSE).cells
            sd == BignumShift(d, x, FALSE).cells
            twice == NeedsSecond(sd)
        IN  /\ ~ (IsFixnum(m) /\ IsFixnum(n))
            /\ call' = [op |-> op, by |-> by, a |-> m, b |-> n]
            /\ IF n = 0 THEN Stop("error")
               ELSE IF IsDirect(num, d) THEN DivideDirectly(op, num, d)
               ELSE IF twice /\ by = "kernel" THEN Stop("fault")
               ELSE /\ shift' = x
                    /\ second' = twice
                    /\ IF twice THEN Enter(Scaled(sn), Scaled(sd)) ELSE Enter(sn, sd)
  BY DEF DivideBignums, Scaled
<1> DEFINE num == AsBignum(m)
           d == AsBignum(n)
           x == ShiftBits(Last(d.cells))
           sn == BignumShift(num, x, FALSE).cells
           sd == BignumShift(d, x, FALSE).cells
           twice == NeedsSecond(sd)
<1>2. m \in Int /\ n \in Int
  BY OperandsAssumption
<1>3. ~ (IsFixnum(m) /\ IsFixnum(n)) /\ call' = [op |-> op, by |-> by, a |-> m, b |-> n]
  BY <1>1
<1>4. call'.op = op /\ call'.by = by /\ call'.a = m /\ call'.b = n
  BY <1>3
<1>5. phase = "idle" /\ den = <<>> /\ shift = 0
  BY DEF DivideBignums, ExactInv
<1>6. CASE n = 0
  <2>1. phase' = "error" /\ call'.b = 0
    BY <1>1, <1>4, <1>6 DEF Stop
  <2> QED BY <2>1 DEF ExactInv, LoopInv, DivisionExact
<1>7. CASE n # 0 /\ IsDirect(num, d)
  <2>1. DivideDirectly(op, AsBignum(m), AsBignum(n))
    BY <1>1, <1>7
  <2>2. phase' = "done" /\ UNCHANGED work /\ answer' = Canonical(Quotient(op, m, n))
    BY <1>2, <1>7, <2>1, DirectDivision
  <2>3. den' = <<>> /\ shift' = 0
    BY <1>5, <2>2 DEF work
  <2>4. Result' = Quotient(op, m, n)
    BY <1>4 DEF Result, Quotient
  <2>5. ~ (DigitMet') /\ ~ (SignForgotten')
    BY <2>3 DEF DigitMet, SignForgotten
  <2>6. ~ (FixnumWraps')
    <3>1. m = -FixLimit /\ n = -1 => IsFixnum(m) /\ IsFixnum(n)
      BY Words DEF IsFixnum
    <3> QED BY <1>3, <1>4, <3>1 DEF FixnumWraps
  <2>7. DivisionExact'
    <3>1. answer' = Canonical(Result') <=> ~ (FixnumWraps' \/ SignForgotten' \/ DigitMet')
      BY <2>2, <2>4, <2>5, <2>6
    <3> QED BY <2>2, <3>1 DEF DivisionExact
  <2> QED BY <2>2, <2>7 DEF ExactInv, LoopInv
<1>8. CASE n # 0 /\ ~ IsDirect(num, d) /\ twice /\ by = "kernel"
  <2>1. phase' = "fault" /\ den' = den
    BY <1>1, <1>8 DEF Stop, work
  <2> QED BY <1>4, <1>5, <1>8, <2>1 DEF ExactInv, LoopInv, DivisionExact
<1>9. CASE n # 0 /\ ~ IsDirect(num, d) /\ ~ (twice /\ by = "kernel")
  <2>1. phase' = "divide"
    BY <1>1, <1>9 DEF Enter
  <2>2. Dividing'
    BY <2>1, EnteredOnly
  <2> QED BY <2>1, <2>2 DEF ExactInv, LoopInv, DivisionExact
<1> QED BY <1>6, <1>7, <1>8, <1>9

(* One turn of the loop: the library's fault comes with a digit that cannot *)
(* be estimated.                                                            *)
LEMMA StepExact ==
    ASSUME ExactInv, QuotientStep
    PROVE  ExactInv'
<1>1. phase = "divide" /\ call' = call /\ Dividing
  BY DEF QuotientStep, ExactInv, LoopInv
<1>2. CASE Estimate >= Radix /\ call.by = "library"
  <2>1. phase' = "fault" /\ den' = den /\ quo' = quo
    BY <1>2 DEF QuotientStep, Stop, work
  <2>2. DigitMet
    BY <1>1, <1>2, StepLoops, DigitMetIs
  <2>3. DigitMet'
    BY <1>1, <2>1, <2>2 DEF DigitMet
  <2>4. call'.by = "library"
    BY <1>1, <1>2
  <2> QED BY <2>1, <2>3, <2>4 DEF ExactInv, LoopInv, DivisionExact
<1>3. CASE ~ (Estimate >= Radix /\ call.by = "library")
  <2>1. phase' = "divide"
    BY <1>1, <1>3 DEF QuotientStep
  <2>2. Dividing'
    BY <1>1, <2>1, StepLoops
  <2> QED BY <2>1, <2>2 DEF ExactInv, LoopInv, DivisionExact
<1> QED BY <1>2, <1>3

LEMMA ExactStep ==
    ASSUME ExactInv, [Next]_vars
    PROVE  ExactInv'
<1>1. CASE Calculate
  <2>1. phase' = "done" /\ call'.op \in Products
    BY <1>1 DEF Calculate, Finish
  <2> QED BY <2>1 DEF ExactInv, LoopInv, DivisionExact, Products
<1>2. CASE ShiftInteger
  <2>1. phase' = "done" /\ call'.op = "ash"
    BY <1>2 DEF ShiftInteger, Finish
  <2> QED BY <2>1 DEF ExactInv, LoopInv, DivisionExact
<1>3. CASE DivideFixnums
  BY <1>3, FixnumsExact
<1>4. CASE DivideBignums
  BY <1>4, BignumsExact
<1>5. CASE QuotientStep
  BY <1>5, StepExact
<1>6. CASE FinishDivision
  <2>1. phase = "divide"
    BY <1>6 DEF FinishDivision
  <2>2. Dividing
    BY <2>1 DEF ExactInv, LoopInv
  <2>3. DivisionExact' /\ phase' = "done"
    BY <1>6, <2>2, FinishExact
  <2> QED BY <2>3 DEF ExactInv, LoopInv
<1>7. CASE NextCall
  <2>1. phase' = "idle" /\ den' = <<>> /\ shift' = 0
    BY <1>7 DEF NextCall
  <2> QED BY <2>1 DEF ExactInv, LoopInv, DivisionExact
<1>8. CASE UNCHANGED vars
  <2>1. /\ phase' = phase /\ call' = call /\ answer' = answer /\ den' = den /\ rem' = rem /\ quo' = quo
        /\ k' = k /\ shift' = shift /\ second' = second
    BY <1>8 DEF vars
  <2>2. LoopInv'
    BY <2>1 DEF ExactInv, LoopInv, Dividing
  <2>3. /\ Result' = Result /\ (FixnumWraps' <=> FixnumWraps)
        /\ (DigitMet' <=> DigitMet)
    BY <2>1 DEF Result, FixnumWraps, DigitMet
  <2>4. SignForgotten' <=> SignForgotten
    BY <2>1, <2>3 DEF SignForgotten
  <2>5. DivisionExact'
    BY <2>1, <2>3, <2>4 DEF ExactInv, DivisionExact
  <2> QED BY <2>1, <2>2, <2>5 DEF ExactInv
<1> QED BY <1>1, <1>2, <1>3, <1>4, <1>5, <1>6, <1>7, <1>8 DEF Next

(* Every quotient is truncated and every remainder has the sign of the      *)
(* dividend, for words of any size and all operands, except exactly in the  *)
(* cases FixnumWraps, SignForgotten and DigitMet name; an error means a     *)
(* zero divisor, a fault of the library a digit that cannot be estimated.   *)
THEOREM DivisionIsExact == Spec => []DivisionExact
<1>1. Init => ExactInv
  BY DEF Init, ExactInv, LoopInv, DivisionExact
<1>2. ExactInv /\ [Next]_vars => ExactInv'
  BY ExactStep
<1>3. ExactInv => DivisionExact
  BY DEF ExactInv
<1> QED BY <1>1, <1>2, <1>3, PTL DEF Spec
=============================================================================
