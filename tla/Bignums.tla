------------------------------- MODULE Bignums -------------------------------
(***************************************************************************)
(* Integer arithmetic.  An integer is a fixnum or a bignum, a sign and the *)
(* cells of its magnitude, the least significant first.  Every operation   *)
(* is written twice: in the kernel (LispMath.cpp) and again, in assembler  *)
(* and Lisp, in Sys/bignums.lisp, which replaces the kernel's functions    *)
(* when it is loaded; other code of the kernel goes on calling its own.    *)
(*                                                                         *)
(* A word has 2 * HalfBits bits (32 in the program) and a fixnum lies in   *)
(* -2^FixBits .. 2^FixBits - 1 (FixBits is 28).  Long division runs one    *)
(* quotient digit at a time, as the loop of divideBignums does; the other  *)
(* operations are one step.  The kernel's additions, subtractions and      *)
(* products of words have an empty body (#if 0, LispMath.cpp:2139-2327).   *)
(* The logical operations are in BignumLogic.                              *)
(*                                                                         *)
(* A loop over cells is a recursive function of the number of cells it has *)
(* been through.                                                           *)
(***************************************************************************)
EXTENDS Integers, SequencesExt

CONSTANTS
    HalfBits,       \* hLen
    FixBits,        \* most-positive-fixnum is 2^FixBits - 1
    Dividends, Divisors,  \* operands of a division
    Terms,          \* operands of the other operations
    Shifts          \* amounts of ASH

(* b to the power n.  The provers know nothing of b ^ n.                   *)
Power(b, n) ==
    LET p[i \in Nat] == IF i = 0 THEN 1 ELSE b * p[i - 1] IN p[n]

Half == Power(2, HalfBits)
Radix == Half * Half
FixLimit == Power(2, FixBits)

ASSUME WordAssumption ==
    /\ HalfBits \in Nat \ {0}
    /\ FixBits \in HalfBits .. 2 * HalfBits - 1

IsFixnum(n) == -FixLimit <= n /\ n < FixLimit

ASSUME OperandsAssumption ==
    /\ Dividends \cup Divisors \cup Terms \subseteq Int
    /\ Shifts \subseteq Int

Implementations == {"kernel", "library"}
Products == {"add", "sub", "mul"}

VARIABLES
    phase,      \* "idle", "divide" (in the loop), "done", "error", "fault"
    call,       \* the operation asked for, on integers
    den,        \* cells of the divisor as the loop uses them
    rem, quo,   \* cells of the remainder and the quotient
    k,          \* index of the remainder's digit the step works on
    shift,      \* x, the bits num and denom were shifted by
    second,     \* SecondDone
    answer

vars == <<phase, call, den, rem, quo, k, shift, second, answer>>
work == <<den, rem, quo, k, shift, second>>

-----------------------------------------------------------------------------
(* Objects and cells. *)

Abs(n) == IF n < 0 THEN -n ELSE n
Fixnum(n) == [tag |-> "fixnum", n |-> n]
Bignum(neg, cells) == [tag |-> "bignum", neg |-> neg, cells |-> cells]

Cells(n, len) == [i \in 1..len |-> (n \div Power(Radix, i - 1)) % Radix]
At(cells, i) == IF i \in DOMAIN cells THEN cells[i] ELSE 0

(* The number in the lowest n cells, and in all of them.                    *)
Value(cells, n) ==
    LET v[i \in Nat] == IF i = 0 THEN 0
                        ELSE v[i - 1] + At(cells, i) * Power(Radix, i - 1)
    IN  v[n]
Magnitude(cells) == Value(cells, Len(cells))

(* bignumReduce: no leading zero cells. *)
Reduce(cells) ==
    SubSeq(cells, 1, Max({0} \cup {i \in DOMAIN cells : cells[i] # 0}))

(* normalizeBignum: what fits becomes a fixnum. *)
Normalize(neg, cells) ==
    LET c == Reduce(cells)
        n == IF neg THEN -Magnitude(c) ELSE Magnitude(c)
    IN  IF Len(c) <= 1 /\ IsFixnum(n) THEN Fixnum(n) ELSE Bignum(neg, c)

(* fixnumToBignum, and a canonical object for every integer. *)
FixnumToBignum(n) == Bignum(n < 0, <<Abs(n)>>)

(* bignumLength: the number of cells that n needs.                          *)
Length(n) == CHOOSE len \in 1 .. n + 1 :
                 /\ n < Power(Radix, len)
                 /\ len = 1 \/ n >= Power(Radix, len - 1)

Canonical(n) == Normalize(n < 0, Cells(Abs(n), Length(Abs(n))))
AsBignum(n) ==
    IF IsFixnum(n) THEN FixnumToBignum(n)
    ELSE Bignum(n < 0, Cells(Abs(n), Length(Abs(n))))

-----------------------------------------------------------------------------
(* Sums, differences and products of cells (Sys/bignums.lisp).  A result    *)
(* is allocated first, with its cells cleared.                              *)

Carry(a, b) ==
    LET carry[i \in Nat] ==
            IF i = 0 THEN 0
            ELSE (At(a, i) + At(b, i) + carry[i - 1]) \div Radix
    IN  carry

AddBignumWords(a, b, len) ==
    [i \in 1..len |-> (At(a, i) + At(b, i) + Carry(a, b)[i - 1]) % Radix]

Borrow(a, b) ==
    LET borrow[i \in Nat] ==
            IF i > 0 /\ At(a, i) < At(b, i) + borrow[i - 1] THEN 1 ELSE 0
    IN  borrow

SubBignumWords(a, b, len) ==
    [i \in 1..len |-> (At(a, i) - At(b, i) - Borrow(a, b)[i - 1]) % Radix]

(* One row of the product: b1 times the cell c, added to result from cell   *)
(* offset on.  overflow is the high word of the last product, carry that of *)
(* the addition to result.  The carry of the addition before it (low) is    *)
(* never counted: xor edi, edi clears the flag that jnc is to test.         *)
Row(b1, c, result, offset) ==
    LET row[j \in Nat] ==
            IF j = 0 THEN [cell |-> 0, overflow |-> 0, carry |-> 0]
            ELSE LET last == row[j - 1]
                     product == At(b1, j) * c + last.overflow
                     low == (product % Radix) + last.carry
                     sum == At(result, offset + j) + (low % Radix)
                 IN  [cell |-> sum % Radix,
                      overflow |-> product \div Radix,
                      carry |-> sum \div Radix]
    IN  row

MulRow(b1, c, result, offset) ==
    LET row == Row(b1, c, result, offset)
        end == offset + Len(b1) + 1
    IN  [i \in DOMAIN result |->
            IF i \in offset + 1 .. end - 1 THEN row[i - offset].cell
            ELSE IF i = end
            THEN (result[i] + row[Len(b1)].overflow + row[Len(b1)].carry) % Radix
            ELSE result[i]]

MulBignumWords(b1, b2) ==
    LET rows[i \in Nat] == IF i = 0 THEN Cells(0, Len(b1) + Len(b2))
                           ELSE MulRow(b1, At(b2, i), rows[i - 1], i - 1)
    IN  rows[Len(b2)]

AddSameSign(a, b) ==
    Normalize(a.neg, AddBignumWords(a.cells, b.cells,
                                    1 + Max({Len(a.cells), Len(b.cells)})))

SubSameSign(a, b) ==
    LET len == Max({Len(a.cells), Len(b.cells)})
    IN  IF Magnitude(a.cells) >= Magnitude(b.cells)
        THEN Normalize(a.neg, SubBignumWords(a.cells, b.cells, len))
        ELSE Normalize(~a.neg, SubBignumWords(b.cells, a.cells, len))

Negate(a) == [a EXCEPT !.neg = ~@]

AddBignums(a, b) ==
    IF a.neg = b.neg THEN AddSameSign(a, b)
    ELSE IF a.neg THEN SubSameSign(b, Negate(a))
    ELSE SubSameSign(a, Negate(b))

SubBignums(a, b) ==
    IF a.neg = b.neg THEN SubSameSign(a, b) ELSE AddSameSign(a, Negate(b))

MultiplyBignums(a, b) ==
    Normalize(a.neg # b.neg,
              IF Len(a.cells) < Len(b.cells)
              THEN MulBignumWords(b.cells, a.cells)
              ELSE MulBignumWords(a.cells, b.cells))

(* Two fixnums: a machine instruction, and the bignum code when it          *)
(* overflows.  The product is taken after an unsigned shift of n1.          *)
FixnumOp(op, m, n) ==
    CASE op = "add" -> m + n
      [] op = "sub" -> m - n
      [] op = "mul" -> (m % (2 * FixLimit)) * n

BignumOp(op, a, b) ==
    CASE op = "add" -> AddBignums(a, b)
      [] op = "sub" -> SubBignums(a, b)
      [] op = "mul" -> MultiplyBignums(a, b)

Arithmetic(op, m, n) ==
    IF IsFixnum(m) /\ IsFixnum(n) /\ IsFixnum(FixnumOp(op, m, n))
    THEN Fixnum(FixnumOp(op, m, n))
    ELSE BignumOp(op, AsBignum(m), AsBignum(n))

-----------------------------------------------------------------------------
(* Shifts work on half words: one of the source meets two of the result.    *)

HalfWord(cells, i) ==
    LET c == At(cells, (i \div 2) + 1)
    IN  IF i < 0 THEN 0 ELSE IF i % 2 = 0 THEN c % Half ELSE c \div Half

ShiftBignumWords(cells, bits, len) ==
    LET wordShift == Abs(bits) \div HalfBits
        bitShift == Abs(bits) % HalfBits
        Left(i) == HalfWord(cells, i) * Power(2, bitShift)
        Right(i) == (HalfWord(cells, i) * Half) \div Power(2, bitShift)
        dest(i) == IF bits < 0
                   THEN (Right(i + wordShift) \div Half)
                        + (Right(i + wordShift + 1) % Half)
                   ELSE (Left(i - wordShift) % Half)
                        + (Left(i - wordShift - 1) \div Half)
    IN  [i \in 1..len |-> dest(2 * i - 2) + Half * dest(2 * i - 1)]

(* bignumShift.  A negative number is shifted as its magnitude and one is   *)
(* added when the caller asked for a signed shift.                          *)
BignumShift(b, bits, signed) ==
    LET bitLength == 2 * HalfBits * Len(b.cells)
        len == (Max({bitLength + bits, 1}) + 2 * HalfBits - 1)
                   \div (2 * HalfBits)
        cells == ShiftBignumWords(b.cells, bits, len)
    IN  IF b.neg /\ signed
        THEN Normalize(TRUE, AddBignumWords(cells, <<1>>, len + 1))
        ELSE Normalize(FALSE, cells)

(* FIXNUM-SHIFT: an arithmetic shift to the right by less than a word, or   *)
(* bits shifted to the left until the sign changes.                         *)
Ash(n, bits) ==
    IF ~IsFixnum(n) THEN BignumShift(AsBignum(n), bits, TRUE)
    ELSE IF bits < 0
    THEN Fixnum(IF -bits < 2 * HalfBits THEN n \div Power(2, -bits) ELSE 0)
    ELSE IF IsFixnum(n * Power(2, bits)) THEN Fixnum(n * Power(2, bits))
    ELSE BignumShift(FixnumToBignum(n), bits, TRUE)

-----------------------------------------------------------------------------
(* Division. *)

Init ==
    /\ phase = "idle"
    /\ call = [op |-> "none"]
    /\ den = <<>> /\ rem = <<>> /\ quo = <<>>
    /\ k = 0 /\ shift = 0 /\ second = FALSE
    /\ answer = Fixnum(0)

Finish(result) ==
    /\ phase' = "done"
    /\ answer' = result
    /\ UNCHANGED work

Stop(how) ==
    /\ phase' = how
    /\ UNCHANGED <<work, answer>>

Calculate ==
    /\ phase = "idle"
    /\ \E m, n \in Terms, op \in Products :
        /\ call' = [op |-> op, by |-> "library", a |-> m, b |-> n]
        /\ Finish(Arithmetic(op, m, n))

ShiftInteger ==
    /\ phase = "idle"
    /\ \E n \in Terms, bits \in Shifts :
        /\ call' = [op |-> "ash", by |-> "library", a |-> n, b |-> bits]
        /\ Finish(Ash(n, bits))

(* idiv: the quotient of two fixnums is tagged again without a test.        *)
Truncated(m, n) ==
    LET q == Abs(m) \div Abs(n) IN IF (m < 0) = (n < 0) THEN q ELSE -q

Wrapped(n) ==
    ((n + FixLimit) % (2 * FixLimit)) - FixLimit

DivideFixnums ==
    /\ phase = "idle"
    /\ \E m \in Dividends, n \in Divisors :
        /\ IsFixnum(m) /\ IsFixnum(n) /\ n # 0
        /\ call' = [op |-> "div", by |-> "library", a |-> m, b |-> n]
        /\ Finish(Fixnum(Wrapped(Truncated(m, n))))

(* What divideBignums hands back: the quotient, or the remainder.           *)
Return(op, quotient, remainder) ==
    Finish(IF op = "div" THEN quotient ELSE remainder)

(* The cases that need no long division.  The divisor of a half word goes   *)
(* down the dividend, the remainder of a cell before the next one.          *)
DivideByHalfWord(num, d) ==
    LET n == Len(num)
        left[i \in Nat] == IF i = 0 THEN 0
                           ELSE (left[i - 1] * Radix + At(num, n + 1 - i)) % d
    IN  [quotient |-> [i \in 1..n |-> (left[n - i] * Radix + num[i]) \div d],
         remainder |-> <<left[n]>>]

DivideDirectly(op, num, d) ==
    LET n == Reduce(num.cells)
        c == Reduce(d.cells)
        short == DivideByHalfWord(n, Last(c))
    IN  IF Magnitude(n) < Magnitude(c)
        THEN Return(op, Fixnum(0), Normalize(num.neg, n))
        ELSE Return(op, Normalize(num.neg # d.neg, short.quotient),
                        Normalize(num.neg, short.remainder))

IsDirect(num, d) ==
    \/ Magnitude(num.cells) < Magnitude(d.cells)
    \/ Len(Reduce(num.cells)) = 1
    \/ Len(Reduce(d.cells)) = 1 /\ d.cells[1] < Half

(* Before the loop both numbers are shifted until the divisor's top bit is  *)
(* set.  "Possibly second action according to C. J. Mifsud": when the next  *)
(* digit of the divisor is larger than the first one, both are multiplied   *)
(* by Radix - 1.  The kernel's product of words is empty: what comes back   *)
(* is the fixnum 0, whose cells are then read.                              *)
ShiftBits(top) == CHOOSE x \in 0 .. 2 * HalfBits - 1 :
                      top * Power(2, x) \in Radix \div 2 .. Radix - 1

NeedsSecond(d) == Len(d) > 1 /\ Last(d) < d[Len(d) - 1]

Enter(num, d) ==
    LET n == Len(num) - 1
        r == Len(d) - 1
        extra == IF Last(num) >= Last(d) THEN 1 ELSE 0
    IN  /\ phase' = "divide"
        /\ den' = d
        /\ rem' = Cells(Magnitude(num), n + 1 + extra)
        /\ quo' = Cells(0, n - r + extra)
        /\ k' = n + extra
        /\ UNCHANGED answer

DivideBignums ==
    /\ phase = "idle"
    /\ \E m \in Dividends, n \in Divisors, op \in {"div", "rem"},
          by \in Implementations :
        LET num == AsBignum(m)
            d == AsBignum(n)
            x == ShiftBits(Last(d.cells))
            shiftedNum == BignumShift(num, x, FALSE).cells
            shiftedDen == BignumShift(d, x, FALSE).cells
            twice == NeedsSecond(shiftedDen)
            Scaled(c) == Reduce(MulBignumWords(c, <<Radix - 1>>))
        IN  /\ ~(IsFixnum(m) /\ IsFixnum(n))
            /\ call' = [op |-> op, by |-> by, a |-> m, b |-> n]
            /\ IF n = 0 THEN Stop("error")
               ELSE IF IsDirect(num, d) THEN DivideDirectly(op, num, d)
               ELSE IF twice /\ by = "kernel" THEN Stop("fault")
               ELSE /\ shift' = x
                    /\ second' = twice
                    /\ IF twice THEN Enter(Scaled(shiftedNum), Scaled(shiftedDen))
                       ELSE Enter(shiftedNum, shiftedDen)

(* Fault variant: an estimate that was too large is not corrected. *)
SubtractMulOnce(a, o, d, q) ==
    LET left == Magnitude(a) - q * Magnitude(d) * Power(Radix, o)
    IN  [a |-> Cells(left, Len(a)), q |-> q]

(* Subtract q * d from the digits of a from index o on; if the result would *)
(* be negative, q is decreased by one and d added back.  high is the cell   *)
(* after the one of the column, which the column also changes.              *)
Column(a, o, d, q) ==
    LET column[i \in Nat] ==
            IF i = 0 THEN [low |-> 0, high |-> At(a, o + 1), carry |-> 0]
            ELSE LET last == column[i - 1]
                     product == At(d, i) * q
                     low == (last.high - product) % Radix
                     carry == last.carry + (IF low > last.high THEN 1 ELSE 0)
                     high == (At(a, o + i + 1) - ((product \div Radix) + carry))
                                 % Radix
                 IN  [low |-> low, high |-> high,
                      carry |-> IF high > At(a, o + i + 1) THEN 1 ELSE 0]
    IN  column

SubtractMul(a, o, d, q) ==
    LET n == Len(d)
        column == Column(a, o, d, q)
        lows == [i \in 1..n |-> column[i].low]
        back == AddBignumWords(lows, d, n)
        Put(cells, end) == [i \in DOMAIN a |->
                               IF i \in o + 1 .. o + n THEN cells[i - o]
                               ELSE IF i = o + n + 1 THEN end ELSE a[i]]
    IN  IF column[n].carry = 0
        THEN [a |-> Put(lows, column[n].high), q |-> q]
        ELSE [a |-> Put(back, 0), q |-> q - 1]

(* The estimate of a digit.  DDquotient computes the quotient of two digits *)
(* by one and keeps a word of it; the library uses the machine's div, which *)
(* faults when the quotient needs more than a word.                         *)
Estimate == (rem[k + 1] * Radix + rem[k]) \div Last(den)

QuotientStep ==
    LET r == Len(den) - 1
        step == SubtractMul(rem, k - r - 1, den, Estimate % Radix)
    IN  /\ phase = "divide" /\ k > r
        /\ IF Estimate >= Radix /\ call.by = "library" THEN Stop("fault")
           ELSE /\ rem' = step.a
                /\ quo' = [quo EXCEPT ![k - r] = step.q]
                /\ k' = k - 1
                /\ UNCHANGED <<phase, den, shift, second, answer>>
        /\ UNCHANGED call

(* Fault variant: the remainder is not shifted back. *)
RemainderStaysShifted ==
    LET m == Magnitude(rem) \div (IF second THEN Radix - 1 ELSE 1)
    IN  Normalize(call.a < 0, Cells(m, Len(rem)))

(* The remainder is divided by Radix - 1 again and shifted back; the        *)
(* kernel gives it its sign only if it is still a bignum.                   *)
Remainder ==
    LET m == Magnitude(rem) \div (IF second THEN Radix - 1 ELSE 1)
        back == Normalize(FALSE,
                    ShiftBignumWords(Cells(m, Len(rem)), -shift, Len(rem)))
        neg == call.a < 0
    IN  IF back.tag = "bignum" THEN Normalize(neg, back.cells)
        ELSE IF call.by = "kernel" /\ shift > 0 THEN back
        ELSE Fixnum(IF neg THEN -back.n ELSE back.n)

FinishDivision ==
    /\ phase = "divide" /\ k = Len(den) - 1
    /\ Return(call.op, Normalize((call.a < 0) # (call.b < 0), quo), Remainder)
    /\ UNCHANGED call

NextCall ==
    /\ phase \in {"done", "error", "fault"}
    /\ phase' = "idle" /\ call' = [op |-> "none"]
    /\ den' = <<>> /\ rem' = <<>> /\ quo' = <<>>
    /\ k' = 0 /\ shift' = 0 /\ second' = FALSE
    /\ answer' = Fixnum(0)

Next ==
    \/ Calculate \/ ShiftInteger
    \/ DivideFixnums \/ DivideBignums \/ QuotientStep \/ FinishDivision
    \/ NextCall

Spec == Init /\ [][Next]_vars

-----------------------------------------------------------------------------
(* The integers the operations stand for.                                   *)

Result ==
    LET m == call.a
        n == call.b
    IN  CASE call.op = "add" -> m + n
          [] call.op = "sub" -> m - n
          [] call.op = "mul" -> m * n
          [] call.op = "ash" -> IF n >= 0 THEN m * Power(2, n)
                                ELSE m \div Power(2, -n)
          [] call.op = "div" -> Truncated(m, n)
          [] call.op = "rem" -> m - n * Truncated(m, n)

(* A negative number shifted as a bignum without losing a bit is one less   *)
(* than it should be, and a negative fixnum shifted by a word or more is 0. *)
NegativeShift ==
    /\ call.op = "ash" /\ call.a < 0
    /\ IF IsFixnum(call.a) /\ call.b < 0 THEN -call.b >= 2 * HalfBits
       ELSE ~(IsFixnum(call.a) /\ IsFixnum(Result))
            /\ (call.b >= 0 \/ call.a % Power(2, -call.b) = 0)

(* The most negative fixnum times or divided by -1.                         *)
FixnumWraps ==
    /\ call.op \in {"mul", "div"}
    /\ call.a = -FixLimit /\ call.b = -1

(* Magnitudes whose product loses a carry: where the sum of the rows above  *)
(* (above) carries into a column whose cell of the new row is all ones.     *)
LosesCarry(b1, b2) ==
    LET m == Magnitude(b1)
        n == Magnitude(b2)
        row(i) == m * ((n \div Power(Radix, i)) % Radix)
        above(i) == (m * (n % Power(Radix, i))) \div Power(Radix, i)
    IN  \E i \in 0 .. Len(b2) - 1, j \in 0 .. Len(b1) - 1 :
            LET w == Power(Radix, j)
            IN  /\ (row(i) \div w) % Radix = Radix - 1
                /\ (row(i) % w) + (above(i) % w) >= w

CarryLost ==
    LET x == AsBignum(call.a).cells
        y == AsBignum(call.b).cells
    IN  /\ call.op = "mul"
        /\ IF Len(x) < Len(y) THEN LosesCarry(y, x) ELSE LosesCarry(x, y)

(* The kernel forgets the sign of a remainder that became a fixnum.         *)
SignForgotten ==
    /\ call.op = "rem" /\ call.by = "kernel"
    /\ call.a < 0 /\ shift > 0 /\ Result # 0 /\ IsFixnum(-Result)

(* Some partial remainder starts with the divisor's first digit: its        *)
(* quotient digit cannot be estimated in one word.                          *)
DigitMet ==
    LET d == Magnitude(den)
        n == Abs(call.a) * (d \div Abs(call.b))
    IN  /\ den # <<>>
        /\ \E j \in 1 .. Len(quo) :
            (n % (d * Power(Radix, j))) \div Power(Radix, Len(den) - 1 + j)
                = Last(den)

(* Every sum, difference and product is the canonical object of the integer *)
(* it stands for: no borrow, sign or leading cell is lost, no carry but the *)
(* one of a product said above, and no bignum is left where a fixnum would  *)
(* do.                                                                      *)
ArithmeticExact ==
    phase = "done" /\ call.op \in Products =>
        (answer = Canonical(Result) <=> ~(FixnumWraps \/ CarryLost))

(* A shift is that of the integer, but for negative numbers as said above.  *)
ShiftExact ==
    phase = "done" /\ call.op = "ash" =>
        (answer = Canonical(Result) <=> ~NegativeShift)

(* Quotients are truncated and remainders have the sign of the dividend,    *)
(* but for the cases named above, all of them wrong; an error or a fault    *)
(* has its own cause.                                                       *)
DivisionExact ==
    /\ phase = "done" /\ call.op \in {"div", "rem"} =>
          (answer = Canonical(Result)
           <=> ~(FixnumWraps \/ SignForgotten \/ DigitMet))
    /\ phase = "error" => call.b = 0
    /\ phase = "fault" => IF call.by = "kernel" THEN den = <<>> ELSE DigitMet

(* Every operation on integers gives the canonical object of its result, or *)
(* is one of the exceptions, each of which is a wrong answer.               *)
Exact == ArithmeticExact /\ ShiftExact /\ DivisionExact

(* What one step may do to the remainder and the quotient.                  *)
Divides ==
    LET d == Magnitude(den)
        r == Len(den) - 1
    IN  phase = "divide" /\ phase' = "divide" /\ Estimate < Radix
        /\ Magnitude(rem) < d * Power(Radix, k - r)
        => /\ Magnitude(rem') < d * Power(Radix, k' - r)
           /\ Magnitude(rem) =
                  Magnitude(rem') + d * (Magnitude(quo') - Magnitude(quo))

(* The comment of subtractmul: "The remainder a - q * b will be less than b *)
(* and must not be negative.  The latter condition may require q to be      *)
(* decreased by 1".  Each step leaves less than the divisor of what it was  *)
(* given, and the quotient grows by what was taken away, so one correction  *)
(* of the estimate is enough, unless the estimate needs two words.          *)
StepDivides == [][Divides]_vars
=============================================================================
