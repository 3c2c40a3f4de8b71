---------------------------- MODULE BignumLogic ----------------------------
(***************************************************************************)
(* The logical operations on integers: the cells in two's complement       *)
(* (TWOS_COMP_WORD), the result as long as the longer operand, its top bit *)
(* taken for the sign.  They are steps of one call, like the operations of *)
(* Bignums, whose objects and variables they use; IntegerSpec has all.     *)
(***************************************************************************)
EXTENDS Bignums

Logic == {"xor", "ior", "and"}

(* Bit i of an integer in two's complement, which has no last one, an       *)
(* operation on two bits, and the number its first n bits make.             *)
Bit(n, i) == (n \div Power(2, i)) % 2

BitOf(op, x, y) ==
    CASE op = "xor" -> IF x # y THEN 1 ELSE 0
      [] op = "ior" -> IF x = 1 \/ y = 1 THEN 1 ELSE 0
      [] op = "and" -> IF x = 1 /\ y = 1 THEN 1 ELSE 0

BitSum(op, a, b) ==
    LET sum[n \in Nat] ==
            IF n = 0 THEN 0
            ELSE sum[n - 1] + BitOf(op, Bit(a, n - 1), Bit(b, n - 1)) * Power(2, n - 1)
    IN  sum

(* The instruction, on words.                                               *)
Bits(op, c, d) == BitSum(op, c, d)[2 * HalfBits]

TwosComplement(b) ==
    IF b.neg THEN Cells(Power(Radix, Len(b.cells)) - Magnitude(b.cells), Len(b.cells))
    ELSE b.cells

(* Bignum_2CtoSM *)
TwosComplementToSignMagnitude(cells) ==
    IF Last(cells) >= Radix \div 2
    THEN Normalize(TRUE, Cells(Power(Radix, Len(cells)) - Magnitude(cells),
                               Len(cells)))
    ELSE Normalize(FALSE, cells)

(* The cells where the longer operand, long, has no partner.                *)
XorTail(c, long, short, by) == IF short.neg THEN Radix - 1 - c ELSE c

(* Fault variant: the tail of the longer operand is taken as it is. *)
OrTailAsIs(c, long, short, by) == c

OrTail(c, long, short, by) == IF short.neg THEN Radix - 1 ELSE c

AndTail(c, long, short, by) ==
    IF ~short.neg THEN 0
    ELSE IF long.neg /\ by = "library" THEN Radix - 1 - c
    ELSE c

Beyond(op, c, long, short, by) ==
    CASE op = "xor" -> XorTail(c, long, short, by)
      [] op = "ior" -> OrTail(c, long, short, by)
      [] op = "and" -> AndTail(c, long, short, by)

Logical(op, a, b, by) ==
    LET long == IF Len(a.cells) < Len(b.cells) THEN b ELSE a
        short == IF Len(a.cells) < Len(b.cells) THEN a ELSE b
        l == TwosComplement(long)
        s == TwosComplement(short)
        cells == [i \in DOMAIN l |->
                     IF i \in DOMAIN s THEN Bits(op, l[i], s[i])
                     ELSE Beyond(op, l[i], long, short, by)]
        unsigned == IF op = "and" THEN ~(a.neg /\ b.neg)
                    ELSE ~a.neg /\ ~b.neg
    IN  IF unsigned THEN Normalize(FALSE, cells)
        ELSE TwosComplementToSignMagnitude(cells)

(* bignumNot: one cell more, to have room for the sign.                     *)
BignumNot(b) ==
    LET wide == [b EXCEPT !.cells = @ \o <<0>>]
    IN  TwosComplementToSignMagnitude(
            [i \in DOMAIN wide.cells |-> Radix - 1 - TwosComplement(wide)[i]])

(* _Logxor, _Logior, _Logand, _Lognot: two fixnums need no cells.           *)
Combine ==
    /\ phase = "idle"
    /\ \E m, n \in Terms, op \in Logic, by \in Implementations :
        /\ ~(IsFixnum(m) /\ IsFixnum(n))
        /\ call' = [op |-> op, by |-> by, a |-> m, b |-> n]
        /\ Finish(Logical(op, AsBignum(m), AsBignum(n), by))

Complement ==
    /\ phase = "idle"
    /\ \E n \in Terms, by \in Implementations :
        /\ ~IsFixnum(n)
        /\ call' = [op |-> "not", by |-> by, a |-> n, b |-> 0]
        /\ Finish(BignumNot(AsBignum(n)))

IntegerNext == Combine \/ Complement \/ Next

IntegerSpec == Init /\ [][IntegerNext]_vars

-----------------------------------------------------------------------------
(* The integer an operation stands for: all bits of its operands from n on  *)
(* are copies of the sign.                                                  *)
LogicResult ==
    LET n == 2 * HalfBits * Max({Length(Abs(call.a)), Length(Abs(call.b))})
        sign == BitOf(call.op, Bit(call.a, n), Bit(call.b, n))
    IN  IF call.op = "not" THEN -1 - call.a
        ELSE BitSum(call.op, call.a, call.b)[n] - sign * Power(2, n)

(* Where the code does not compute the integer it should.  A result that    *)
(* needs a sign bit of its own has none, "currently only correct for        *)
(* unsigned integers" (LispMath.cpp:2754).                                  *)
NoRoomForSign ==
    LET limit == Power(Radix, Max({Length(Abs(call.a)), Length(Abs(call.b))}))
                     \div 2
    IN  /\ call.op \in Logic
        /\ IF call.op = "and" THEN call.a < 0 /\ call.b < 0
           ELSE call.a < 0 \/ call.b < 0
        /\ LogicResult \notin -limit .. limit - 1

(* The library complements the tail of the AND of two negative numbers.     *)
TailComplemented ==
    /\ call.op = "and" /\ call.by = "library"
    /\ call.a < 0 /\ call.b < 0
    /\ Length(-call.a) # Length(-call.b)

(* Every answer is the canonical object of the integer it stands for, but   *)
(* for the two cases above, and in them it never is.                        *)
LogicExact ==
    phase = "done" /\ call.op \in Logic \cup {"not"} =>
        (answer = Canonical(LogicResult)
         <=> ~(NoRoomForSign \/ TailComplemented))
=============================================================================
