----------------------------- MODULE MCBignums -----------------------------
(* Words of four bits: the digits are the ends of the range, the middle     *)
(* and what is next to it.                                                  *)
EXTENDS BignumLogic

OneCell == {0, 1, 4, 7, 8, 15}
Extend(numbers, digits) ==
    numbers \cup {n * Radix + c : n \in numbers, c \in digits}
TwoCells == Extend(OneCell, {0, 1, 7, 8, 15})
ThreeCells == Extend(TwoCells, {0, 8, 15})
FourCells == Extend(ThreeCells, {0, 15})

WithSigns(numbers) == numbers \cup {-n : n \in numbers}

MCDividends == FourCells \cup {-n : n \in TwoCells}
MCDivisors == ThreeCells \cup {-1, -8, -127}
MCTerms == WithSigns(TwoCells \cup {2048, 4095})
MCShifts == {-9, -5, -4, -1, 0, 1, 3, 8}
=============================================================================
