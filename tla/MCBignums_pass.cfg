CONSTANTS
    HalfBits = 2
    FixBits = 2
    Dividends <- MCDividends
    Divisors <- MCDivisors
    Terms <- MCTerms
    Shifts <- MCShifts
SPECIFICATION IntegerSpec
INVARIANT
    Exact
    LogicExact
PROPERTY
    StepDivides
