SPECIFICATION Spec
CONSTANTS
    Chain = {c1, c2, c3}
    Values = {1, 2}
    Amounts = {1, 3, 6}
    Unspent = {t1, t2, t3}
    Late = late
    Rest = rest
    Bits = 4
SYMMETRY Interchangeable
INVARIANTS
    TypeOK
    Cheapest
    MoneyConserved
CHECK_DEADLOCK FALSE
