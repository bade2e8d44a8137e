SPECIFICATION FeeSpec
CONSTANTS
    User = {u1, u2}
    FeeCollector = feeCollector
    Redistribute = redistribute
    Buffer = buffer
    Transfer = transfer
    Escrow = escrow
    Unit = 10
    Rates <- SomeRates
    NoTax = noTax
    NoAddr = noAddr
    Fraction = 7
    Amounts = {1, 3}
    Funds = 4
SYMMETRY Symmetry
INVARIANTS
    NeverHalts
    TaxedOnce
    
