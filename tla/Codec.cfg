SPECIFICATION Spec
CHECK_DEADLOCK FALSE
CONSTANTS
    Transfers <- MCTransfers
    NewFieldNumber = 14
    StrayWords = {0, 1, 2, 32, 64, 96, 320, 4500, 9000}
    MaxUint8 = 9
    MaxUint64 = 5000
    MaxInt = 4000
    WordBits = 29
    Int32Bits = 13
    Nil = Nil
INVARIANTS
    ProtoRoundTrip
    UnknownFieldsIgnored
    WholeFieldsOnly
    AbiRoundTrip
    AbiCanonical
    CallsCarryArguments
    AnswersCarryResults
    EachTurnAdvances
