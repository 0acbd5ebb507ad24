\* The preparation of market data: every step on its small inputs, and two
\* collectors over two batches.
CONSTANTS
    c1 = c1
    c2 = c2
    i1 = i1
    i2 = i2
    i3 = i3
    x1 = x1
    x2 = x2
    Collectors = {c1, c2}
    Batches <- TwoBatches
    MaxObserved = 2
    MaxRounds = 2
    Sessions <- MCSessions
    BarInputs <- MCBarInputs
    StockInputs <- LegalStocks
    EtfInputs <- MCEtfInputs
    LimitInputs <- MCLimitInputs
    ActionInputs <- MCActionInputs
    StatusInputs <- MCStatusInputs
    ViewInputs <- MCViewInputs
SPECIFICATION DataSpec
SYMMETRY Symmetry
INVARIANTS
    CanonicalBarsAreCorroborated
    RulesAreDated
    LimitsAreTrue
    ActionsAndFactorsAgree
    DenseBarsAreSound
    NoLookAhead
    EvidenceIsSound
PROPERTY OnlyFailuresAreAskedAgain
CHECK_DEADLOCK FALSE
