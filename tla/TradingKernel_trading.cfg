CONSTANTS
    i1 = i1
    i2 = i2
    Instruments = {i1, i2}
    LastDay = 4
    Snapshots = {3, 4}
    MaxGap = 1
    Actions <- Few
    Bars <- MixedBars
    Intents <- TwoWeights
    InitialCash = 73
    Policy <- MCPolicy
    Risk <- MCRisk
    Fee <- MCFee
    Digests <- ByTime
SPECIFICATION Spec
CHECK_DEADLOCK FALSE
INVARIANTS
    TypeOK
    NoneOverdrawn
    OrdersAreForTomorrow
PROPERTIES
    FillsAreAllowed
    BuysAreMaximal
    UnsettledLotsStay
    SharesArrive
