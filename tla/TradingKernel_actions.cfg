CONSTANTS
    i1 = i1
    i2 = i2
    Instruments = {i1}
    LastDay = 5
    Snapshots = {5}
    MaxGap = 0
    Actions <- Many
    Bars <- MovingBars
    Intents <- BuyOrSell
    InitialCash = 73
    Policy <- MCPolicy
    Risk <- MCRisk
    Fee <- MCFee
    Digests <- Backwards
SPECIFICATION Spec
CHECK_DEADLOCK FALSE
INVARIANTS
    BooksBalance
    DividendsArePaid
    EntitlementsAreSettled
PROPERTIES
    SplitsAreProportional
