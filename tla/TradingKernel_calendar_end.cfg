CONSTANTS
    i1 = i1
    i2 = i2
    Instruments = {i1}
    LastDay = 3
    Snapshots = {2, 3}
    MaxGap = 0
    Actions <- NoActions
    Bars <- MovingBars
    Intents <- BuyOrSell
    InitialCash = 73
    Policy <- MCPolicy
    Risk <- MCRisk
    Fee <- MCFee
    Digests <- Backwards
SPECIFICATION Spec
CHECK_DEADLOCK FALSE
INVARIANT
    LotsSettle
