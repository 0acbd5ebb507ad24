\* Two builders; a build of both instruments and its second shard.
SPECIFICATION Spec
CONSTANTS
    b1 = b1
    b2 = b2
    i1 = i1
    i2 = i2
    Tickflow = Tickflow
    Xtquant = Xtquant
    Eastmoney = Eastmoney
    Builders = {b1, b2}
    Primary = Tickflow
    Secondary = Xtquant
    Adjudicator = Eastmoney
    Master <- TwoInstruments
    Backend <- Backends
    Histories <- InstrumentHistories
    Specs <- WholeAndShard
    Unreliable = {Xtquant, Eastmoney}
    MaxObserved = 5
SYMMETRY BuilderSymmetry
INVARIANTS TypeOK RowsAreCorroborated NoTradeIsHidden PublishedOnce
PROPERTIES FinishedBatchesStay
CHECK_DEADLOCK FALSE
