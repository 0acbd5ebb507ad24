CONSTANTS
    i1 = i1
    i2 = i2
    p1 = p1
    p2 = p2
    Instruments = {i1}
    LastDay = 2
    MasterRules = {1}
    Procs = {p1, p2}
    Legacy <- Baseline
    LegacyEnd = 1
    CorrectedTables = {"bars"}
    MaxSnapshots = 4
SPECIFICATION Spec
SYMMETRY ProcSymmetry
INVARIANTS
    TypeOK
    CurrentIsIntact
    
    SuccessorsAreExact
PROPERTIES
    PublishedBySwap
    
