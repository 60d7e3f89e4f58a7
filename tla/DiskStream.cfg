CONSTANTS
    SectorBytes = 2
    Positions = {1}
    Counts = {4, 15}
    Sectors = 3
    WordSize = 16
    LbaMod = 4
    CountMod = 2
    Lbas = {0, 14}
    Totals = {0, 2, 3}
    Data = {"a", "b"}
SPECIFICATION StreamSpec
INVARIANTS
    ReadExact
    WriteStored
PROPERTIES
    WriteConfined
    Returns
    StreamPromise
