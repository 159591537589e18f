SPECIFICATION Spec
CONSTANTS
    N = 4
    Byte = {0, 1}
    Blank = Blank
    Payloads <- MCPayloads
    MaxCursor = 7
INVARIANTS
    NoDataRace
    ReadsIntact
PROPERTY ImplementsFifo
