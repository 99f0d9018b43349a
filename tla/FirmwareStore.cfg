SPECIFICATION Spec
CONSTANTS
    Firmwares = {f1, f2, f3}
    FullNames = {full}
    DeltaNames = {delta}
    NoName = NoName
    b1 = b1
    Bins = {b1}
    BinOf <- MCBinOf
    Elsewhere = Elsewhere
    Tasks = {k1}
    Requests = {r1, r2, r3}
    NoFirmware = NoFirmware
    MaxFirmwares = 2
CONSTRAINT MCBound
SYMMETRY MCSymmetry
INVARIANTS TypeOK RowHasObject ObjectHasRow NamesDiffer
PROPERTIES ImplementsLibraryQuota
