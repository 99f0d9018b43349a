SPECIFICATION Spec
CONSTANTS
    Commands = {c1, s1}
    PropertySets = {c1}
    Repliers = {r1, r2}
    NoCommand = NoCommand
    MaxEpoch = 2
    Faults = {"login", "refuse", "throw", "crash"}
SYMMETRY Symmetry
INVARIANTS TypeOK NothingClaimedUndelivered
PROPERTIES FinalOverwrittenOnlyBy ImplementsContract
