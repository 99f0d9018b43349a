SPECIFICATION FairSpec
CONSTANTS
    Commands = {c1, s1}
    PropertySets = {c1}
    Repliers = {r1}
    NoCommand = NoCommand
    MaxEpoch = 2
    Faults = {"login", "throw", "crash"}
INVARIANTS StaleTokenIsReplaced
PROPERTIES EveryCommandCloses
