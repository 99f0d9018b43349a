SPECIFICATION ConsoleSpec
CONSTANTS
    left = left
    Tabs = {left, right}
    Fetches = {f1, f2}
    Requests = {left, right, f1, f2}
    TabOf <- MCTabOf
    Tokens = {t1, t2, t3}
    NoToken = NoToken
    NoFetch = NoFetch
    MaxPassword = 1
    Service = "console"
SYMMETRY MCSymmetry
CONSTRAINT MCBound
INVARIANTS ConsoleTypeOK OldSessionsOnlyCrossed SpentCookieHasSuccessor
PROPERTIES GivesUpOnlyWithoutToken
