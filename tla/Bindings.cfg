SPECIFICATION BindingsSpec
CONSTANTS
    Users = {u1, u2}
    Devices = {d1}
    Codes = {c1, c2, c3}
    NoCode = NoCode
    Requests = {r1, r2}
    NoOne = NoOne
    Limit = 2
SYMMETRY MCSymmetry
INVARIANTS BindingsTypeOK ShownCodesHold CountersExpire
PROPERTIES BoundByCurrentCode CommandsComeFromBound
