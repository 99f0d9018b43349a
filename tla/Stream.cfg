SPECIFICATION EventSpec
CONSTANTS
    u1 = u1
    Users = {u1}
    Devices = {d1}
    Codes = {c1}
    NoCode = NoCode
    Requests = {r1}
    NoOne = NoOne
    Limit = 1
    Streams = {s1}
    UserOf <- MCUserOf
INVARIANTS StreamsTypeOK EndedStreamsLetGo
PROPERTIES FilterCatchesUp
