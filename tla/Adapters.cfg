SPECIFICATION Spec
CONSTANTS
    Adapter = {a1, a2, a3}
    Addresses = {ip1, ip2}
    NoAdapter = NoAdapter
    Contained = {a1, a2}
    Room = 1
INVARIANTS
    FoundAgain
    FollowsAddress
PROPERTY
    SameAdapter
