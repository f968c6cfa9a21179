SPECIFICATION Spec
CONSTANTS
    Writers = {client}
    client = client
    MaxLines = 3
    MaxWritten = 14
INVARIANTS
    KeepsLatest
    LogBounded
