CONSTANTS
    Declared <- MCConsistent
    KeyHash <- MCKeyHash
    MaxMessages = 1
SPECIFICATION Spec
INVARIANTS
    TypeOK
    WellTyped
    InputsFit
