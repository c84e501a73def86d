SPECIFICATION Spec
CONSTANTS
    Keys = {0, 1, 2, 4, 6}
    Values = {a, b}
    Hash <- MCHash
    HashBits = 3
    BucketSize = 2
    None = None
INVARIANT TableConsistent
PROPERTIES ImplementsMap InsertEnds
