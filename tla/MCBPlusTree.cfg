SPECIFICATION Spec
CONSTANTS
    Keys = {1, 2, 3, 4, 5, 6}
    Rid <- MCRid
    Pages = {1, 2, 3, 4, 5, 6, 7, 8, 9, 10, 11, 12}
    LeafMax = 3
    InternalMax = 3
    None = None
INVARIANT TreeConsistent
PROPERTY ImplementsMap
