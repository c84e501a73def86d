SPECIFICATION Spec
CONSTANTS
    Inserters = {i1, i2}
    Scanners = {s1}
    Rows = {1, 2, 3, 4, 5}
    RowSize <- MCRowSize
    PageSize = 8
    Header = 2
    SlotSize = 1
    MaxPages = 5
    Evicts = FALSE
    None = None
INVARIANTS TypeOK InsertedRowsReachable ScanComplete
PROPERTIES LinksStay RidNeverReused CallsEnd
CHECK_DEADLOCK FALSE
