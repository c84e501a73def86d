SPECIFICATION MCSpec
CONSTANTS
  PoolSize = 2
  K = 2
  Clients = {c1, c2}
  MaxPages = 3
  Data = {zero, d}
  Zero = zero
  NoPage = NoPage
  NoFrame = NoFrame
  Absent = Absent
  PinnedFlush = TRUE
INVARIANTS TypeOK PageTableMatchesFrames PinsAreHeld EvictNeverFails FlushAllDurable
PROPERTIES ImplementsPageStore WritesOwnContents
SYMMETRY ClientSymmetry
