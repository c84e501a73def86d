\* Two threads, two requests each: both set up databases and tables at once,
\* and a switch falls between any two steps of the other's request.
SPECIFICATION Spec
CONSTANTS
    Sessions = {s1, s2}
    Batches <- Requests
    MaxRequests = 2
    Default = "default"
    NoOne = NoOne
INVARIANTS StatementsHitTheirTable CreatesOnce CurrentNamesCatalog
PROPERTIES CatalogsKept BatchesEnd
