SPECIFICATION FairSpec
CONSTANTS
    Size <- RowSize
    K = 2
    Infinity = 9
    Legit = Legit
    Fraud = Fraud
    Stores <- QuantizedStores
    Queries <- Row
    Environments <- Settings
    DefaultConfig <- Defaults
    EarlyExitFallback = 3
INVARIANTS
    TypeOK
    TopKExact
    VerdictExact
    WindowScanned
    ScannedPerRadius
PROPERTIES
    SearchEnds
CHECK_DEADLOCK FALSE
