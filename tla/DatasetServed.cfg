SPECIFICATION Spec
CONSTANTS
    Unit = 4
    Levels = 8
    BucketCount = 4
    CountWord = 4
    Legit = Legit
    Fraud = Fraud
    Missing = Missing
    Servers = {v1}
    Inputs = {"references.json.gz", "example-references.json", "old.bin"}
    Disks <- FreshDisks
INVARIANTS
    TypeOK
    ServedComplete
    ServedPlaced
    ServedNearby
    WholeFileServed
