SPECIFICATION Spec
CONSTANTS
    k1 = k1
    k2 = k2
    NoKey = NoKey
    Key = {k1, k2}
    Hash <- MCHash
    MaxCapacity = 8
    MaxCount = 6
INVARIANTS TypeOK IndInv GetFinds ForeachComplete
PROPERTY ImplementsBag
