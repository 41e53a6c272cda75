\* A keygen thread alone, on a size the hardware takes.
CONSTANTS
    t1 = t1
    t2 = t2
    NoThread = NoThread
    Threads <- KeygenThread
    OpThreads <- NoMethodThread
    KgThreads <- KeygenThread
    Ops <- AllOps
    Bits <- RealBits
    Lens <- FitLen
    KgBits <- HwKgBits
    PrimeBits = 12
    PubExp = 3
SPECIFICATION EngineSpec
INVARIANT KeygenOwnership
