\* One thread, every method on hardware-sized keys: the result BIGNUM is never freed.
CONSTANTS
    t1 = t1
    t2 = t2
    NoThread = NoThread
    Threads <- OneThread
    OpThreads <- OneThread
    Ops <- AllOps
    Bits <- HwBits
    Lens <- FitLen
SPECIFICATION Spec
INVARIANT NoLeak
