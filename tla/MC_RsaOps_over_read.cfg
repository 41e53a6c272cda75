\* Inputs shorter than the modulus.
CONSTANTS
    t1 = t1
    t2 = t2
    NoThread = NoThread
    Threads <- OneThread
    OpThreads <- OneThread
    Ops <- AllOps
    Bits <- HwBits
    Lens <- ShortLen
SPECIFICATION Spec
INVARIANT CopyWithinInput
