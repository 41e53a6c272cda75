\* A signature longer than the modulus passed to public_verify.
CONSTANTS
    t1 = t1
    t2 = t2
    NoThread = NoThread
    Threads <- OneThread
    OpThreads <- OneThread
    Ops <- VerifyOnly
    Bits <- HwBits
    Lens <- LongLen
SPECIFICATION Spec
INVARIANT OutcomeMatchesSoft
