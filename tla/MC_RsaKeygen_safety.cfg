\* A method thread (any method, inputs of the intended length) and a keygen
\* thread (any bits), with every failure of every step of both.
CONSTANTS
    t1 = t1
    t2 = t2
    NoThread = NoThread
    Threads <- BothThreads
    OpThreads <- MethodThread
    KgThreads <- KeygenThread
    Ops <- AllOps
    Bits <- RealBits
    Lens <- FitLen
    KgBits <- AllKgBits
    PrimeBits = 12
    PubExp = 3
SPECIFICATION EngineSpec
INVARIANT TypeOK
INVARIANT OutcomeMatchesSoft
INVARIANT EngineResourcesReleased
INVARIANT NoDoubleFree
INVARIANT InitOnce
INVARIANT KgTypeOK
INVARIANT KgStructsReleased
INVARIANT KgOutcomeMatchesSoft
INVARIANT PrimesValid
INVARIANT NoLengthRetry
INVARIANT ResourcesMatchPid
INVARIANT UninitSafe
PROPERTY ImplementsInitContract
