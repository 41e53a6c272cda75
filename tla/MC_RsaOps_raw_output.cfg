\* A private decryption of a malformed ciphertext on the hardware path.
CONSTANTS
    t1 = t1
    t2 = t2
    NoThread = NoThread
    Threads <- OneThread
    OpThreads <- OneThread
    Ops <- DecryptOnly
    Bits <- HwBits
    Lens <- FitLen
SPECIFICATION Spec
INVARIANT PrivateFailureLeavesNoRaw
