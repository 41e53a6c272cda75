------------------------------ MODULE MC_RsaOps ------------------------------
(* Model-checking instances of RsaOps. *)
EXTENDS RsaOps, TLC

CONSTANTS t1, t2

TwoThreads == {t1, t2}
OneThread == {t1}
ThreadSymmetry == Permutations(TwoThreads)

AllOps == OpNames
DecryptOnly == {"priv_dec"}
VerifyOnly == {"pub_verify"}

\* Modulus sizes the hardware takes and sizes it hands to software.
RealBits == {"hw", "soft"}
HwBits == {"hw"}
TinyBits == {"tiny"}

FitLen == {"fits"}
ShortLen == {"short"}
LongLen == {"long"}
=============================================================================
