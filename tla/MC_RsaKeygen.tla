----------------------------- MODULE MC_RsaKeygen -----------------------------
(* Model-checking instances of RsaKeygen: one thread runs a method, one    *)
(* generates a key; they share the hardware initialisation.                *)
EXTENDS RsaKeygen, TLC

CONSTANTS t1, t2

BothThreads == {t1, t2}
MethodThread == {t1}
KeygenThread == {t2}
NoMethodThread == {}

AllOps == OpNames
RealBits == {"hw", "soft"}
FitLen == {"fits"}

\* Every class of the bits argument of RSA_generate_key_ex.
AllKgBits == {"tiny", "hw", "soft"}
HwKgBits == {"hw"}
=============================================================================
