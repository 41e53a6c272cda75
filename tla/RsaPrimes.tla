------------------------------ MODULE RsaPrimes ------------------------------
(***************************************************************************)
(* rsa_primes_gen (src/src/uadk_rsa.c), which uadk_e_rsa_keygen calls to   *)
(* find p and q in software before the hardware computes the rest of the   *)
(* key.  It splits the bits into bitsr[0..1], and for each i draws primes  *)
(* of bitsr[i] bits (get_prime_once) until one differs from the earlier    *)
(* prime (check_prime_equal) and has prime - 1 invertible modulo e_pub     *)
(* (check_prime_useful); check_prime_sufficient then tests the top four    *)
(* bits of p * q and may ask for q again (BN_REDO) or, after four such     *)
(* retries counted in a function-static variable, for p again.  The        *)
(* caller's p and q are written last, by switch_p_q, which RsaKeygen       *)
(* models because it dereferences the caller's BIGNUMs.                    *)
(*                                                                         *)
(* The numbers are real but small: the key size is PrimeBits, and          *)
(* BN_generate_prime_ex(prime, b, 0, ...) returns any prime of b bits      *)
(* whose top two bits are set (OpenSSL's probable_prime draws with          *)
(* BN_RAND_TOP_TWO).  Every BN call and BN_GENCB_call may fail: an         *)
(* allocation failure or a callback that cancels the generation.           *)
(***************************************************************************)
EXTENDS Integers, Bitwise

CONSTANTS
    KgThreads,      \* the threads that generate keys
    PrimeBits,      \* the bits argument of rsa_primes_gen, scaled down
    PubExp          \* e_pub

ASSUME PrimeBits \in 8 .. 16 /\ PubExp \in 3 .. 257

VARIABLES
    ppc,            \* per thread: "idle", "start", "gen" (get_prime_once),
                    \* "suff" (check_prime_sufficient), "switch" (all primes
                    \* found) or "err" (the err label)
    num,            \* per thread: i of the loop, *num of check_prime_sufficient
    bitse,          \* per thread: bits of the primes accepted so far
    rsa_p, rsa_q,   \* per thread: the BN_CTX_get BIGNUMs the primes go into
    pret,           \* per thread: ret of rsa_primes_gen
    retries         \* the static int retries of check_prime_sufficient

primeVars == <<ppc, num, bitse, rsa_p, rsa_q, pret, retries>>

RSA_MAX_PRIME_NUM == 2

(* Mutant: bitsr[i] = (i <= rmd) ? quo + 1 : quo *)
SplitBitsLe(bits) ==
    [i \in 0 .. RSA_MAX_PRIME_NUM - 1 |->
        IF i <= bits % RSA_MAX_PRIME_NUM THEN bits \div RSA_MAX_PRIME_NUM + 1
                                         ELSE bits \div RSA_MAX_PRIME_NUM]

\* bitsr[]: bits divided into RSA_MAX_PRIME_NUM pieces, the first rmd of
\* them one bit longer.
SplitBits(bits) ==
    [i \in 0 .. RSA_MAX_PRIME_NUM - 1 |->
        IF i < bits % RSA_MAX_PRIME_NUM THEN bits \div RSA_MAX_PRIME_NUM + 1
                                        ELSE bits \div RSA_MAX_PRIME_NUM]

bitsr == SplitBits(PrimeBits)

IsPrime(x) == x > 1 /\ \A d \in 2 .. x - 1 : x % d # 0

\* The primes BN_generate_prime_ex(prime, b, 0, NULL, NULL, cb) may return.
GenPrimes(b) == {x \in 2^(b - 1) + 2^(b - 2) .. 2^b - 1 : IsPrime(x)}

\* BN_mod_inverse(r1, r2, e_pub) finds r1 with (r2 * r1) % e_pub == 1.
HasInverse(a, m) == \E r \in 1 .. m - 1 : (a * r) % m = 1

(* Mutant: BN_rshift(r2, r1, bitse - 3) *)
LengthOkShift3(r1, be) == shiftR(r1, be - 3) \in 9 .. 15

\* check_prime_sufficient: BN_rshift(r2, r1, bitse - 4), and bitst = the
\* word of r2 must lie in 0x9 .. 0xF.
LengthOk(r1, be) == shiftR(r1, be - 4) \in 9 .. 15

\* Reference: two primes for an RSA key of `bits' bits with exponent e.
KeyPrimes(a, b, bits, e) ==
    /\ IsPrime(a) /\ IsPrime(b) /\ a # b
    /\ HasInverse(a - 1, e) /\ HasInverse(b - 1, e)
    /\ 2^(bits - 1) <= a * b /\ a * b < 2^bits

\* set_primes: prime is rsa_p for i = 0 and rsa_q otherwise.
SetPrime(t, x) ==
    IF num[t] = 0 THEN rsa_p' = [rsa_p EXCEPT ![t] = x] /\ UNCHANGED rsa_q
                  ELSE rsa_q' = [rsa_q EXCEPT ![t] = x] /\ UNCHANGED rsa_p

PGoto(t, l) == ppc' = [ppc EXCEPT ![t] = l]

\* flag = 0: the next i of the for loop, or switch_p_q after the last.
NextPrime(t, i) ==
    /\ num' = [num EXCEPT ![t] = i + 1]
    /\ PGoto(t, IF i + 1 = RSA_MAX_PRIME_NUM THEN "switch" ELSE "gen")

-----------------------------------------------------------------------------
(* The steps of rsa_primes_gen.                                            *)

\* BN_CTX_new and the four BN_CTX_get (a failure returns ret = 0); then
\* bitsr, and the loop starts with i = 0.  BN_CTX_get gives zeroed BIGNUMs.
PgStart(t) ==
    /\ ppc[t] = "start"
    /\ pret' = [pret EXCEPT ![t] = 0]
    /\ \/ PGoto(t, "err") /\ UNCHANGED <<num, bitse, rsa_p, rsa_q>>
       \/ /\ PGoto(t, "gen")
          /\ num' = [num EXCEPT ![t] = 0]
          /\ bitse' = [bitse EXCEPT ![t] = 0]
          /\ rsa_p' = [rsa_p EXCEPT ![t] = 0]
          /\ rsa_q' = [rsa_q EXCEPT ![t] = 0]
    /\ UNCHANGED retries

\* One round of get_prime_once's while (1): BN_generate_prime_ex into
\* prime; check_prime_equal against the earlier prime; check_prime_useful.
\* An equal or useless prime means another round; a failure of any BN call
\* or callback returns BN_ERR and rsa_primes_gen goes to err with ret as it
\* stands.  Then bitse += bitsr[i].
PgGen(t) ==
    /\ ppc[t] = "gen"
    /\ \/ PGoto(t, "err") /\ UNCHANGED <<bitse, rsa_p, rsa_q>>
       \/ \E x \in GenPrimes(bitsr[num[t]]) :
            /\ SetPrime(t, x)
            /\ IF (num[t] = 1 /\ x = rsa_p[t]) \/ ~HasInverse(x - 1, PubExp)
                  THEN UNCHANGED <<ppc, bitse>>
                  ELSE /\ PGoto(t, "suff")
                       /\ bitse' = [bitse EXCEPT ![t] = @ + bitsr[num[t]]]
    /\ UNCHANGED <<num, pret, retries>>

\* check_prime_sufficient and the loop's test of what it returns.  For
\* i = 0, prime_mul_res returns BN_CONTINUE.  For i = 1, r1 = p * q and the
\* length test: on success retries = 0 and BN_VALID; on failure bitse
\* loses bitsr[1] and either BN_REDO (draw q again) or, when retries has
\* reached 4, *num = -1, bitse = 0, retries = 0 and BN_CONTINUE (the for
\* loop's i++ then draws p again).  BN_mul, BN_rshift or a callback may
\* fail: BN_ERR, goto err.
PgSuff(t) ==
    LET i == num[t] IN
    /\ ppc[t] = "suff"
    /\ \/ /\ PGoto(t, "err")
          /\ pret' = [pret EXCEPT ![t] = -1]
          /\ UNCHANGED <<num, bitse, retries>>
       \/ /\ i = 0
          /\ pret' = [pret EXCEPT ![t] = 1]
          /\ NextPrime(t, i)
          /\ UNCHANGED <<bitse, retries>>
       \/ /\ i = 1
          /\ IF LengthOk(rsa_p[t] * rsa_q[t], bitse[t])
                THEN /\ pret' = [pret EXCEPT ![t] = 0]
                     /\ retries' = 0
                     /\ NextPrime(t, i)
                     /\ UNCHANGED bitse
                ELSE /\ PGoto(t, "gen")
                     /\ IF retries = 4
                           THEN /\ num' = [num EXCEPT ![t] = 0]
                                /\ bitse' = [bitse EXCEPT ![t] = 0]
                                /\ retries' = 0
                                /\ pret' = [pret EXCEPT ![t] = 1]
                           ELSE /\ bitse' = [bitse EXCEPT ![t] = @ - bitsr[i]]
                                /\ retries' = retries + 1
                                /\ pret' = [pret EXCEPT ![t] = -2]
                                /\ UNCHANGED num
    /\ UNCHANGED <<rsa_p, rsa_q>>

PrimeStep(t) == PgStart(t) \/ PgGen(t) \/ PgSuff(t)

PrimeInit ==
    /\ ppc = [t \in KgThreads |-> "idle"]
    /\ num = [t \in KgThreads |-> 0]
    /\ bitse = [t \in KgThreads |-> 0]
    /\ rsa_p = [t \in KgThreads |-> 0]
    /\ rsa_q = [t \in KgThreads |-> 0]
    /\ pret = [t \in KgThreads |-> 0]
    /\ retries = 0

PrimeTypeOK ==
    /\ ppc \in [KgThreads -> {"idle", "start", "gen", "suff", "switch", "err"}]
    /\ num \in [KgThreads -> 0 .. RSA_MAX_PRIME_NUM]
    /\ bitse \in [KgThreads -> 0 .. PrimeBits]
    /\ rsa_p \in [KgThreads -> 0 .. 2^bitsr[0] - 1]
    /\ rsa_q \in [KgThreads -> 0 .. 2^bitsr[1] - 1]
    /\ pret \in [KgThreads -> {-2, -1, 0, 1}]
    /\ retries \in 0 .. 4
=============================================================================
