------------------------------ MODULE RsaKeygen ------------------------------
(***************************************************************************)
(* Key generation, uadk_e_rsa_keygen (src/src/uadk_rsa.c), composed with   *)
(* the four methods of RsaOps: the threads share uadk_e_rsa_init and so    *)
(* the process-wide initialisation of RsaInit.                             *)
(*                                                                         *)
(* A keygen thread checks the size, initialises the hardware, allocates    *)
(* the parameter structs and bn_param->e, p, q (rsa_keygen_param_alloc),   *)
(* gets an engine session, generates p and q in software, copies e,        *)
(* builds kg_in and kg_out (rsa_fill_keygen_data), runs rsa_do_crypto,     *)
(* and hands the hardware's n, d and CRT values to the RSA object          *)
(* (rsa_get_keygen_param).  It unwinds through free_kg_in_out, free_sess   *)
(* and free_keygen, and on UADK_DO_SOFT runs the software keygen on the    *)
(* same RSA object.                                                        *)
(*                                                                         *)
(* What matters of a BIGNUM is who owns it: nobody yet, a NULL pointer,    *)
(* the keygen's locals, the RSA object, or nobody because it was freed;    *)
(* "dangling" is freed while the RSA object still points at it, "orphan"  *)
(* is allocated by BN_bin2bn(data, len, NULL) and dropped.  BIGNUM values  *)
(* are not modelled.                                                       *)
(***************************************************************************)
EXTENDS RsaOps, RsaPrimes

CONSTANTS
    KgBits          \* subset of {"tiny", "hw", "soft"}: the bits argument

ASSUME KgThreads \subseteq Threads /\ KgThreads \cap OpThreads = {}

VARIABLES
    kbits,          \* the bits argument (fixed)
    kpc,            \* step of uadk_e_rsa_keygen, "unwind", "soft", "done",
                    \* "crashed" (NULL dereference) or "corrupt" (use of a
                    \* freed BIGNUM)
    klabel,         \* the goto target being unwound
    kret,           \* ret: "none", "ok", "fail" or "dosoft"
    kres,           \* per struct: "none", "held", "freed" or "double"
    bn,             \* per BIGNUM: its owner
    kpq             \* the values of bn_param->p and bn_param->q

kgVars == <<kbits, kpc, klabel, kret, kres, bn, kpq, primeVars>>
engineVars == <<vars, kgVars>>

\* What the steps of the ladder leave alone, but for the call of
\* rsa_primes_gen and its return.
kgKept == <<kbits, kpq, primeVars>>

KgLadder ==
    <<"check", "init", "alloc", "sess", "primes", "copy", "fill", "crypto",
      "getparam">>

KgSteps == {KgLadder[i] : i \in 1 .. Len(KgLadder)}
KgPcVals == KgSteps \cup {"unwind", "soft", "done", "crashed", "corrupt"}
KgLabels == {"exe_soft", "free_keygen", "free_sess", "free_kg_in_out"}

\* keygen_param, bn_param and key_pair (one allocation together), the engine
\* session, and the wd kg_in and kg_out buffers.
KgRes == {"params", "sess", "kgin", "kgout"}

\* bn_param->e, p, q; then n, d and the CRT values of rsa_get_keygen_param.
ParamBns == {"e", "p", "q"}
CrtBns == {"dmp1", "dmq1", "iqmp"}
OutBns == {"n", "d"} \cup CrtBns
Bns == ParamBns \cup OutBns
BnVals == {"none", "null", "local", "orphan", "rsa", "freed", "dangling"}

IsNull(v) == v \in {"null", "orphan"}

(* Mutant: a session failure goes straight to exe_soft.                   *)
KgFailLabelSessToSoft(s) ==
    CASE s \in {"check", "init", "alloc", "sess"} -> "exe_soft"
      [] s \in {"primes", "copy", "fill"}         -> "free_sess"
      [] OTHER                                    -> "free_kg_in_out"

\* The labels the gotos of uadk_e_rsa_keygen jump to.
KgFailLabel(s) ==
    CASE s \in {"check", "init", "alloc"}   -> "exe_soft"
      [] s = "sess"                          -> "free_keygen"
      [] s \in {"primes", "copy", "fill"}    -> "free_sess"
      [] OTHER                               -> "free_kg_in_out"

\* What the ladder frees from each label down: rsa_free_keygen_data,
\* rsa_free_eng_session, rsa_keygen_param_free (the structs only).
KgFreed(l) ==
    CASE l = "free_kg_in_out" -> {"kgin", "kgout", "sess", "params"}
      [] l = "free_sess"      -> {"sess", "params"}
      [] l = "free_keygen"    -> {"params"}
      [] l = "exe_soft"       -> {}

\* The software keygen refuses a modulus below RSA_MIN_MODULUS_BITS.
KgSoftOk(t) == kbits[t] # "tiny"

KgPos(t) == CHOOSE i \in DOMAIN KgLadder : KgLadder[i] = kpc[t]
KgAdvance(t) == kpc' = [kpc EXCEPT ![t] = KgLadder[KgPos(t) + 1]]

KgGoto(t, l, r) ==
    /\ kpc' = [kpc EXCEPT ![t] = "unwind"]
    /\ klabel' = [klabel EXCEPT ![t] = l]
    /\ kret' = [kret EXCEPT ![t] = r]

KgFail(t) == KgGoto(t, KgFailLabel(kpc[t]), "dosoft")

KgHold(t, R) == kres' = [kres EXCEPT ![t] = [r \in KgRes |-> IF r \in R THEN "held" ELSE @[r]]]

KgCrash(t) == kpc' = [kpc EXCEPT ![t] = "crashed"] /\ UNCHANGED <<klabel, kret>>

\* rsa_get_keygen_param's hand-over of the BIGNUMs b (after BN_new and
\* BN_bin2bn) to a fresh RSA object: RSA_set0_key(rsa, n, e, d) &&
\* RSA_set0_factors(rsa, p, q) && RSA_set0_crt_params(rsa, dmp1, dmq1,
\* iqmp), each taking the non-NULL arguments and failing on a NULL one the
\* RSA object lacks (d may be NULL); on failure BN_clear_free of dmp1, dmq1,
\* iqmp, n and d, including those RSA_set0_key already took.
KeyOk(b) == ~IsNull(b["n"]) /\ ~IsNull(b["e"])
FactorsOk(b) == ~IsNull(b["p"]) /\ ~IsNull(b["q"])
CrtOk(b) == \A c \in CrtBns : ~IsNull(b[c])
Set0Ok(b) == KeyOk(b) /\ FactorsOk(b) /\ CrtOk(b)

Given(b) ==
    { x \in Bns : ~IsNull(b[x]) /\
        \/ x \in {"n", "e", "d"} /\ KeyOk(b)
        \/ x \in {"p", "q"} /\ KeyOk(b) /\ FactorsOk(b)
        \/ x \in CrtBns /\ Set0Ok(b) }

HandOver(b) ==
    [x \in Bns |->
        IF x \in Given(b) THEN IF Set0Ok(b) \/ x \notin OutBns THEN "rsa"
                                                         ELSE "dangling"
        ELSE IF ~Set0Ok(b) /\ x \in OutBns /\ b[x] = "local" THEN "freed"
        ELSE b[x]]

-----------------------------------------------------------------------------
(* Mutants of the keygen body, each placed before the step it replaces.    *)

\* the result of rsa_check_bit_useful returned as it is
KgCheckReturnsCode(t) ==
    /\ kpc[t] = "check"
    /\ IF CheckBitUseful(kbits[t]) = "ok"
          THEN KgAdvance(t) /\ UNCHANGED <<klabel, kret>>
          ELSE /\ kpc' = [kpc EXCEPT ![t] = "done"]
               /\ kret' = [kret EXCEPT ![t] = CheckBitUseful(kbits[t])]
               /\ UNCHANGED klabel
    /\ UNCHANGED <<kgKept, kres, bn>> /\ UNCHANGED initVars

\* if (ret) return ret; in place of if (ret != UADK_DO_SOFT) return ret;
KgUnwindReturnsDoSoft(t) ==
    /\ kpc[t] = "unwind"
    /\ kres' = [kres EXCEPT ![t] =
                 [r \in KgRes |-> IF r \in KgFreed(klabel[t]) THEN Free(@[r]) ELSE @[r]]]
    /\ kpc' = [kpc EXCEPT ![t] = "done"]
    /\ UNCHANGED <<kgKept, klabel, kret, bn>> /\ UNCHANGED initVars

-----------------------------------------------------------------------------
(* The steps of uadk_e_rsa_keygen.                                         *)

\* key_size = rsa_check_bit_useful(bits, 0); if (!key_size || key_size ==
\* SOFT) goto exe_soft.
KgCheck(t) ==
    /\ kpc[t] = "check"
    /\ IF CheckBitUseful(kbits[t]) = "ok"
          THEN KgAdvance(t) /\ UNCHANGED <<klabel, kret>>
          ELSE KgGoto(t, "exe_soft", "dosoft")
    /\ UNCHANGED <<kgKept, kres, bn>> /\ UNCHANGED initVars

\* ret = uadk_e_rsa_init(): the call ...
KgCallInit(t) ==
    /\ kpc[t] = "init"
    /\ ipc[t] = "idle"
    /\ ipc' = [ipc EXCEPT ![t] = "check"]
    /\ UNCHANGED initShared /\ UNCHANGED kgVars

\* ... and its return: if (ret) goto exe_soft.
KgInitReturn(t) ==
    /\ kpc[t] = "init"
    /\ ipc[t] = "done"
    /\ ipc' = [ipc EXCEPT ![t] = "idle"]
    /\ IF iret[t] = "ok" THEN KgAdvance(t) /\ UNCHANGED <<klabel, kret>>
                         ELSE KgGoto(t, "exe_soft", "dosoft")
    /\ UNCHANGED initShared /\ UNCHANGED <<kgKept, kres, bn>>

\* rsa_keygen_param_alloc: the three structs, or -ENOMEM after freeing the
\* ones it got; then BN_new for e, p and q, whose results are not checked.
KgAlloc(t) ==
    /\ kpc[t] = "alloc"
    /\ \/ KgGoto(t, "exe_soft", "dosoft") /\ UNCHANGED <<kres, bn>>
       \/ /\ KgHold(t, {"params"})
          /\ \E nulls \in SUBSET ParamBns :
               bn' = [bn EXCEPT ![t] = [x \in Bns |->
                        IF x \in nulls THEN "null"
                        ELSE IF x \in ParamBns THEN "local" ELSE @[x]]]
          /\ KgAdvance(t) /\ UNCHANGED <<klabel, kret>>
    /\ UNCHANGED kgKept /\ UNCHANGED initVars

\* rsa_get_eng_session (which frees its own half-built session).
KgSess(t) ==
    /\ kpc[t] = "sess"
    /\ \/ KgHold(t, {"sess"}) /\ KgAdvance(t) /\ UNCHANGED <<klabel, kret>>
       \/ KgFail(t) /\ UNCHANGED kres
    /\ UNCHANGED <<kgKept, bn>> /\ UNCHANGED initVars

\* ret = rsa_primes_gen(bits, e, bn_param->p, bn_param->q, cb): the call ...
KgCallPrimes(t) ==
    /\ kpc[t] = "primes"
    /\ ppc[t] = "idle"
    /\ ppc' = [ppc EXCEPT ![t] = "start"]
    /\ UNCHANGED <<num, bitse, rsa_p, rsa_q, pret, retries>>
    /\ UNCHANGED <<kbits, kpc, klabel, kret, kres, bn, kpq>> /\ UNCHANGED initVars

\* ... and its end.  After the loop, switch_p_q: the larger prime first,
\* then BN_copy(q, rsa_q) and BN_copy(p, rsa_p), whose results are not
\* checked (a copy that cannot allocate leaves its target as it was), and
\* which dereference a NULL p or q; ret = UADK_E_SUCCESS.  From err,
\* rsa_primes_gen returns ret as it stands.  BN_CTX_end and BN_CTX_free
\* drop rsa_p, rsa_q and the locals.  The caller: if (!ret) goto free_sess.
KgPrimesReturn(t) ==
    LET hi == IF rsa_p[t] < rsa_q[t] THEN rsa_q[t] ELSE rsa_p[t]
        lo == IF rsa_p[t] < rsa_q[t] THEN rsa_p[t] ELSE rsa_q[t]
    IN
    /\ kpc[t] = "primes"
    /\ ppc[t] \in {"switch", "err"}
    /\ ppc' = [ppc EXCEPT ![t] = "idle"]
    /\ IF ppc[t] = "switch"
          THEN IF IsNull(bn[t]["p"]) \/ IsNull(bn[t]["q"])
                  THEN KgCrash(t) /\ UNCHANGED kpq
                  ELSE /\ \E cp, cq \in BOOLEAN :
                            kpq' = [kpq EXCEPT ![t] = [p |-> IF cp THEN hi ELSE @.p,
                                                       q |-> IF cq THEN lo ELSE @.q]]
                       /\ KgAdvance(t) /\ UNCHANGED <<klabel, kret>>
          ELSE /\ UNCHANGED kpq
               /\ IF pret[t] = 0 THEN KgFail(t)
                                  ELSE KgAdvance(t) /\ UNCHANGED <<klabel, kret>>
    /\ num' = [num EXCEPT ![t] = 0]
    /\ bitse' = [bitse EXCEPT ![t] = 0]
    /\ rsa_p' = [rsa_p EXCEPT ![t] = 0]
    /\ rsa_q' = [rsa_q EXCEPT ![t] = 0]
    /\ pret' = [pret EXCEPT ![t] = 0]
    /\ UNCHANGED retries
    /\ UNCHANGED <<kbits, kres, bn>> /\ UNCHANGED initVars

\* if (!BN_copy(bn_param->e, e)) goto free_sess; a NULL bn_param->e is
\* dereferenced.
KgCopy(t) ==
    /\ kpc[t] = "copy"
    /\ IF IsNull(bn[t]["e"])
          THEN KgCrash(t)
          ELSE \/ KgAdvance(t) /\ UNCHANGED <<klabel, kret>>
               \/ KgFail(t)
    /\ UNCHANGED <<kgKept, kres, bn>> /\ UNCHANGED initVars

\* rsa_fill_keygen_data: the key lookups of the session may fail, then
\* wd_rsa_new_kg_in and wd_rsa_new_kg_out; every failure returns
\* UADK_E_FAIL and the keygen goes to free_sess.
KgFill(t) ==
    /\ kpc[t] = "fill"
    /\ \/ KgFail(t) /\ UNCHANGED kres
       \/ KgFail(t) /\ KgHold(t, {"kgin"})
       \/ KgHold(t, {"kgin", "kgout"}) /\ KgAdvance(t) /\ UNCHANGED <<klabel, kret>>
    /\ UNCHANGED <<kgKept, bn>> /\ UNCHANGED initVars

\* ret = rsa_do_crypto(rsa_sess); if (!ret || req.status) goto
\* free_kg_in_out.
KgCrypto(t) ==
    /\ kpc[t] = "crypto"
    /\ \/ KgAdvance(t) /\ UNCHANGED <<klabel, kret>>
       \/ KgFail(t)
    /\ UNCHANGED <<kgKept, kres, bn>> /\ UNCHANGED initVars

\* rsa_get_keygen_param: BN_new for dmp1, dmq1, iqmp, n and d, unchecked;
\* BN_bin2bn into a NULL one allocates a BIGNUM that is dropped (or fails);
\* then the hand-over.  Success falls through to free_kg_in_out.
KgGetParam(t) ==
    /\ kpc[t] = "getparam"
    /\ \E got \in [OutBns -> {"local", "orphan", "null"}] :
         LET b == [x \in Bns |-> IF x \in OutBns THEN got[x] ELSE bn[t][x]] IN
         /\ bn' = [bn EXCEPT ![t] = HandOver(b)]
         /\ IF Set0Ok(b) THEN KgGoto(t, "free_kg_in_out", "ok") ELSE KgFail(t)
    /\ UNCHANGED <<kgKept, kres>> /\ UNCHANGED initVars

\* free_kg_in_out, free_sess, free_keygen fall through; then return ret
\* unless it is UADK_DO_SOFT.
KgUnwind(t) ==
    /\ kpc[t] = "unwind"
    /\ kres' = [kres EXCEPT ![t] =
                 [r \in KgRes |-> IF r \in KgFreed(klabel[t]) THEN Free(@[r]) ELSE @[r]]]
    /\ kpc' = [kpc EXCEPT ![t] = IF kret[t] = "dosoft" THEN "soft" ELSE "done"]
    /\ UNCHANGED <<kgKept, klabel, kret, bn>> /\ UNCHANGED initVars

\* exe_soft: uadk_e_soft_rsa_keygen, RSA_generate_key_ex with the software
\* method on the same RSA object.  It reuses every BIGNUM the object already
\* holds and allocates the others; using a freed one is undefined.
KgSoft(t) ==
    /\ kpc[t] = "soft"
    /\ IF \E x \in Bns : bn[t][x] = "dangling"
          THEN kpc' = [kpc EXCEPT ![t] = "corrupt"] /\ UNCHANGED kret
          ELSE /\ kpc' = [kpc EXCEPT ![t] = "done"]
               /\ kret' = [kret EXCEPT ![t] = IF KgSoftOk(t) THEN "ok" ELSE "fail"]
    /\ UNCHANGED <<kgKept, klabel, kres, bn>> /\ UNCHANGED initVars
-----------------------------------------------------------------------------
(* The methods and key generation together.                                *)

KgInit ==
    /\ kbits \in [KgThreads -> KgBits]
    /\ kpc = [t \in KgThreads |-> "check"]
    /\ klabel = [t \in KgThreads |-> "exe_soft"]
    /\ kret = [t \in KgThreads |-> "none"]
    /\ kres = [t \in KgThreads |-> [r \in KgRes |-> "none"]]
    /\ bn = [t \in KgThreads |-> [x \in Bns |-> "none"]]
    /\ kpq = [t \in KgThreads |-> [p |-> 0, q |-> 0]]
    /\ PrimeInit

KgStep(t) ==
    \/ KgCheck(t) \/ KgCallInit(t) \/ (InitStep(t) /\ UNCHANGED kgVars)
    \/ KgInitReturn(t) \/ KgAlloc(t) \/ KgSess(t) \/ KgCallPrimes(t)
    \/ (PrimeStep(t) /\ UNCHANGED <<kbits, kpc, klabel, kret, kres, bn, kpq>>
                      /\ UNCHANGED initVars)
    \/ KgPrimesReturn(t)
    \/ KgCopy(t) \/ KgFill(t) \/ KgCrypto(t) \/ KgGetParam(t)
    \/ KgUnwind(t) \/ KgSoft(t)

\* A NULL dereference ends the process; after a use of freed memory nothing
\* more is modelled.
Halted == \E t \in KgThreads : kpc[t] \in {"crashed", "corrupt"}

OpThreadStep(t) == ~Halted /\ ThreadStep(t) /\ UNCHANGED kgVars
KgThreadStep(t) == ~Halted /\ KgStep(t) /\ UNCHANGED opVars

EngineFinished ==
    \/ Halted
    \/ Finished /\ \A t \in KgThreads : kpc[t] = "done"

\* uadk_e_destroy_rsa when the engine is freed, after every thread has
\* returned: uadk_e_delete_rsa_meth (the method tables) and
\* uadk_e_rsa_uninit.
EngineDestroy ==
    /\ ~Halted
    /\ Finished /\ \A t \in KgThreads : kpc[t] = "done"
    /\ Uninit
    /\ UNCHANGED <<opVars, kgVars>>

EngineInit == Init /\ KgInit

EngineNext ==
    \/ \E t \in OpThreads : OpThreadStep(t)
    \/ \E t \in KgThreads : KgThreadStep(t)
    \/ EngineDestroy
    \/ EngineFinished /\ UNCHANGED engineVars

EngineSpec ==
    /\ EngineInit /\ [][EngineNext]_engineVars
    /\ \A t \in OpThreads : WF_engineVars(OpThreadStep(t))
    /\ \A t \in KgThreads : WF_engineVars(KgThreadStep(t))

-----------------------------------------------------------------------------
KgTypeOK ==
    /\ kbits \in [KgThreads -> KgBits]
    /\ kpc \in [KgThreads -> KgPcVals]
    /\ klabel \in [KgThreads -> KgLabels]
    /\ kret \in [KgThreads -> {"none", "ok", "fail", "dosoft"}]
    /\ kres \in [KgThreads -> [KgRes -> {"none", "held", "freed", "double"}]]
    /\ bn \in [KgThreads -> [Bns -> BnVals]]
    /\ kpq \in [KgThreads -> [{"p", "q"} -> 0 .. 2^bitsr[0] - 1]]
    /\ PrimeTypeOK

(* Safety: whatever step of the hardware keygen fails, the parameter       *)
(* structs and the engine session are released exactly once before the    *)
(* keygen returns or runs the software keygen (the labels free_kg_in_out,  *)
(* free_sess and free_keygen the gotos of uadk_e_rsa_keygen pick).         *)
KgStructsReleased ==
    \A t \in KgThreads :
        /\ kpc[t] \in {"soft", "done"} =>
              \A r \in {"params", "sess"} : kres[t][r] \in {"none", "freed"}
        /\ \A r \in KgRes : kres[t][r] # "double"

(* Safety: a keygen that returns reports success exactly when the software *)
(* keygen would (the modulus is not below 512 bits): a failure of the      *)
(* hardware path is never reported to the caller.                          *)
KgOutcomeMatchesSoft ==
    \A t \in KgThreads : kpc[t] = "done" => ((kret[t] = "ok") = KgSoftOk(t))

(* Safety: when uadk_e_rsa_keygen leaves the hardware path (to return or   *)
(* to run the software keygen), everything it allocated is freed or owned  *)
(* by the RSA object (bn_param->e, p, q; kg_in and kg_out; the BIGNUMs of  *)
(* rsa_get_keygen_param), and the RSA object owns no freed BIGNUM.         *)
KeygenOwnership ==
    \A t \in KgThreads : kpc[t] \in {"soft", "done"} =>
        /\ \A r \in KgRes : kres[t][r] # "held"
        /\ \A x \in Bns : bn[t][x] \in {"none", "null", "rsa", "freed"}

\* uadk_e_rsa_init seen from its callers: a thread is inside the call from
\* the unlocked pid check to the unlock, and the pid is the contract's
\* initialised flag.
InitContract == INSTANCE RsaInitContract WITH
    inited <- pid,
    calling <- [t \in Threads |-> ipc[t] \in {"check", "lock", "locked"}],
    result <- iret

(* Refinement: uadk_e_rsa_init, however the method and keygen threads      *)
(* interleave through its unlocked check, the spinlock and the re-check,   *)
(* behaves as an atomic call: it succeeds without effect once the process  *)
(* is initialised, and otherwise fails leaving the pid unset or sets it    *)
(* and succeeds; teardown clears the pid only while no call is running.    *)
ImplementsInitContract == InitContract!Spec

(* Safety: when rsa_primes_gen leaves its loop for switch_p_q, rsa_p and   *)
(* rsa_q are two distinct primes, each with prime - 1 invertible modulo    *)
(* e, whose product has exactly the key's bits: the split of bitsr, the    *)
(* equality check of check_prime_equal, the inverse of check_prime_useful  *)
(* and the length test of check_prime_sufficient together, over every      *)
(* prime BN_generate_prime_ex may return.                                  *)
PrimesValid ==
    \A t \in KgThreads :
        ppc[t] = "switch" => KeyPrimes(rsa_p[t], rsa_q[t], PrimeBits, PubExp)

(* Safety: for two primes whose top two bits are set, the length test of   *)
(* check_prime_sufficient never fails ("This actually can't happen in     *)
(* two-prime case"), so the function-static retries, shared by every      *)
(* thread without a lock, is never written by a REDO and stays 0.          *)
NoLengthRetry == retries = 0

(* Safety: once uadk_e_rsa_keygen has taken the return of rsa_primes_gen   *)
(* as success (it goes on to copy e and fill the hardware request), the    *)
(* caller's bn_param->p and bn_param->q hold a valid pair of primes, the   *)
(* larger in p.                                                            *)
KgPrimesGenerated ==
    \A t \in KgThreads :
        kpc[t] \in {"copy", "fill", "crypto", "getparam"} =>
            /\ kpq[t].p > kpq[t].q
            /\ KeyPrimes(kpq[t].p, kpq[t].q, PrimeBits, PubExp)
=============================================================================
