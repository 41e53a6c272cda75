------------------------------- MODULE RsaOps -------------------------------
(***************************************************************************)
(* The four RSA methods of the hardware RSA_METHOD (src/src/uadk_rsa.c):   *)
(* uadk_e_rsa_public_encrypt, uadk_e_rsa_private_decrypt,                  *)
(* uadk_e_rsa_private_sign and uadk_e_rsa_public_verify.  Each one checks  *)
(* its input, calls uadk_e_rsa_init, acquires the key parameters, an       *)
(* engine session, a BN_CTX with from_buf, builds the request, runs        *)
(* rsa_do_crypto, converts the result, and leaves through a goto ladder    *)
(* (free_buf, free_sess, free_pkey) that ends either in a return or in     *)
(* exe_soft, the OpenSSL software method on the same arguments.            *)
(*                                                                         *)
(* A thread runs one operation on one input.  The input is abstracted to   *)
(* what decides the control flow: whether the arguments are valid, the     *)
(* class of the modulus size, the length of `from' relative to the modulus *)
(* and whether the data is well formed for the padding.  The caller's      *)
(* output buffer `to' is abstracted to what it holds.  rsa_do_crypto is    *)
(* one step with its three outcomes (RsaAsync models how it gets them).    *)
(***************************************************************************)
EXTENDS RsaInit, Sequences, FiniteSets

CONSTANTS
    OpThreads,      \* the threads (of Threads) that run the methods
    Ops,            \* subset of OpNames run by the threads
    Bits,           \* subset of {"tiny", "hw", "soft"}: RSA_bits(rsa) < 512,
                    \* one of 1024/2048/3072/4096, any other size
    Lens            \* subset of {"fits", "short", "long"}: flen relative to
                    \* the modulus (for decrypt and verify "fits" is exactly
                    \* BN_num_bytes(n); for encrypt and sign "fits" and
                    \* "short" both leave room for the padding)

ASSUME OpThreads \subseteq Threads

VARIABLES
    op, in,         \* the method a thread runs and its input (fixed)
    pc,             \* the step of the method, "unwind", "soft" or "done"
    label,          \* the goto target being unwound
    ret,            \* the method's ret: "none", "ok", "fail" or "dosoft"
    res,            \* per thread, per resource: "none", "held", "freed", "double"
    to,             \* what the caller's output buffer holds
    src,            \* what req.src holds when the hardware runs
    overRead        \* a memcpy read past the end of `from'

opVars == <<op, in, pc, label, ret, res, to, src, overRead>>
vars == <<opVars, initVars>>

OpNames == {"pub_enc", "priv_dec", "priv_sign", "pub_verify"}

Inputs == [args : BOOLEAN, bits : Bits, len : Lens, wellFormed : BOOLEAN]

\* Memory the methods allocate: the key parameter struct, the engine session
\* (with its wd session), the BN_CTX, from_buf, and the BIGNUM that
\* BN_bin2bn(dst, len, NULL) allocates for the hardware result.
EngineRes == {"pkey", "sess", "bnctx", "frombuf"}
Res == EngineRes \cup {"retbn"}

\* Contents of `to': untouched, the raw RSA primitive the hardware wrote to
\* req.dst (= to), the primitive of other data than the caller's, what the
\* hardware left after reporting an error, the method's correct output, a
\* wrong output.
ToVals == {"none", "raw", "rawbad", "junk", "out", "wrong"}

\* The steps of each method, in the order of the code.
PubEncLadder ==
    <<"check", "init", "pkey", "sess", "bnctx", "flen", "pad", "fill",
      "crypto", "retbn", "binpad">>
PriDecLadder ==
    <<"check", "init", "pkey", "sess", "bnctx", "flen", "fill", "crypto",
      "retbn", "padchk">>
PriSignLadder ==
    <<"check", "init", "pkey", "sess", "bnctx", "tobn", "flen", "pad",
      "bin2bn", "fill", "crypto", "retbn", "signres", "binpad">>
PubVerifyLadder ==
    <<"check", "init", "pkey", "sess", "bnctx", "tobn", "bin2bn", "fill",
      "crypto", "retbn", "verifyres", "padchk">>

Ladder(o) ==
    CASE o = "pub_enc"    -> PubEncLadder
      [] o = "priv_dec"   -> PriDecLadder
      [] o = "priv_sign"  -> PriSignLadder
      [] o = "pub_verify" -> PubVerifyLadder

Steps == UNION {{Ladder(o)[i] : i \in 1 .. Len(Ladder(o))} : o \in OpNames}
PcVals == Steps \cup {"unwind", "soft", "done"}
Labels == {"exe_soft", "free_pkey", "free_sess", "free_buf"}

\* rsa_check_bit_useful: its first test (!flen && flen > bits) never holds.
CheckBitUseful(bits) ==
    CASE bits = "tiny" -> "fail"      \* UADK_E_FAIL
      [] bits = "hw"   -> "ok"        \* UADK_E_SUCCESS
      [] bits = "soft" -> "soft"      \* SOFT

\* check_rsa_input_para
CheckInputPara(i) == IF i.args THEN CheckBitUseful(i.bits) ELSE "fail"

\* The software method (RSA_PKCS1_OpenSSL) succeeds on valid arguments and
\* data whose length it accepts: it rejects flen > BN_num_bytes(n) and
\* left-pads a shorter input; the modulus size class does not matter to it.
SoftOk(t) == in[t].args /\ in[t].wellFormed /\ in[t].len # "long"

\* What the request's source buffer holds after rsa_fill_*key and the
\* memcpy of req.src_bytes (= key_size) bytes: encrypt and sign copy the
\* padded from_buf; decrypt and verify copy from `from' itself, which holds
\* only flen bytes.
SrcOf(t) ==
    IF op[t] \in {"pub_enc", "priv_sign"} \/ in[t].len = "fits" THEN "ok"
    ELSE IF in[t].len = "short" THEN "overread"
    ELSE "truncated"

(* Mutants of the labels: the session is skipped when the BN_CTX cannot   *)
(* be created; the BN_CTX failure unwinds through free_buf.               *)
FailLabelSkipSess(s) ==
    CASE s \in {"check", "init", "pkey"} -> "exe_soft"
      [] s \in {"sess", "bnctx"} -> "free_pkey"
      [] OTHER -> "free_buf"

FailLabelBnctxToBuf(s) ==
    CASE s \in {"check", "init", "pkey"} -> "exe_soft"
      [] s = "sess" -> "free_pkey"
      [] OTHER -> "free_buf"

\* The labels the gotos of each step jump to.
FailLabel(s) ==
    CASE s \in {"check", "init", "pkey"} -> "exe_soft"
      [] s = "sess"  -> "free_pkey"
      [] s = "bnctx" -> "free_sess"
      [] OTHER       -> "free_buf"

\* What the ladder frees from each label down: rsa_free_*_bn_ctx,
\* rsa_free_eng_session, rsa_pkey_param_free.
Freed(l) ==
    CASE l = "free_buf"  -> {"bnctx", "frombuf", "sess", "pkey"}
      [] l = "free_sess" -> {"sess", "pkey"}
      [] l = "free_pkey" -> {"pkey"}
      [] l = "exe_soft"  -> {}

\* Freeing a NULL pointer does nothing; freeing a dangling one is a double free.
Free(s) == CASE s = "held"  -> "freed"
             [] s = "freed" -> "double"
             [] OTHER       -> s

Pos(t) == CHOOSE i \in DOMAIN Ladder(op[t]) : Ladder(op[t])[i] = pc[t]
Advance(t) == pc' = [pc EXCEPT ![t] = Ladder(op[t])[Pos(t) + 1]]

\* goto label with ret = r
Goto(t, l, r) ==
    /\ pc' = [pc EXCEPT ![t] = "unwind"]
    /\ label' = [label EXCEPT ![t] = l]
    /\ ret' = [ret EXCEPT ![t] = r]

Fail(t) == Goto(t, FailLabel(pc[t]), "dosoft")

Hold(t, R) == res' = [res EXCEPT ![t] = [r \in Res |-> IF r \in R THEN "held" ELSE @[r]]]

-----------------------------------------------------------------------------
(* Mutants of the method bodies, each placed before the definition it      *)
(* replaces.                                                               *)

\* verify returns check_rsa_input_para's code unconverted
CheckReturnsCode(t) ==
    /\ pc[t] = "check"
    /\ LET c == CheckInputPara(in[t]) IN
         IF c = "ok" THEN Advance(t) /\ UNCHANGED <<label, ret>>
         ELSE IF op[t] = "pub_verify"
            THEN /\ pc' = [pc EXCEPT ![t] = "done"]
                 /\ ret' = [ret EXCEPT ![t] = c]
                 /\ UNCHANGED label
            ELSE Goto(t, "exe_soft", "dosoft")
    /\ UNCHANGED <<op, in, res, to, src, overRead>> /\ UNCHANGED initVars

\* the req.status test after rsa_do_crypto is left out
CryptoIgnoresStatus(t) ==
    /\ pc[t] = "crypto"
    /\ \/ Fail(t) /\ UNCHANGED to
       \/ Advance(t) /\ to' = [to EXCEPT ![t] = "junk"] /\ UNCHANGED <<label, ret>>
       \/ /\ Advance(t)
          /\ to' = [to EXCEPT ![t] = IF src[t] = "ok" THEN "raw" ELSE "rawbad"]
          /\ UNCHANGED <<label, ret>>
    /\ UNCHANGED <<op, in, res, src, overRead>> /\ UNCHANGED initVars

-----------------------------------------------------------------------------
(* The steps.                                                              *)

\* check_rsa_input_para: on UADK_E_FAIL or SOFT to exe_soft, except that
\* public_verify returns UADK_E_FAIL at once on UADK_E_FAIL.
Check(t) ==
    /\ pc[t] = "check"
    /\ LET c == CheckInputPara(in[t]) IN
         IF c = "ok" THEN Advance(t) /\ UNCHANGED <<label, ret>>
         ELSE IF op[t] = "pub_verify" /\ c = "fail"
            THEN /\ pc' = [pc EXCEPT ![t] = "done"]
                 /\ ret' = [ret EXCEPT ![t] = "fail"]
                 /\ UNCHANGED label
            ELSE Goto(t, "exe_soft", "dosoft")
    /\ UNCHANGED <<op, in, res, to, src, overRead>> /\ UNCHANGED initVars

\* ret = uadk_e_rsa_init(): the call ...
CallInit(t) ==
    /\ pc[t] = "init"
    /\ ipc[t] = "idle"
    /\ ipc' = [ipc EXCEPT ![t] = "check"]
    /\ UNCHANGED initShared /\ UNCHANGED opVars

\* ... and its return: if (ret) goto exe_soft.
InitReturn(t) ==
    /\ pc[t] = "init"
    /\ ipc[t] = "done"
    /\ ipc' = [ipc EXCEPT ![t] = "idle"]
    /\ IF iret[t] = "ok" THEN Advance(t) /\ UNCHANGED <<label, ret>>
                         ELSE Goto(t, "exe_soft", "dosoft")
    /\ UNCHANGED initShared
    /\ UNCHANGED <<op, in, res, to, src, overRead>>

\* rsa_pkey_param_alloc, rsa_get_eng_session, and the BN_bin2bn(dst, len,
\* NULL) that allocates ret_bn: each allocates or fails.  rsa_get_eng_session
\* frees its own half-built session when wd_rsa_alloc_sess fails.
Acquire(t) ==
    /\ pc[t] \in {"pkey", "sess", "retbn"}
    /\ \/ Hold(t, {pc[t]}) /\ Advance(t) /\ UNCHANGED <<label, ret>>
       \/ Fail(t) /\ UNCHANGED res
    /\ UNCHANGED <<op, in, to, src, overRead>> /\ UNCHANGED initVars

\* rsa_create_{pub,pri}_bn_ctx: BN_CTX_new, BN_CTX_get, BN_num_bytes and
\* the malloc of from_buf.  When a step after BN_CTX_new fails it frees the
\* BN_CTX but leaves the caller's bn_ctx pointing at it.
CreateBnCtx(t) ==
    /\ pc[t] = "bnctx"
    /\ \/ Hold(t, {"bnctx", "frombuf"}) /\ Advance(t) /\ UNCHANGED <<label, ret>>
       \/ Fail(t) /\ UNCHANGED res
       \/ /\ Fail(t)
          /\ res' = [res EXCEPT ![t]["bnctx"] = "freed"]
    /\ UNCHANGED <<op, in, to, src, overRead>> /\ UNCHANGED initVars

\* Steps that fail only when OpenSSL cannot allocate or compute: BN_CTX_get
\* for to_bn, BN_bin2bn of from_buf into to_bn, and the BN_sub of the
\* X9.31 result selection in rsa_get_sign_res and rsa_get_verify_res.
Fallible(t) ==
    /\ pc[t] \in {"tobn", "bin2bn", "signres", "verifyres"}
    /\ \/ Advance(t) /\ UNCHANGED <<label, ret>>
       \/ Fail(t)
    /\ UNCHANGED <<op, in, res, to, src, overRead>> /\ UNCHANGED initVars

\* if (flen > num_bytes) goto free_buf with UADK_DO_SOFT
Flen(t) ==
    /\ pc[t] = "flen"
    /\ IF in[t].len = "long" THEN Fail(t)
                             ELSE Advance(t) /\ UNCHANGED <<label, ret>>
    /\ UNCHANGED <<op, in, res, to, src, overRead>> /\ UNCHANGED initVars

\* add_rsa_pubenc_padding / add_rsa_prienc_padding into from_buf.
Pad(t) ==
    /\ pc[t] = "pad"
    /\ IF in[t].wellFormed THEN Advance(t) /\ UNCHANGED <<label, ret>>
                           ELSE Fail(t)
    /\ UNCHANGED <<op, in, res, to, src, overRead>> /\ UNCHANGED initVars

\* rsa_fill_pubkey / rsa_fill_prikey on the fresh session (the key is never
\* ready yet, so they succeed), req.src = from_buf, req.dst = to, then the
\* memcpy of req.src_bytes bytes into req.src.
Fill(t) ==
    /\ pc[t] = "fill"
    /\ src' = [src EXCEPT ![t] = SrcOf(t)]
    /\ overRead' = [overRead EXCEPT ![t] = SrcOf(t) = "overread"]
    /\ Advance(t)
    /\ UNCHANGED <<op, in, label, ret, res, to>> /\ UNCHANGED initVars

\* ret = rsa_do_crypto(rsa_sess); if (!ret || req.status) goto free_buf.
\* The hardware writes the result to req.dst, the caller's `to'.
Crypto(t) ==
    /\ pc[t] = "crypto"
    /\ \/ Fail(t) /\ UNCHANGED to
       \/ /\ Fail(t)
          /\ \E v \in {to[t], "junk"} : to' = [to EXCEPT ![t] = v]
       \/ /\ Advance(t)
          /\ to' = [to EXCEPT ![t] = IF src[t] = "ok" THEN "raw" ELSE "rawbad"]
          /\ UNCHANGED <<label, ret>>
    /\ UNCHANGED <<op, in, res, src, overRead>> /\ UNCHANGED initVars

\* Encrypt and sign: BN_bn2binpad(ret_bn or res, to, num_bytes) is the
\* method's return value; falls through to free_buf.
BinPad(t) ==
    /\ pc[t] = "binpad"
    /\ to' = [to EXCEPT ![t] = IF @ = "raw" THEN "out" ELSE "wrong"]
    /\ Goto(t, "free_buf", "ok")
    /\ UNCHANGED <<op, in, res, src, overRead>> /\ UNCHANGED initVars

\* Decrypt and verify: BN_bn2binpad(ret_bn, from_buf, num_bytes), then
\* check_rsa_pridec_padding / check_rsa_pubdec_padding into `to'.  The check
\* of the caller's data passes exactly when it is well formed; on data the
\* hardware read from elsewhere it may pass or fail.  A failing check leaves
\* `to' as it was.
PadCheck(t) ==
    /\ pc[t] = "padchk"
    /\ \E pass \in IF to[t] = "raw" THEN {in[t].wellFormed} ELSE BOOLEAN :
         IF pass
            THEN /\ to' = [to EXCEPT ![t] = IF @ = "raw" THEN "out" ELSE "wrong"]
                 /\ Goto(t, "free_buf", "ok")
            ELSE Fail(t) /\ UNCHANGED to
    /\ UNCHANGED <<op, in, res, src, overRead>> /\ UNCHANGED initVars

\* free_buf, free_sess, free_pkey fall through; then return ret unless it
\* is UADK_DO_SOFT.
Unwind(t) ==
    /\ pc[t] = "unwind"
    /\ res' = [res EXCEPT ![t] =
                 [r \in Res |-> IF r \in Freed(label[t]) THEN Free(@[r]) ELSE @[r]]]
    /\ pc' = [pc EXCEPT ![t] = IF ret[t] = "dosoft" THEN "soft" ELSE "done"]
    /\ UNCHANGED <<op, in, label, ret, to, src, overRead>> /\ UNCHANGED initVars

\* exe_soft: RSA_meth_get_*(RSA_PKCS1_OpenSSL())(flen, from, to, rsa, padding)
Soft(t) ==
    /\ pc[t] = "soft"
    /\ pc' = [pc EXCEPT ![t] = "done"]
    /\ ret' = [ret EXCEPT ![t] = IF SoftOk(t) THEN "ok" ELSE "fail"]
    /\ to' = [to EXCEPT ![t] = IF SoftOk(t) THEN "out" ELSE @]
    /\ UNCHANGED <<op, in, label, res, src, overRead>> /\ UNCHANGED initVars

-----------------------------------------------------------------------------
Init ==
    /\ op \in [OpThreads -> Ops]
    /\ in \in [OpThreads -> Inputs]
    /\ pc = [t \in OpThreads |-> "check"]
    /\ label = [t \in OpThreads |-> "exe_soft"]
    /\ ret = [t \in OpThreads |-> "none"]
    /\ res = [t \in OpThreads |-> [r \in Res |-> "none"]]
    /\ to = [t \in OpThreads |-> "none"]
    /\ src = [t \in OpThreads |-> "ok"]
    /\ overRead = [t \in OpThreads |-> FALSE]
    /\ InitInit

InitAction(t) ==
    /\ InitStep(t)
    /\ UNCHANGED opVars

ThreadStep(t) ==
    \/ Check(t) \/ CallInit(t) \/ InitAction(t) \/ InitReturn(t)
    \/ Acquire(t) \/ CreateBnCtx(t) \/ Fallible(t) \/ Flen(t) \/ Pad(t)
    \/ Fill(t) \/ Crypto(t) \/ BinPad(t) \/ PadCheck(t) \/ Unwind(t)
    \/ Soft(t)

Finished == \A t \in OpThreads : pc[t] = "done"

Terminating == Finished /\ UNCHANGED vars

Next == (\E t \in OpThreads : ThreadStep(t)) \/ Terminating

Spec == Init /\ [][Next]_vars /\ \A t \in OpThreads : WF_vars(ThreadStep(t))

-----------------------------------------------------------------------------
TypeOK ==
    /\ op \in [OpThreads -> OpNames]
    /\ in \in [OpThreads -> Inputs]
    /\ pc \in [OpThreads -> PcVals]
    /\ label \in [OpThreads -> Labels]
    /\ ret \in [OpThreads -> {"none", "ok", "fail", "dosoft"}]
    /\ res \in [OpThreads -> [Res -> {"none", "held", "freed", "double"}]]
    /\ to \in [OpThreads -> ToVals]
    /\ src \in [OpThreads -> {"ok", "overread", "truncated"}]
    /\ overRead \in [OpThreads -> BOOLEAN]
    /\ InitTypeOK

(* Safety: a method that has returned reports success exactly when the    *)
(* software method would succeed on the same arguments, and on success the *)
(* caller's buffer holds the correct output.  This is the contract of the  *)
(* fallback: the hardware path, whatever step of it fails, may change how  *)
(* the result is computed but never what the caller gets.                  *)
OutcomeMatchesSoft ==
    \A t \in OpThreads : pc[t] = "done" =>
        /\ (ret[t] = "ok") = SoftOk(t)
        /\ ret[t] = "ok" => to[t] = "out"

(* Safety: whatever label a failure jumps to, the key parameters, the      *)
(* engine session, the BN_CTX and from_buf are all released before the     *)
(* method returns or runs the software method.                             *)
EngineResourcesReleased ==
    \A t \in OpThreads : pc[t] \in {"soft", "done"} =>
        \A r \in EngineRes : res[t][r] # "held"

(* Safety: no step of the goto ladder frees memory that an earlier failure *)
(* path already freed (rsa_create_*_bn_ctx frees the BN_CTX on its error   *)
(* path and leaves the caller's pointer set).                              *)
NoDoubleFree == \A t \in OpThreads, r \in Res : res[t][r] # "double"

(* Safety: a method that has returned holds no memory it allocated,        *)
(* including the BIGNUM that BN_bin2bn(req.dst, req.dst_bytes, NULL)       *)
(* allocates for the hardware's result.                                    *)
NoLeak == \A t \in OpThreads : pc[t] = "done" => \A r \in Res : res[t][r] # "held"

(* Safety: a private decryption that fails does not leave the raw private- *)
(* key operation on the caller's ciphertext in the caller's buffer: the    *)
(* hardware writes c^d mod n to req.dst, which is `to', before the padding *)
(* check runs.                                                             *)
PrivateFailureLeavesNoRaw ==
    \A t \in OpThreads :
        (pc[t] = "done" /\ op[t] = "priv_dec" /\ ret[t] # "ok") => to[t] # "raw"

(* Safety: the memcpy of req.src_bytes (the key size) bytes from `from'    *)
(* into the request stays within the flen bytes the caller passed.         *)
CopyWithinInput == \A t \in OpThreads : ~overRead[t]

====
