------------------------------ MODULE RsaInit ------------------------------
(***************************************************************************)
(* Process-wide RSA hardware resources (src/src/uadk_rsa.c).               *)
(*                                                                         *)
(* uadk_e_rsa_init: every RSA operation calls it first.  It reads          *)
(* g_rsa_res.pid without the lock, and when the pid is not the caller's it *)
(* takes the spinlock, re-checks the pid, gets the device and runs         *)
(* uadk_e_wd_rsa_init, and records the pid last.  The critical section is  *)
(* one step: nothing else is visible to the other threads until the pid    *)
(* is written and the lock released.  uadk_e_wd_rsa_init either sets up    *)
(* the wd library from the environment (wd_rsa_env_init) or builds the     *)
(* context config itself: ctx_cfg, its ctxs array, CTX_NUM wd contexts and *)
(* wd_rsa_init, with a goto ladder that releases them on failure.          *)
(*                                                                         *)
(* uadk_e_rsa_uninit, run by uadk_e_destroy_rsa when the engine goes away, *)
(* releases them again through g_rsa_res.ctx_res.                          *)
(*                                                                         *)
(* This module is not a specification by itself; RsaOps composes it with  *)
(* the operations, which call it through ipc.                             *)
(***************************************************************************)
EXTENDS Naturals

CONSTANTS
    Threads,        \* threads running engine operations
    NoThread        \* the spinlock is free

VARIABLES
    pid,            \* g_rsa_res.pid = getpid(): the resources are initialised
    lock,           \* holder of g_rsa_res.lock
    wdInit,         \* successful uadk_e_wd_rsa_init calls in this process
    ipc,            \* per thread: where it is in uadk_e_rsa_init
    iret,           \* per thread: what uadk_e_rsa_init returned
    env,            \* uadk_e_is_env_enabled("rsa"), fixed for the process
    wdRes,          \* what uadk_e_wd_rsa_init holds: ctx_cfg, ctx_cfg->ctxs,
                    \* the indices of the wd contexts requested, and the wd
                    \* library ("none", "wd" or "env")
    ctxRes,         \* g_rsa_res.ctx_res: "null", "live" or "freed"
    life            \* "running", "destroyed" (uadk_e_destroy_rsa has run) or
                    \* "corrupt" (uninit went through a freed or NULL ctx_res)

\* The shared state of initialisation and teardown: all but ipc.
initShared == <<pid, lock, wdInit, iret, env, wdRes, ctxRes, life>>
initVars == <<ipc, initShared>>

CTX_NUM == 2
CtxIdx == 0 .. CTX_NUM - 1

NoRes == [cfg |-> FALSE, ctxs |-> FALSE, ctx |-> {}, lib |-> "none"]
WdRes == [cfg |-> TRUE, ctxs |-> TRUE, ctx |-> CtxIdx, lib |-> "wd"]
EnvRes == [NoRes EXCEPT !.lib = "env"]

IpcLabels == {"idle", "check", "lock", "locked", "done"}

\* What uadk_e_rsa_init returns: UADK_E_INIT_SUCCESS, -ENOMEM when no
\* device is found, or the error of uadk_e_wd_rsa_init.
InitResults == {"ok", "nodev", "err"}

InitInit ==
    /\ pid = FALSE
    /\ lock = NoThread
    /\ wdInit = 0
    /\ ipc = [t \in Threads |-> "idle"]
    /\ iret = [t \in Threads |-> "ok"]
    /\ env \in BOOLEAN
    /\ wdRes = NoRes
    /\ ctxRes = "null"
    /\ life = "running"

Return(t, r) ==
    /\ ipc' = [ipc EXCEPT ![t] = "done"]
    /\ iret' = [iret EXCEPT ![t] = r]

-----------------------------------------------------------------------------
(* uadk_e_wd_rsa_init.                                                     *)

(* Mutant: the release loop of free_ctx starts at i = 1.                  *)
ReleaseCtxsFromOne(held) == held \ {i \in 1 .. CTX_NUM - 1 : i \in held}

\* free_ctx: for each i < CTX_NUM, wd_release_ctx of ctxs[i].ctx if it is
\* non-zero (calloc zeroed the ones never requested); the contexts left.
ReleaseCtxs(held) == held \ {i \in CtxIdx : i \in held}

(* Mutant: a failed wd_rsa_init goes to free_cfg.                         *)
WdFailLabelInitToCfg(s) == IF s \in {"ctxs", "init"} THEN "free_cfg" ELSE "free_ctx"

\* The goto targets: a failed calloc of ctxs goes to free_cfg; a failed
\* wd_request_ctx or wd_rsa_init goes to free_ctx.
WdFailLabel(s) == IF s = "ctxs" THEN "free_cfg" ELSE "free_ctx"

\* What is held after a failure at step s with the contexts 0 .. k-1
\* requested, once the labels have run: free_ctx releases the contexts and
\* frees ctxs, then free_cfg frees ctx_cfg.
WdUnwound(s, k) ==
    LET held == 0 .. k - 1
        l == WdFailLabel(s)
    IN [cfg  |-> FALSE,
        ctxs |-> s # "ctxs" /\ l # "free_ctx",
        ctx  |-> IF l = "free_ctx" THEN ReleaseCtxs(held) ELSE held,
        lib  |-> "none"]

\* The failure points after g_rsa_res.ctx_res = ctx_cfg: the calloc of
\* ctxs, wd_request_ctx of context k, wd_rsa_init with all CTX_NUM held.
WdFailAt(s, k) ==
    \/ s = "ctxs" /\ k = 0
    \/ s = "req" /\ k < CTX_NUM
    \/ s = "init" /\ k = CTX_NUM

\* A failed uadk_e_wd_rsa_init.  In env mode uadk_e_set_env or
\* wd_rsa_env_init fails and nothing is held.  Otherwise the calloc of
\* ctx_cfg fails before anything is set, or a later step fails and the
\* ladder unwinds, leaving g_rsa_res.ctx_res pointing at the freed ctx_cfg.
WdInitFail ==
    IF env
       THEN UNCHANGED <<wdRes, ctxRes>>
       ELSE \/ UNCHANGED <<wdRes, ctxRes>>
            \/ /\ \E s \in {"ctxs", "req", "init"}, k \in 0 .. CTX_NUM :
                    WdFailAt(s, k) /\ wdRes' = WdUnwound(s, k)
               /\ ctxRes' = "freed"

\* A successful uadk_e_wd_rsa_init; async_register_poll_fn overwrites the
\* drain function and cannot fail.
WdInitOk ==
    /\ wdRes' = IF env THEN EnvRes ELSE WdRes
    /\ ctxRes' = IF env THEN ctxRes ELSE "live"

-----------------------------------------------------------------------------
(* uadk_e_rsa_init.                                                        *)

(* Mutant: the re-check of the pid under the lock is left out.            *)
InitLockedNoRecheck(t) ==
    /\ ipc[t] = "locked"
    /\ lock' = NoThread
    /\ \/ Return(t, "nodev") /\ UNCHANGED <<pid, wdInit, wdRes, ctxRes>>
       \/ Return(t, "err") /\ WdInitFail /\ UNCHANGED <<pid, wdInit>>
       \/ /\ WdInitOk
          /\ wdInit' = wdInit + 1
          /\ pid' = TRUE
          /\ Return(t, "ok")
    /\ UNCHANGED <<env, life>>

\* if (g_rsa_res.pid != getpid()): the unlocked read.
InitCheck(t) ==
    /\ ipc[t] = "check"
    /\ IF pid
          THEN Return(t, "ok")
          ELSE /\ ipc' = [ipc EXCEPT ![t] = "lock"]
               /\ UNCHANGED iret
    /\ UNCHANGED <<pid, lock, wdInit, env, wdRes, ctxRes, life>>

\* pthread_spin_lock(&g_rsa_res.lock): it takes a free lock, and spins
\* while another thread holds it.
InitLock(t) ==
    /\ ipc[t] = "lock"
    /\ IF lock = NoThread
          THEN /\ lock' = t
               /\ ipc' = [ipc EXCEPT ![t] = "locked"]
          ELSE UNCHANGED <<lock, ipc>>
    /\ UNCHANGED <<pid, wdInit, iret, env, wdRes, ctxRes, life>>

(* Mutant: the pid is written before the device and wd setup, as a flag   *)
(* of "initialisation started".                                           *)
InitLockedPidFirst(t) ==
    /\ ipc[t] = "locked"
    /\ lock' = NoThread
    /\ pid' = TRUE
    /\ IF pid
          THEN Return(t, "ok") /\ UNCHANGED <<wdInit, wdRes, ctxRes>>
          ELSE \/ Return(t, "nodev") /\ UNCHANGED <<wdInit, wdRes, ctxRes>>
               \/ Return(t, "err") /\ WdInitFail /\ UNCHANGED wdInit
               \/ WdInitOk /\ wdInit' = wdInit + 1 /\ Return(t, "ok")
    /\ UNCHANGED <<env, life>>

\* The critical section and the unlock: the re-check of the pid,
\* wd_get_accel_dev (may find no device), uadk_e_wd_rsa_init (may fail,
\* and then releases what it requested), and on success the numa id and
\* the pid.
InitLocked(t) ==
    /\ ipc[t] = "locked"
    /\ lock' = NoThread
    /\ IF pid
          THEN Return(t, "ok") /\ UNCHANGED <<pid, wdInit, wdRes, ctxRes>>
          ELSE \/ Return(t, "nodev") /\ UNCHANGED <<pid, wdInit, wdRes, ctxRes>>
               \/ Return(t, "err") /\ WdInitFail /\ UNCHANGED <<pid, wdInit>>
               \/ /\ WdInitOk
                  /\ wdInit' = wdInit + 1
                  /\ pid' = TRUE
                  /\ Return(t, "ok")
    /\ UNCHANGED <<env, life>>

InitStep(t) == InitCheck(t) \/ InitLock(t) \/ InitLocked(t)

-----------------------------------------------------------------------------
(* uadk_e_rsa_uninit.                                                      *)

\* What the non-env branch of uninit leaves: wd_rsa_uninit, wd_release_ctx
\* of ctx_cfg->ctx_num contexts, free of ctxs and of ctx_cfg.
UninitWd(r) == [cfg |-> FALSE, ctxs |-> FALSE, ctx |-> r.ctx \ CtxIdx, lib |-> "none"]

(* Mutant: the pid check of uadk_e_rsa_uninit is left out.                *)
UninitNoPidCheck ==
    /\ life = "running"
    /\ CASE env ->
              /\ wdRes' = [wdRes EXCEPT !.lib = "none"]
              /\ life' = "destroyed" /\ UNCHANGED ctxRes
         [] ctxRes # "live" ->
              life' = "corrupt" /\ UNCHANGED <<wdRes, ctxRes>>
         [] OTHER ->
              /\ wdRes' = UninitWd(wdRes)
              /\ ctxRes' = "freed"
              /\ life' = "destroyed"
    /\ pid' = FALSE
    /\ UNCHANGED <<lock, wdInit, ipc, iret, env>>

\* if (g_rsa_res.pid == getpid()): in env mode wd_rsa_env_uninit, otherwise
\* the release of the contexts read through g_rsa_res.ctx_res (which keeps
\* pointing at the freed ctx_cfg); then pid = 0.  Reading a ctx_res that is
\* NULL or freed is undefined, and nothing after it is modelled.
Uninit ==
    /\ life = "running"
    /\ CASE ~pid ->
              life' = "destroyed" /\ UNCHANGED <<wdRes, ctxRes>>
         [] env ->
              /\ wdRes' = [wdRes EXCEPT !.lib = "none"]
              /\ life' = "destroyed" /\ UNCHANGED ctxRes
         [] ctxRes # "live" ->
              life' = "corrupt" /\ UNCHANGED <<wdRes, ctxRes>>
         [] OTHER ->
              /\ wdRes' = UninitWd(wdRes)
              /\ ctxRes' = "freed"
              /\ life' = "destroyed"
    /\ pid' = FALSE
    /\ UNCHANGED <<lock, wdInit, ipc, iret, env>>

-----------------------------------------------------------------------------
InitTypeOK ==
    /\ pid \in BOOLEAN
    /\ lock \in Threads \cup {NoThread}
    /\ wdInit \in Nat
    /\ ipc \in [Threads -> IpcLabels]
    /\ iret \in [Threads -> InitResults]
    /\ env \in BOOLEAN
    /\ wdRes \in [cfg : BOOLEAN, ctxs : BOOLEAN, ctx : SUBSET CtxIdx,
                  lib : {"none", "wd", "env"}]
    /\ ctxRes \in {"null", "live", "freed"}
    /\ life \in {"running", "destroyed", "corrupt"}

(* Safety: the wd contexts are initialised at most once per process, however *)
(* many threads race through uadk_e_rsa_init's unlocked pid check.  A second *)
(* uadk_e_wd_rsa_init would request a second set of contexts and re-run      *)
(* wd_rsa_init on an initialised library.                                    *)
InitOnce == wdInit <= 1

(* Safety: the hardware resources are held exactly when g_rsa_res.pid says *)
(* the process is initialised: every failure of uadk_e_wd_rsa_init, at any *)
(* of its steps and whichever thread ran it, releases all it requested     *)
(* (the free_ctx and free_cfg ladder), a success holds the whole set for   *)
(* its mode, and uadk_e_rsa_uninit releases it again.                      *)
ResourcesMatchPid ==
    life # "corrupt" =>
        wdRes = IF pid THEN IF env THEN EnvRes ELSE WdRes ELSE NoRes

(* Safety: teardown never reads the context config through a stale         *)
(* g_rsa_res.ctx_res: a failed initialisation leaves it pointing at the    *)
(* freed ctx_cfg (or NULL), and only the pid check keeps                   *)
(* uadk_e_rsa_uninit from releasing through it.                            *)
UninitSafe == life # "corrupt"
=============================================================================
