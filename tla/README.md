# TLA+ models of the uadk_engine RSA provider

This directory holds TLA+ models of the RSA part of uadk_engine: `src/src/uadk_rsa.c` and the
asynchronous core declared in `src/src/uadk_async.h`, whose implementation is not in this tree
and is modelled from `spec.md`. The models are checked with TLC. `PROJECT.json` lists the components,
the runs, the mutants, the source lines behind every definition (`map`), the findings and the hazards.

## 1. The system

### Parts and how they interact

| Part | Code | State | Operations |
|---|---|---|---|
| Request path | `rsa_do_crypto` (uadk_rsa.c 1004-1054) | per call: `op` (`job`, `done`, `idx`) and `cb_param` **on the caller's stack**; `rsa_sess->req.status` | setup of the event fd; the sync path; slot acquisition; submission with the `-EBUSY` retry; pause; the status check |
| Completion callback | `uadk_e_rsa_cb` (976-1002) | writes `req.status` and `op->done` | runs on the poll thread inside the drain: it writes the status, then `done = 1`, releases the slot with `is_cb = 1`, and wakes the job |
| Drain | `uadk_e_rsa_poll` (621-636) | none of its own | polls the shared async ctx until one completion arrives (any request's) or a fatal error occurs |
| Async core (spec-modelled) | `uadk_async.h`, spec.md §4-5 | `status[]` slot bitmap, `rid`/`sid` cursors, `empty_sem`, `full_sem`, `task[]` registry, one poll thread | `async_get_free_task` (`sem_wait(empty)`, first free slot from `rid`); `async_free_poll_task(id, is_cb)` (only `is_cb = 1` posts `empty`); `async_pause_job` (registers `op` in `task[idx]`, posts `full`, suspends); the poll thread (`sem_wait(full)`, first used slot from `sid`, call the drain, and on a fatal drain resolve every outstanding context) |
| Operations | public encrypt, private decrypt, private sign, public verify (1340-1730) | session, key BIGNUMs, buffers, BN_CTX | validate, init, build the session, copy in, `rsa_do_crypto`, copy out, free, and fall back to software on `UADK_DO_SOFT` |
| Keygen | `uadk_e_rsa_keygen` and helpers (931-974, 1056-1168, 1279-1348) | keygen params, BIGNUMs e/p/q/n/d/CRT | hardware keygen, export into the RSA object, fallback |
| Prime generation | `rsa_primes_gen` and helpers (159-440) | `BN_CTX` locals, `bitse`, `ret`, the function-static `retries` | the bit split, the prime draw with its equality and inverse checks, the length test with REDO, `switch_p_q` |
| Global init | `uadk_e_rsa_init`, `uadk_e_wd_rsa_init`, `uadk_e_rsa_uninit` (700-800) | `g_rsa_res` (`pid`, `lock`, `numa_id`) | double-checked initialisation under a spinlock, the wd context setup and its unwinding, teardown |
| Hooks and tables | `rsa_sched_init`, `rsa_pick_next_ctx`, `rsa_poll_policy`, method tables, bind/destroy | static pointers | registration glue |

An operation runs on an OpenSSL async job or on a plain thread. The request path suspends the job
until the poll thread, in the drain, delivers the hardware's completion through the callback. The
callback and the job meet through `op`, which lives on the job's stack. Several jobs share the slot
pool and the single async ctx, so a drain triggered for one job's slot can deliver another job's
completion.

### The hard behaviours

* Interleavings between jobs and the poll thread: a job can be resumed between the callback's
  `done = 1` and its wake, and a completion can arrive before the job has registered itself.
* Slot-pool accounting: a failed submission releases the slot with `is_cb = 0`, which does not
  return the `empty_sem` permit.
* Fatal drains: the poll thread resolves the waiting contexts as failed, but the hardware
  requests stay queued and complete later.
* Partial failures along the operations' goto ladders: what is freed, what leaks, and what is
  freed twice before the software fallback.
* Ownership transfer in keygen: `RSA_set0_*` hands BIGNUMs to the RSA object part-way through
  a chain that can fail, and the error path frees what was already handed over.
* Return codes across layers: `rsa_primes_gen` returns whatever `ret` holds when it fails, and
  its caller tells only 0 from non-zero.

## 2. Modules

### `RsaAsync` (the request path, callback, drain and async core)

| Code | Model |
|---|---|
| `op.job != NULL`, the call in progress | `pc[j]`: `idle` → `wait_slot` → `take_slot` → `submit` → `pause` → `parked` → `idle` |
| `op.done`, `op.idx`, `req.status`, return value | `done[j]`, `idx[j]`, `reqStatus[j]`, `ret[j]` |
| The address `&op` as seen by `cb_param` | `Frame(j) == [job ↦ j, call ↦ calls[j]]`; a frame is live (`Live`) while job `j` is still in call `calls[j]` |
| `status[]`, `rid`, `sid`, `empty_sem`, `full_sem`, `task[].op` | `status`, `rid`, `sid`, `empty`, `full`, `task` (`NoOp` = no registered op) |
| Requests queued in the hardware | `hw`, a set of frames |
| The poll thread | `poll` record: `pc`, the scanned `slot`, the `req` being completed, `cb` (from a real completion or from resolution), `st`, `todo` (contexts still to resolve) |

Actions. Jobs: `Setup` and `SetupFailOrSync` (lines 1010-1027), `WaitSlot` and `TakeSlot`
(`async_get_free_task`, lines 1029-1033), `SubmitOk` and `SubmitFail` (1034-1040, the failure
releasing with `is_cb = 0`), `PauseJob` (`async_pause_job` registration and post), and `Resume`
(return from the pause; a resumed job that is not `done` parks again; 1042-1049). Poll thread:
`PollWait`, `PollScan`, `DrainRecv` (a completion with status 0 or 1 of any queued request),
`DrainFail` (a fatal drain return), `Resolve` (spec §4.4: each registered outstanding context is
resolved as failed), and the callback in three steps: `CbComplete` (status write, `done`),
`CbFree` (`async_free_poll_task(idx, 1)`), and `CbWake`. The callback is split at the points where
another thread's step changes what it reads next.

Constants: `Jobs`, `TaskNum` (slots, 1024 in the code), `MaxCalls` per job, `MaxSubmitFail` and
`MaxDrainFail` (fault budgets), `SpuriousResume` (whether a parked job may resume without a wake; spec §5
says only a completion resumes it, but the code's `while (!op->done)` loop around
`async_pause_job` allows the return), `LateCompletion` (whether a resolved request stays queued in the hardware,
which is what the code does: nothing cancels it), and `NoOp`.

### `RsaInit` (uadk_e_rsa_init, uadk_e_wd_rsa_init, uadk_e_rsa_uninit)

The shared state is:
* `pid` (`g_rsa_res.pid == getpid()`), `lock` (the spinlock holder), and `wdInit` (successful
  `uadk_e_wd_rsa_init` calls);
* `env`, the value of `uadk_e_is_env_enabled("rsa")`, chosen in the initial state and fixed;
* `wdRes`, what the wd setup holds: `ctx_cfg`, its `ctxs` array, the indices of the requested
  wd contexts, and the wd library ("wd" or "env");
* `ctxRes`, what `g_rsa_res.ctx_res` points at: NULL, the live config, or a freed one;
* `life`: running, destroyed, or corrupt (teardown read through a stale `ctx_res`).

Per thread, `ipc` and `iret` hold the position in the call and its result. The actions are:
* `InitCheck`: the unlocked pid read.
* `InitLock`: `pthread_spin_lock`. It takes a free lock; while another thread holds the lock it
  spins (a step that changes nothing).
* `InitLocked`: the critical section and the unlock. It re-checks the pid, and either finds no
  device (`-ENOMEM`), has the wd init fail, or succeeds and writes the pid last.
  The section is one step, so its three unlocking exits (743, 749, 767) are a single release of
  the lock. No invariant about the lock is checked, because with one release it could only
  restate this step. A missed unlock would show as an endless spin in `InitLock`.
  * `WdInitFail`: in env mode `uadk_e_set_env` or `wd_rsa_env_init` fails, and nothing is held.
    Otherwise either the `calloc` of `ctx_cfg` fails before anything is set, or a later step fails
    and `WdUnwound` applies the `free_ctx`/`free_cfg` ladder (`WdFailLabel`, `ReleaseCtxs`). The
    later steps are the `calloc` of `ctxs`, `wd_request_ctx` of context k, and `wd_rsa_init`
    (`WdFailAt`). The ladder leaves `ctx_res` pointing at the freed config.
  * `WdInitOk`: the whole set for the mode. `async_register_poll_fn` overwrites and cannot fail.
* `Uninit`: `uadk_e_rsa_uninit`, guarded by the pid check. It runs `wd_rsa_env_uninit` in env
  mode; otherwise it runs `wd_rsa_uninit` and releases the contexts, `ctxs` and `ctx_cfg` through
  `ctx_res`. `RsaKeygen`'s `EngineDestroy` runs it as `uadk_e_destroy_rsa` once every thread has
  returned.

It is not a specification on its own. `RsaOps` extends it, and each method calls it through `ipc`.
`RsaKeygen` extends `RsaOps`, so the keygen threads race the method threads through the same
`pid`, `lock` and `wdInit`.

### `RsaOps` (the four RSA methods)

A thread of `OpThreads` (a subset of RsaInit's `Threads`) runs one method (`op`) on one abstract
input (`in`). The input fields are:
* `args`: whether `rsa`, `from` and `to` are non-NULL and `flen > 0`.
* `bits`: the modulus size class, which decides `rsa_check_bit_useful`.
* `len`: `flen` relative to `BN_num_bytes(n)`.
* `wellFormed`: whether the padding can be added or checked.

Each method is the sequence of its steps (`PubEncLadder`, `PriDecLadder`, `PriSignLadder`,
`PubVerifyLadder`) in the order of the code. `pc` is the current step. Each step is an action, and
its failure jumps to `FailLabel(step)` with `UADK_DO_SOFT`. `Unwind` frees what the label and the
labels below it free (`Freed`), then returns or runs the software method (`Soft`).

Memory is tracked per resource as none, held, freed or double: the key parameters, the session,
the BN_CTX, `from_buf`, and the result BIGNUM. The caller's buffer `to` is tracked by what it
holds. The hardware writes `req.dst`, which is `to` itself.

`rsa_do_crypto` is one step (`Crypto`) with its three outcomes: returned 0, returned 1 with
`req.status != 0`, and success. How it reaches them is `RsaAsync`'s subject.

The software method is the reference (`SoftOk`). It succeeds on valid arguments and well-formed
data whose length it accepts, whatever the key size class.

Abstracted and why:
* `rsa_fill_*key` never fails here, because the session is always fresh.
* `BN_bn2binpad` into a modulus-sized buffer never fails, so the dead `if (!len)` and
  `ret == -1` branches are not steps.
* The arithmetic of the X9.31 selection is reduced to its `BN_sub` failure.
* `rsa_get_verify_res` writes its X9.31 correction into `to_bn`, but line 1716 pads `ret_bn`, so
  the correction is discarded. The nondeterministic `PadCheck` covers the fallback this causes.

### `RsaDoCrypto` (the contract of `rsa_do_crypto`)

This is what the four methods and the keygen rely on when they call `rsa_do_crypto`, with the pool,
the poll thread and the callback hidden. Per job it has `busy`, `calls`, `answered`, `status` and
`ret`. The actions are:
* `Call`: an asynchronous call starts, and `req.status = -1`.
* `ImmediateCall`: setup fails, or the sync path runs; either returns at once.
* `Answer`: the request is answered once, with status 0 or 1, or with -1 when a failed drain
  abandons it.
* `Return`: the call returns `"ok"` exactly when it was answered with 0.

The specification is weakly fair on `Return`.

`RsaAsync` defines `DoCrypto == INSTANCE RsaDoCrypto WITH ...` with this refinement mapping:
* `busy` is `pc[j] # "idle"`;
* `answered` is `op.done`;
* `status` is `req.status`;
* `calls` and `ret` are the same variables.

`ImplementsDoCrypto == DoCrypto!Spec` is checked as a PROPERTY. Every step of the pool, the poll
thread, and the callback's free and wake is a stutter of the contract. `CbComplete` is `Answer`.
`SetupFailOrSync` is `ImmediateCall`. `TakeSlot` with no slot, `SubmitFail` and `Resume` with
`done` set are `Return`.

### `RsaKeygen` (uadk_e_rsa_keygen, composed with the methods)

A thread of `KgThreads` runs `uadk_e_rsa_keygen` for one `bits` class (`kbits`).
* The steps are in `KgLadder`: check, init, alloc, sess, primes, copy, fill, crypto and getparam.
  Each step's failure jumps to the label `KgFailLabel` gives with `UADK_DO_SOFT`.
* `KgUnwind` frees what `free_kg_in_out`, `free_sess` and `free_keygen` free (`KgFreed`). It then
  returns, or runs `KgSoft` (the software keygen on the same RSA object).
* `kres` tracks four resources: the parameter structs, the session, `kg_in` and `kg_out`.
* `bn` tracks who owns each BIGNUM:
  * e, p and q come from `rsa_keygen_param_alloc`, whose `BN_new` is not checked;
  * n, d, dmp1, dmq1 and iqmp come from `rsa_get_keygen_param`;
  * an owner is nobody yet, NULL, the keygen's locals, a dropped BIGNUM that `BN_bin2bn(..., NULL)`
    allocated, the RSA object, freed, or freed while the RSA object still points at it.
* `HandOver` translates the `RSA_set0_key && RSA_set0_factors && RSA_set0_crt_params` chain and
  its `bn_free` path over a fresh RSA object.
* A NULL p or q is dereferenced by `BN_copy` in `switch_p_q` (line 346), and a NULL e by the
  `BN_copy` of line 1313. Either way the process stops (`crashed`).
* `kpq` holds the values of `bn_param->p` and `bn_param->q`. `KgCallPrimes` starts
  `rsa_primes_gen` (RsaPrimes), whose steps the keygen thread then takes. `KgPrimesReturn` takes
  it back: from `switch_p_q`, each unchecked `BN_copy` either writes the larger prime to p and the
  smaller to q, or leaves its target as it was; from the `err` label, the caller's `if (!ret)`
  sees `ret` as it stands. `BN_CTX_end` drops the search's locals, so they return to 0.
* The software keygen on an RSA object that holds a freed BIGNUM is undefined (`corrupt`). Nothing
  after it is modelled.

`EngineSpec` composes both modules:
* `EngineNext` interleaves `OpThreads` running `RsaOps`'s steps and `KgThreads` running the
  keygen's. Each side leaves the other's variables unchanged.
* The only shared state is RsaInit's.
* Each thread is weakly fair.

Abstracted: BIGNUM values other than the primes, and the `BN_bin2bn` conversions into existing
BIGNUMs.

### `RsaInitContract` (the contract of `uadk_e_rsa_init`)

The abstract view of initialisation that callers rely on:
* `inited`: the pid is set;
* `calling`: per thread, inside the call;
* `result`: per thread, the last return value.

`Begin` starts a call. `Finish` takes effect atomically and returns: success when the process is
already initialised, otherwise a failure with `inited` unchanged, or success with `inited` set.
`TearDown` clears `inited` while no call is in progress. The specification has no fairness: it
is checked as a safety refinement (`ImplementsInitContract`, below).

### `RsaPrimes` (rsa_primes_gen)

The prime search runs on real numbers, scaled down: the key has `PrimeBits` bits, and
`BN_generate_prime_ex(prime, b, 0, ...)` returns any prime of `b` bits with its top two bits set
(`GenPrimes`; OpenSSL draws candidates with `BN_RAND_TOP_TWO`). Per thread, `ppc` is the point
in the loop, `num` is `i`, `bitse`, `rsa_p`, `rsa_q` and `pret` are the locals, and `retries` is
the function-static counter of `check_prime_sufficient`, shared by all threads.
* `PgStart`: `BN_CTX_new` and the four `BN_CTX_get`, each of which may fail (`ret` = 0).
* `PgGen`: one round of `get_prime_once`: a prime goes into `rsa_p` or `rsa_q` (`set_primes`);
  an equal one (`check_prime_equal`) or one whose `prime - 1` has no inverse mod e
  (`check_prime_useful`, `HasInverse`) means another round. Any BN call or callback may fail,
  and the loop jumps to `err` with `ret` unchanged.
* `PgSuff`: `check_prime_sufficient`. For i = 0 it returns `BN_CONTINUE`. For i = 1 the length
  test (`LengthOk`, `BN_rshift` by `bitse - 4`) gives `BN_VALID`, or `BN_REDO` with `retries++`,
  or after four retries it restarts from p. `BN_mul`, `BN_rshift` or a callback may fail with
  `BN_ERR`.
* `SplitBits` is the `bitsr` split; `KeyPrimes` is the reference definition of a valid pair.

## 3. Runs

### `MC_RsaAsync` (TaskNum = 2)

| Run | Jobs, calls | Faults | Checks | Expect |
|---|---|---|---|---|
| `async_safety` | 2 jobs × 3 calls | 1 submit failure, 1 fatal drain, requests cancelled | TypeOK, SlotOwnership, BoundedInFlight, AllCallsReturn, ImplementsDoCrypto | pass |
| `permit_leak` | 2 × 2 | 2 submit failures | AllCallsReturn | violation |
| `spurious_resume` | 2 × 2 | spurious resume | CallbackOnLiveFrame | violation |
| `late_completion` | 1 × 2 | 1 fatal drain, request not cancelled | CallbackOnLiveFrame | violation |
| `early_completion` | 3 × 2 | 1 fatal drain | CallbackOnLiveFrame | violation |


What the RsaAsync properties say:
* **SlotOwnership**: a job whose request is in flight and not yet done holds a used slot, and no
  other such job holds the same slot.
* **BoundedInFlight**: the free permits, the jobs between `sem_wait` and taking a slot, and the
  used slots together never exceed `TaskNum`. Without this, `async_get_free_task` could pass the
  semaphore and find no free slot.
* **CallbackOnLiveFrame**: while the callback runs `done = 1`, the release and the wake, the frame
  it uses belongs to a call that has not returned. Only the three violation runs check it.
  `async_safety` turns off each way a frame can be left: no spurious resume, resolved requests
  dropped, and two jobs. With those off the property would only say that the wake is the
  callback's last step, so `async_safety` does not check it.
* **AllCallsReturn**: every call eventually returns.
* **ImplementsDoCrypto**: `RsaAsync` refines `RsaDoCrypto`. A call's `req.status` is written once,
  together with `op.done`, and the call returns success only if its own request was answered
  with 0. `async_safety` checks it over 645k distinct states in about 1.5 minutes.

Bounds. Two slots are the fewest that allow wrap-around of `rid` and `sid`, a slot reuse while
another is in use, and a full pool. Two or three jobs with two or three calls each reach a reuse
of a frame (a second call of the same job) while another job is in flight.
`async_safety` uses two jobs without symmetry, because it checks liveness. With three jobs and no
symmetry it reaches 4.7M distinct states and takes 20 minutes, and it still passes. One fault of each kind is
enough to reach every error path. A second submit failure is what exhausts a two-slot pool.
With two jobs, the fatal drain in `async_safety` cannot meet the stale `task[]` entry of an
early completion. That case needs a third job (`early_completion`).

Fairness. Each job is weakly fair on its own steps. A parked job is weakly fair on resuming once it
has been woken (the async framework resumes a woken job). The poll thread is weakly fair on every
step except the fatal drain, which is a fault and not something the system is bound to do.
`sem_wait` is not FIFO, but with a bounded number of calls weak fairness suffices. When every job
has made all its calls, the system stops (`Terminating`), so deadlock checking stays on.

### `MC_RsaOps`

| Run | Threads | Methods, inputs | Checks | Expect |
|---|---|---|---|---|
| `result_leak` | 1 | all four; hardware sizes | NoLeak | violation |
| `raw_output` | 1 | decrypt; hardware sizes | PrivateFailureLeavesNoRaw | violation |
| `over_read` | 1 | all four; inputs shorter than the modulus | CopyWithinInput | violation |
| `verify_long` | 1 | verify; inputs longer than the modulus | OutcomeMatchesSoft | violation |

What the properties say:
* **OutcomeMatchesSoft**: a method succeeds exactly when the software method would, and on success
  `to` holds the correct output. Every failure of every step is enabled, so this covers the whole
  fallback contract.
* **EngineResourcesReleased** and **NoDoubleFree**: the goto ladder frees every engine resource
  exactly once on every path.
* **InitOnce**: two threads racing through the unlocked check initialise the hardware once.
* **NoLeak** also counts the result BIGNUM.
* **PrivateFailureLeavesNoRaw**: a failed decryption leaves no raw private-key output in `to`.
* **CopyWithinInput**: the memcpy into the request stays within `flen`.

The passing run for the methods is `engine_safety` (below), which composes one method thread
with one keygen thread.

Bounds. One operation per thread suffices, because methods share no state other than init. Every
input combination of the listed classes is an initial state. `engine_safety` fixes the length at
the one the code handles as intended. The other lengths are the subject of `over_read` and
`verify_long`. Key sizes below 512 bits are left out of the method thread of `engine_safety`
too. With them and `pub_verify`, OutcomeMatchesSoft is violated: public_verify
returns failure where every other method falls back to software. PROJECT.json lists this as a
hazard.

### `MC_RsaKeygen` (RsaKeygen: methods and keygen together)

| Run | Threads | Inputs | Checks | Expect |
|---|---|---|---|---|
| `engine_safety` | 1 method + 1 keygen | all four methods, hardware or software sizes, intended length; keygen bits below 512, hardware or software sizes; PrimeBits 12, e = 3 | TypeOK, OutcomeMatchesSoft, EngineResourcesReleased, NoDoubleFree, InitOnce, KgTypeOK, KgStructsReleased, KgOutcomeMatchesSoft, PrimesValid, NoLengthRetry, ResourcesMatchPid, UninitSafe, ImplementsInitContract | pass |
| `keygen_ownership` | 1 keygen | hardware sizes | KeygenOwnership | violation |
| `primes_ret` | 1 keygen | hardware sizes; PrimeBits 12, e = 3 | KgPrimesGenerated | violation |

What the keygen properties say:
* **KgStructsReleased**: the parameter structs and the session are released exactly once before
  the keygen returns or falls back.
* **KgOutcomeMatchesSoft**: a keygen that returns succeeds exactly when the software keygen would,
  so a hardware failure is never reported to the caller.
* **InitOnce**: now a method thread and a keygen thread race the unlocked pid check.
* **ResourcesMatchPid**: the wd resources are held exactly when the pid says the process is
  initialised. Every failure of `uadk_e_wd_rsa_init`, at every step and in either mode,
  releases what it took; a success holds the whole set; teardown releases it again.
* **UninitSafe**: teardown never reads the config through a stale `ctx_res`. A failed init
  leaves that pointer dangling, and only the pid check of `uadk_e_rsa_uninit` protects it.
* **ImplementsInitContract**: `RsaKeygen` defines `InitContract == INSTANCE RsaInitContract WITH
  inited <- pid, calling <- [t \in Threads |-> ipc[t] \in {"check", "lock", "locked"}],
  result <- iret`. The contract makes each call of `uadk_e_rsa_init` atomic: with the process
  initialised it returns success and changes nothing; otherwise it fails and leaves the pid unset,
  or sets it and succeeds. Teardown clears the pid only while no call is in progress. Entering
  `"check"` is `Begin`. The return from `InitCheck` or `InitLocked` is `Finish`. `EngineDestroy`
  is `TearDown`, and `InitLock` is a stutter. The check shows that the unlocked read, the spin and
  the re-check add nothing a caller can observe. A pid written before the setup can fail would
  break it.
* **KeygenOwnership**: when the keygen leaves the hardware path, every object it allocated is
  freed or owned by the RSA object, and the RSA object owns no freed BIGNUM. TLC's shortest
  counterexample is the e/p/q leak. The same property also catches three other cases, each
  confirmed reachable with an invariant about that case alone:
  * the freed n and d of `rsa_get_keygen_param`;
  * the `kg_in` of a failed `wd_rsa_new_kg_out`;
  * the use of a freed BIGNUM by the software keygen.

* **PrimesValid**: when the loop of `rsa_primes_gen` ends, `rsa_p` and `rsa_q` are distinct
  primes, each with `prime - 1` invertible mod e, and their product has exactly `PrimeBits` bits.
* **NoLengthRetry**: the length test never fails for two primes, as the code's comment says. So
  the unlocked static `retries` is never written by a REDO.
* **KgPrimesGenerated**: once the keygen has taken the prime generation as successful,
  `bn_param->p` and `q` hold a valid pair, the larger in p.

`engine_safety` reaches 5.0M distinct states in about two and a half minutes, in both env modes, ending
with the engine's teardown. Every failure branch of both
threads is enabled, including the NULL `BN_new` results.

Bounds of the prime search. With `PrimeBits` = 12 each prime has 6 bits, and the candidates are
53, 59 and 61. Each case the loop tells apart is reached: 61 is useless for e = 3 (60 is a
multiple of 3), the second draw may repeat the first (`check_prime_equal`), and 53 and 59 make
a valid pair. A 12-bit key keeps the same `bitsr` split, `bitse - 4` shift and four-bit window
as a real one.

Fairness in RsaOps: weak fairness of each thread's steps. The spinlock is free again after one
step of its holder. Deadlock checking is on, and `Terminating` allows stopping once every thread
has returned.


## 4. Findings

See `findings` in PROJECT.json. In short:
1. **permit_leak.** A failed submission permanently removes a permit from `empty_sem`. After
   `TaskNum` failures, every asynchronous RSA call hangs.
2. **spurious_resume.** The callback publishes `done` before it finishes using `op`. A spurious
   resume in between lets the job return, and the callback then touches a dead stack frame.
3. **late_completion.** A fatal drain fails the waiting calls, but their requests stay queued, and
   the later completion calls back into a dead frame.
4. **early_completion.** Submission precedes registration. A completion delivered before
   registration leaves a stale `task[]` entry that a later fatal drain resolves.

5. **result_leak.** `BN_bin2bn(dst, len, NULL)` allocates the result BIGNUM, and nothing frees
   it. This leaks on every hardware RSA operation (uadk_rsa.c 1412, 1497, 1606, 1703).
6. **raw_output.** `req.dst` is the caller's `to`. When a private decryption fails after the
   hardware ran, the software method fails as well and leaves `to` untouched, so the raw
   `c^d mod n` stays in the caller's buffer.
7. **over_read.** Decrypt and verify `memcpy` `key_size` bytes from a `from` of `flen` bytes.
8. **verify_long.** public_verify lacks the `flen > num_bytes` check. The hardware verifies the
   first `key_size` bytes of an over-long signature, which the software method would reject.
9. **keygen_ownership.** `rsa_keygen_param_free` frees the structs but not `bn_param`'s e, p and
   q. Every software fallback of a keygen after the allocation leaks three BIGNUMs. The model
   also reaches two further keygen bugs, which no run of their own exhibits:
   * on a NULL CRT value, `rsa_get_keygen_param` frees `n` and `d` after handing them to the RSA
     object;
   * on a failed `kg_out`, the keygen leaks `kg_in`.
10. **primes_ret.** `rsa_primes_gen` returns `ret` as it stands from its `err` label. That is
    `BN_ERR` (-1) when a callback or `BN_mul` fails in `check_prime_sufficient`, or `BN_CONTINUE`
    (1) left from the first prime when the search for the second fails. The caller tests only
    `if (!ret)`. It takes both as success and runs the hardware keygen with p and q still zero.
    The unchecked `BN_copy` results of `switch_p_q` lead to the same state.

## 5. Not modelled

* The async core's implementation (not in this tree). It is modelled from spec.md.
* Weak memory ordering of `done` and `req.status`: the model is sequentially consistent.
* Arithmetic of RSA itself. The operations are modelled by their control flow and resources.
* A change of `uadk_e_is_env_enabled` between init and uninit. Uninit re-reads it, but its source
  is outside this tree, so the model fixes the mode for the process (PROJECT.json lists the
  hazard). `uadk_e_delete_rsa_meth` and `pthread_spin_destroy` in `uadk_e_destroy_rsa` hold no
  state a property tells apart.
* The primality test of `BN_generate_prime_ex`. It is abstracted to the set of primes it may
  return.
* Failure of `async_pause_job`. Its source is outside this tree, and spec.md does not say where
  it fails. Wherever it fails, the submitted request stays queued on a returned frame, which is
  the situation of `late_completion`.
* Key completeness after a hardware keygen. A NULL `d` is accepted by `RSA_set0_key`, so the
  keygen can succeed without a private exponent. The model tracks BIGNUM ownership, not which
  fields of the key are set.
* The env-variable poll mode (`uadk_e_rsa_env_poll`). The application polls instead of the poll
  thread.
* Method tables, engine bind/destroy, and scheduler hooks. They are registration glue.
