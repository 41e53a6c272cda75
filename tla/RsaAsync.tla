------------------------------ MODULE RsaAsync ------------------------------
(***************************************************************************)
(* The asynchronous request path of the uadk engine's RSA methods:         *)
(*   - rsa_do_crypto (src/src/uadk_rsa.c), run by every caller (an OpenSSL *)
(*     ASYNC job) that offloads an RSA operation;                          *)
(*   - uadk_e_rsa_cb, the completion callback the accelerator driver       *)
(*     invokes from inside wd_rsa_poll_ctx;                                *)
(*   - uadk_e_rsa_poll, the drain function registered for ASYNC_TASK_RSA;  *)
(*   - the async core those functions call (async_get_free_task,           *)
(*     async_free_poll_task, async_pause_job, async_wake_job and the poll  *)
(*     thread), whose source is not in this repository: it is modelled     *)
(*     from spec.md sections 3-5 and the layout of struct async_poll_queue *)
(*     in src/src/uadk_async.h (status[], sid, rid, empty_sem, full_sem).  *)
(*                                                                         *)
(* A request is identified by the frame of rsa_do_crypto that submitted    *)
(* it: the job and the number of its call.  cb_param and op live on that   *)
(* frame's stack, so a callback for a request whose frame has returned     *)
(* touches dead memory.                                                    *)
(***************************************************************************)
EXTENDS Integers, FiniteSets

CONSTANTS
  Jobs,           \* the callers: OpenSSL ASYNC jobs running RSA operations
  TaskNum,        \* ASYNC_QUEUE_TASK_NUM, the number of slots of the pool
  MaxCalls,       \* rsa_do_crypto calls made by each job (bounds the model)
  MaxSubmitFail,  \* fatal returns of wd_do_rsa_async allowed in a behaviour
  MaxDrainFail,   \* fatal returns of wd_rsa_poll_ctx allowed in a behaviour
  SpuriousResume, \* TRUE: the application may resume a paused job whose
                  \* event fd was not written (ASYNC_start_job on any event)
  LateCompletion, \* TRUE: requests resolved after a failed drain stay queued
                  \* and may still be returned; FALSE: the queue drops them
  NoOp            \* the NULL task->op of a slot that is not yet paused on

ASSUME /\ Jobs # {}
       /\ TaskNum \in Nat \ {0}
       /\ MaxCalls \in Nat \ {0}
       /\ MaxSubmitFail \in Nat /\ MaxDrainFail \in Nat
       /\ SpuriousResume \in BOOLEAN /\ LateCompletion \in BOOLEAN

Slots == 0 .. TaskNum - 1

\* A submitted request, named by the rsa_do_crypto frame that owns its op.
Req == [job : Jobs, call : 1 .. MaxCalls]

\* Program counter of a job inside rsa_do_crypto ("idle": not in it).
JobPc == {"idle", "wait_slot", "take_slot", "submit", "pause", "parked"}

\* Program counter of the poll thread.
PollPc == {"wait", "scan", "drain", "resolve", "complete", "free", "wake"}

VARIABLES
  pc,          \* per job: where it is in rsa_do_crypto
  calls,       \* per job: number of rsa_do_crypto calls started
  done,        \* per job: op.done of the current frame
  idx,         \* per job: op.idx of the current frame
  reqStatus,   \* per job: rsa_sess->req.status of the current call
  woken,       \* per job: its event fd has been written (async_wake_job)
  ret,         \* per job: what the last rsa_do_crypto returned
  status,      \* poll_queue.status[]: 1 while a slot is in use
  rid,         \* poll_queue cursor where async_get_free_task starts looking
  sid,         \* poll_queue cursor where the poll thread starts looking
  empty,       \* count of empty_sem: slots a submitter may still take
  full,        \* count of full_sem: paused tasks not yet picked up
  task,        \* task[i].op: the frame registered on slot i by pause
  hw,          \* requests queued in the accelerator, not yet received
  poll,        \* the poll thread: its pc, slot, request and callback data
  submitFails, \* fatal wd_do_rsa_async returns so far
  drainFails   \* fatal wd_rsa_poll_ctx returns so far

jobVars  == <<pc, calls, done, idx, reqStatus, woken, ret>>
poolVars == <<status, rid, sid, empty, full, task>>
vars     == <<jobVars, poolVars, hw, poll, submitFails, drainFails>>

-----------------------------------------------------------------------------
(* Helpers *)

\* The frame of job j's current call.
Frame(j) == [job |-> j, call |-> calls[j]]

\* Request r's frame has not returned: its cb_param and op are still valid.
Live(r) == pc[r.job] # "idle" /\ calls[r.job] = r.call

\* Distance from cursor a forward to slot b around the circular pool.
CircDist(a, b) == (b - a + TaskNum) % TaskNum

\* The first slot of the nonempty set S met going round from cursor c.
FirstFrom(S, c) == CHOOSE s \in S : \A t \in S : CircDist(c, s) <= CircDist(c, t)

Goto(j, l) == pc' = [pc EXCEPT ![j] = l]

SetPoll(l) == poll' = [poll EXCEPT !.pc = l]

\* Where the poll thread goes when a callback or a resolution is over.
AfterCb == IF poll.cb THEN "wait" ELSE "resolve"

-----------------------------------------------------------------------------
(* Faults a change to this code could plausibly introduce.  Each is the    *)
(* action named after it with one thing changed; the properties below are  *)
(* checked to fail when it replaces that action.                           *)

\* TakeSlot advancing rid without wrapping it round the pool.
TakeSlotNoWrap(j) ==
  /\ pc[j] = "take_slot"
  /\ \E i \in {s \in Slots : status[s] = 0} :
       /\ i = FirstFrom({s \in Slots : status[s] = 0}, rid)
       /\ status' = [status EXCEPT ![i] = 1]
       /\ rid' = i + 1
       /\ task' = [task EXCEPT ![i] = NoOp]
       /\ idx' = [idx EXCEPT ![j] = i]
       /\ Goto(j, "submit")
  /\ UNCHANGED <<calls, done, reqStatus, woken, ret, sid, empty, full, hw, poll,
                 submitFails, drainFails>>

\* TakeSlot handing out the slot at rid without testing status[].
TakeSlotAtCursor(j) ==
  /\ pc[j] = "take_slot"
  /\ status' = [status EXCEPT ![rid] = 1]
  /\ rid' = (rid + 1) % TaskNum
  /\ task' = [task EXCEPT ![rid] = NoOp]
  /\ idx' = [idx EXCEPT ![j] = rid]
  /\ Goto(j, "submit")
  /\ UNCHANGED <<calls, done, reqStatus, woken, ret, sid, empty, full, hw, poll,
                 submitFails, drainFails>>

\* WaitSlot that tests empty_sem but does not take a permit.
WaitSlotNoDecrement(j) ==
  /\ pc[j] = "wait_slot"
  /\ empty > 0
  /\ Goto(j, "take_slot")
  /\ UNCHANGED <<calls, done, idx, reqStatus, woken, ret, poolVars, hw, poll,
                 submitFails, drainFails>>

\* PauseJob that registers the task but never posts full_sem.
PauseJobNoPost(j) ==
  /\ pc[j] = "pause"
  /\ task' = [task EXCEPT ![idx[j]] = Frame(j)]
  /\ Goto(j, "parked")
  /\ UNCHANGED <<calls, done, idx, reqStatus, woken, ret, status, rid, sid,
                 empty, full, hw, poll, submitFails, drainFails>>

\* A failed drain that returns to waiting without resolving any op.
DrainFailNoResolve ==
  LET resolved == {task[s] : s \in {t \in Slots : status[t] = 1 /\ task[t] # NoOp}}
  IN /\ poll.pc = "drain"
     /\ drainFails < MaxDrainFail
     /\ drainFails' = drainFails + 1
     /\ poll' = [poll EXCEPT !.pc = "resolve", !.todo = {}]
     /\ hw' = IF LateCompletion THEN hw ELSE hw \ resolved
     /\ UNCHANGED <<jobVars, poolVars, submitFails>>

\* Resume returning UADK_E_SUCCESS without the req.status test.
ResumeIgnoresStatus(j) ==
  /\ pc[j] = "parked"
  /\ woken[j] \/ SpuriousResume
  /\ woken' = [woken EXCEPT ![j] = FALSE]
  /\ IF done[j]
     THEN /\ Goto(j, "idle")
          /\ ret' = [ret EXCEPT ![j] = "ok"]
     ELSE UNCHANGED <<pc, ret>>
  /\ UNCHANGED <<calls, done, idx, reqStatus, poolVars, hw, poll,
                 submitFails, drainFails>>

-----------------------------------------------------------------------------
(* rsa_do_crypto, lines 1004-1054, one action per step between shared     *)
(* accesses.                                                               *)

\* async_setup_async_event_notification (memset op, op.job = current job),
\* then the async branch: cb_param, req.cb and req.status = -1.
Setup(j) ==
  /\ pc[j] = "idle"
  /\ calls[j] < MaxCalls
  /\ calls' = [calls EXCEPT ![j] = @ + 1]
  /\ done' = [done EXCEPT ![j] = FALSE]
  /\ reqStatus' = [reqStatus EXCEPT ![j] = -1]
  /\ Goto(j, "wait_slot")
  /\ UNCHANGED <<idx, woken, ret, poolVars, hw, poll, submitFails, drainFails>>

\* A call that never reaches the pool: setup of the event fd fails
\* (return UADK_E_FAIL), or op.job is NULL and wd_do_rsa_sync runs.
SetupFailOrSync(j) ==
  /\ pc[j] = "idle"
  /\ calls[j] < MaxCalls
  /\ calls' = [calls EXCEPT ![j] = @ + 1]
  /\ done' = [done EXCEPT ![j] = FALSE]
  /\ \E r \in {"ok", "fail"} : ret' = [ret EXCEPT ![j] = r]
  /\ UNCHANGED <<pc, idx, reqStatus, woken, poolVars, hw, poll,
                 submitFails, drainFails>>

\* async_get_free_task, first half: sem_wait(&empty_sem).
WaitSlot(j) ==
  /\ pc[j] = "wait_slot"
  /\ empty > 0
  /\ empty' = empty - 1
  /\ Goto(j, "take_slot")
  /\ UNCHANGED <<calls, done, idx, reqStatus, woken, ret, status, rid, sid,
                 full, task, hw, poll, submitFails, drainFails>>

\* async_get_free_task, second half, under the queue mutex: the first free
\* slot from rid; none free returns 0 and rsa_do_crypto goes to err.
TakeSlot(j) ==
  /\ pc[j] = "take_slot"
  /\ LET free == {s \in Slots : status[s] = 0} IN
     IF free # {}
     THEN LET i == FirstFrom(free, rid) IN
          /\ status' = [status EXCEPT ![i] = 1]
          /\ rid' = (i + 1) % TaskNum
          /\ task' = [task EXCEPT ![i] = NoOp]
          /\ idx' = [idx EXCEPT ![j] = i]
          /\ Goto(j, "submit")
          /\ ret' = ret
     ELSE /\ Goto(j, "idle")
          /\ ret' = [ret EXCEPT ![j] = "fail"]
          /\ UNCHANGED <<status, rid, task, idx>>
  /\ UNCHANGED <<calls, done, reqStatus, woken, sid, empty, full, hw, poll,
                 submitFails, drainFails>>

\* wd_do_rsa_async accepts the request (after any -EBUSY retries): from now
\* on the accelerator may complete it and call uadk_e_rsa_cb.
SubmitOk(j) ==
  /\ pc[j] = "submit"
  /\ hw' = hw \cup {Frame(j)}
  /\ Goto(j, "pause")
  /\ UNCHANGED <<calls, done, idx, reqStatus, woken, ret, poolVars, poll,
                 submitFails, drainFails>>

\* wd_do_rsa_async fails: async_free_poll_task(op.idx, 0) clears the slot
\* without posting empty_sem, then err: returns UADK_E_FAIL.
SubmitFail(j) ==
  /\ pc[j] = "submit"
  /\ submitFails < MaxSubmitFail
  /\ submitFails' = submitFails + 1
  /\ status' = [status EXCEPT ![idx[j]] = 0]
  /\ ret' = [ret EXCEPT ![j] = "fail"]
  /\ Goto(j, "idle")
  /\ UNCHANGED <<calls, done, idx, reqStatus, woken, rid, sid, empty, full,
                 task, hw, poll, drainFails>>

\* async_pause_job: record the frame in task[idx], sem_post(&full_sem),
\* then ASYNC_pause_job.
PauseJob(j) ==
  /\ pc[j] = "pause"
  /\ task' = [task EXCEPT ![idx[j]] = Frame(j)]
  /\ full' = full + 1
  /\ Goto(j, "parked")
  /\ UNCHANGED <<calls, done, idx, reqStatus, woken, ret, status, rid, sid,
                 empty, hw, poll, submitFails, drainFails>>

\* The job is resumed, reads its event fd and tests op.done: if set,
\* async_pause_job returns and rsa_do_crypto returns by req.status
\* (lines 1046-1049); if not, it pauses again.
Resume(j) ==
  /\ pc[j] = "parked"
  /\ woken[j] \/ SpuriousResume
  /\ woken' = [woken EXCEPT ![j] = FALSE]
  /\ IF done[j]
     THEN /\ Goto(j, "idle")
          /\ ret' = [ret EXCEPT ![j] = IF reqStatus[j] = 0 THEN "ok" ELSE "fail"]
     ELSE UNCHANGED <<pc, ret>>
  /\ UNCHANGED <<calls, done, idx, reqStatus, poolVars, hw, poll,
                 submitFails, drainFails>>

-----------------------------------------------------------------------------
(* The poll thread: async_get_queue_task, the registered drain function   *)
(* uadk_e_rsa_poll, and uadk_e_rsa_cb run from inside wd_rsa_poll_ctx.    *)

\* sem_wait(&full_sem).
PollWait ==
  /\ poll.pc = "wait"
  /\ full > 0
  /\ full' = full - 1
  /\ SetPoll("scan")
  /\ UNCHANGED <<jobVars, status, rid, sid, empty, task, hw,
                 submitFails, drainFails>>

\* Under the mutex, the first slot in use from sid; none: back to waiting.
PollScan ==
  /\ poll.pc = "scan"
  /\ LET used == {s \in Slots : status[s] = 1} IN
     IF used # {}
     THEN LET i == FirstFrom(used, sid) IN
          /\ sid' = (i + 1) % TaskNum
          /\ poll' = [poll EXCEPT !.pc = "drain", !.slot = i]
     ELSE /\ SetPoll("wait")
          /\ sid' = sid
  /\ UNCHANGED <<jobVars, status, rid, empty, full, task, hw,
                 submitFails, drainFails>>

\* uadk_e_rsa_poll: wd_rsa_poll_ctx(CTX_ASYNC, 1, &recv) spins on -EAGAIN
\* until the accelerator returns some request r (any queued one, not the
\* slot's) with status st, and calls uadk_e_rsa_cb on it.
DrainRecv ==
  /\ poll.pc = "drain"
  /\ \E r \in hw, st \in {0, 1} :
       /\ hw' = hw \ {r}
       /\ poll' = [poll EXCEPT !.pc = "complete", !.req = r, !.cb = TRUE,
                               !.st = st]
  /\ UNCHANGED <<jobVars, poolVars, submitFails, drainFails>>

\* wd_rsa_poll_ctx fails (ret < 0, not -EAGAIN): uadk_e_rsa_poll returns it
\* and the poll thread resolves, as failed and without a status, every op
\* registered on a slot in use (spec.md 4.3, 4.4); a slot not yet paused on
\* has no op to resolve.  Nothing cancels the resolved requests: unless the
\* queue dropped them they may still be returned later.
DrainFail ==
  LET resolved == {task[s] : s \in {t \in Slots : status[t] = 1 /\ task[t] # NoOp}}
  IN /\ poll.pc = "drain"
     /\ drainFails < MaxDrainFail
     /\ drainFails' = drainFails + 1
     /\ poll' = [poll EXCEPT !.pc = "resolve", !.todo = resolved]
     /\ hw' = IF LateCompletion THEN hw ELSE hw \ resolved
     /\ UNCHANGED <<jobVars, poolVars, submitFails>>

\* The next op to resolve after a failed drain, or back to waiting.
Resolve ==
  /\ poll.pc = "resolve"
  /\ IF poll.todo = {}
     THEN SetPoll("wait")
     ELSE \E r \in poll.todo :
            poll' = [poll EXCEPT !.pc = "complete", !.req = r, !.cb = FALSE,
                                 !.todo = @ \ {r}]
  /\ UNCHANGED <<jobVars, poolVars, hw, submitFails, drainFails>>

\* uadk_e_rsa_cb, lines 986-998: req_origin->status = req_new->status;
\* if op->job && !op->done then op->done = 1.  The resolution of a failed
\* drain takes the same step without writing a status.
CbComplete ==
  LET j == poll.req.job IN
  /\ poll.pc = "complete"
  /\ reqStatus' = IF poll.cb THEN [reqStatus EXCEPT ![j] = poll.st]
                             ELSE reqStatus
  /\ IF ~done[j]
     THEN /\ done' = [done EXCEPT ![j] = TRUE]
          /\ SetPoll("free")
     ELSE /\ done' = done
          /\ SetPoll(AfterCb)
  /\ UNCHANGED <<pc, calls, idx, woken, ret, poolVars, hw,
                 submitFails, drainFails>>

\* async_free_poll_task(op->idx, 1): clear the slot, sem_post(&empty_sem).
CbFree ==
  LET j == poll.req.job IN
  /\ poll.pc = "free"
  /\ status' = [status EXCEPT ![idx[j]] = 0]
  /\ empty' = empty + 1
  /\ SetPoll("wake")
  /\ UNCHANGED <<jobVars, rid, sid, full, task, hw, submitFails, drainFails>>

\* async_wake_job(op->job): write the job's event fd.
CbWake ==
  LET j == poll.req.job IN
  /\ poll.pc = "wake"
  /\ woken' = [woken EXCEPT ![j] = TRUE]
  /\ SetPoll(AfterCb)
  /\ UNCHANGED <<pc, calls, done, idx, reqStatus, ret, poolVars, hw,
                 submitFails, drainFails>>

-----------------------------------------------------------------------------

Init ==
  /\ pc = [j \in Jobs |-> "idle"]
  /\ calls = [j \in Jobs |-> 0]
  /\ done = [j \in Jobs |-> FALSE]
  /\ idx = [j \in Jobs |-> 0]
  /\ reqStatus = [j \in Jobs |-> -1]
  /\ woken = [j \in Jobs |-> FALSE]
  /\ ret = [j \in Jobs |-> "none"]
  /\ status = [s \in Slots |-> 0]
  /\ rid = 0
  /\ sid = 0
  /\ empty = TaskNum
  /\ full = 0
  /\ task = [s \in Slots |-> NoOp]
  /\ hw = {}
  /\ poll = [pc |-> "wait", slot |-> 0, req |-> NoOp, cb |-> TRUE, st |-> 0,
             todo |-> {}]
  /\ submitFails = 0
  /\ drainFails = 0

\* Every job has made all its calls and returned from the last one.
Finished == \A j \in Jobs : pc[j] = "idle" /\ calls[j] = MaxCalls

Terminating == Finished /\ UNCHANGED vars

JobStep(j) ==
  \/ Setup(j) \/ SetupFailOrSync(j) \/ WaitSlot(j) \/ TakeSlot(j)
  \/ SubmitOk(j) \/ SubmitFail(j) \/ PauseJob(j) \/ Resume(j)

PollStep ==
  \/ PollWait \/ PollScan \/ DrainRecv \/ DrainFail \/ Resolve
  \/ CbComplete \/ CbFree \/ CbWake

Next == (\E j \in Jobs : JobStep(j)) \/ PollStep \/ Terminating

\* A job that is inside rsa_do_crypto keeps running (its thread is not
\* descheduled forever), the poll thread keeps running, and the accelerator
\* eventually returns a queued request.  Starting a call, failures and
\* spurious resumes are never forced.
Fairness ==
  /\ \A j \in Jobs : WF_vars(WaitSlot(j) \/ TakeSlot(j) \/ SubmitOk(j)
                             \/ PauseJob(j))
  /\ \A j \in Jobs : WF_vars(pc[j] = "parked" /\ woken[j] /\ Resume(j))
  /\ WF_vars(PollWait \/ PollScan \/ DrainRecv \/ Resolve \/ CbComplete
             \/ CbFree \/ CbWake)

Spec == Init /\ [][Next]_vars /\ Fairness

\* rsa_do_crypto as its callers see it (RsaDoCrypto): a job is busy from
\* Setup until it returns, its request is answered when op.done is set,
\* and the answer is req.status.  calls and ret are the same variables.
DoCrypto == INSTANCE RsaDoCrypto WITH
  busy     <- [j \in Jobs |-> pc[j] # "idle"],
  answered <- done,
  status   <- reqStatus

-----------------------------------------------------------------------------
(* Properties *)

\* Every variable holds a value of its type.
TypeOK ==
  /\ pc \in [Jobs -> JobPc]
  /\ calls \in [Jobs -> 0 .. MaxCalls]
  /\ done \in [Jobs -> BOOLEAN]
  /\ idx \in [Jobs -> Slots]
  /\ reqStatus \in [Jobs -> {-1, 0, 1}]
  /\ woken \in [Jobs -> BOOLEAN]
  /\ ret \in [Jobs -> {"none", "ok", "fail"}]
  /\ status \in [Slots -> {0, 1}]
  /\ rid \in Slots /\ sid \in Slots
  /\ empty \in 0 .. TaskNum
  /\ full \in 0 .. Cardinality(Jobs) * MaxCalls
  /\ task \in [Slots -> Req \cup {NoOp}]
  /\ hw \subseteq Req
  /\ poll \in [pc : PollPc, slot : Slots, req : Req \cup {NoOp},
               cb : BOOLEAN, st : {0, 1}, todo : SUBSET Req]
  /\ submitFails \in 0 .. MaxSubmitFail
  /\ drainFails \in 0 .. MaxDrainFail

\* A job between taking a slot and its completion still owns that slot: no
\* other such job holds the same index and the slot is marked in use.
\* (async_get_free_task's scan under the mutex against the frees done by the
\* callback, by the submit error path and by failed drains.)
InFlight(j) == pc[j] \in {"submit", "pause", "parked"} /\ ~done[j]

SlotOwnership ==
  \A j \in Jobs : InFlight(j) =>
     /\ status[idx[j]] = 1
     /\ \A k \in Jobs \ {j} : InFlight(k) => idx[k] # idx[j]

\* empty_sem never promises more slots than the pool has: permits, takers
\* that hold one, and slots in use never add up past ASYNC_QUEUE_TASK_NUM,
\* so async_get_free_task never finds the pool exhausted after sem_wait.
BoundedInFlight ==
  empty + Cardinality({j \in Jobs : pc[j] = "take_slot"})
        + Cardinality({s \in Slots : status[s] = 1}) <= TaskNum

\* uadk_e_rsa_cb (and the resolution of a failed drain) only runs on a
\* request whose rsa_do_crypto frame is still live: cb_param and op are on
\* that frame's stack and op->idx and op->job are read after op->done = 1.
CallbackOnLiveFrame ==
  poll.pc \in {"complete", "free", "wake"} => Live(poll.req)

\* Refinement: rsa_do_crypto implements its contract.  Each busy call's
\* request is answered at most once and its req.status is never changed
\* after op.done is set; a call returns UADK_E_SUCCESS only when its own
\* request was answered with status 0 (the req.status test after
\* async_pause_job); every busy call eventually returns.
ImplementsDoCrypto == DoCrypto!Spec

\* Every call of rsa_do_crypto eventually returns: no caller stays parked
\* or blocked on empty_sem forever.
AllCallsReturn == \A j \in Jobs : (pc[j] # "idle") ~> (pc[j] = "idle")

=============================================================================
