----------------------------- MODULE RsaDoCrypto -----------------------------
(***************************************************************************)
(* What rsa_do_crypto (src/src/uadk_rsa.c) promises the RSA methods that   *)
(* call it, with the pool, the poll thread and the callback hidden.  A     *)
(* call either completes at once (the event-fd setup fails, or there is no *)
(* ASYNC job and wd_do_rsa_sync runs), or it becomes busy.  While it is    *)
(* busy the accelerator may answer its request once, with a status, or    *)
(* the request may be abandoned after a failed drain (status -1, the       *)
(* req.status = -1 set before submission).  A busy call returns            *)
(* UADK_E_SUCCESS only when its own request was answered with status 0;    *)
(* every other return is UADK_E_FAIL.  Every busy call eventually returns. *)
(*                                                                         *)
(* RsaAsync is checked to implement this specification.                   *)
(***************************************************************************)
EXTENDS Integers

CONSTANTS Jobs, MaxCalls

VARIABLES
  busy,     \* per job: inside an asynchronous rsa_do_crypto call
  calls,    \* per job: calls started
  answered, \* per job: the request of the current call has been answered
  status,   \* per job: req.status of the current call
  ret       \* per job: what the last call returned

vars == <<busy, calls, answered, status, ret>>

\* -1: abandoned after a failed drain; 0: done; 1: the accelerator's error.
Statuses == {-1, 0, 1}

Init ==
  /\ busy = [j \in Jobs |-> FALSE]
  /\ calls = [j \in Jobs |-> 0]
  /\ answered = [j \in Jobs |-> FALSE]
  /\ status = [j \in Jobs |-> -1]
  /\ ret = [j \in Jobs |-> "none"]

\* A call that goes through the pool.
Call(j) ==
  /\ ~busy[j]
  /\ calls[j] < MaxCalls
  /\ busy' = [busy EXCEPT ![j] = TRUE]
  /\ calls' = [calls EXCEPT ![j] = @ + 1]
  /\ answered' = [answered EXCEPT ![j] = FALSE]
  /\ status' = [status EXCEPT ![j] = -1]
  /\ UNCHANGED ret

\* A call that returns without going through the pool.
ImmediateCall(j) ==
  /\ ~busy[j]
  /\ calls[j] < MaxCalls
  /\ calls' = [calls EXCEPT ![j] = @ + 1]
  /\ answered' = [answered EXCEPT ![j] = FALSE]
  /\ \E r \in {"ok", "fail"} : ret' = [ret EXCEPT ![j] = r]
  /\ UNCHANGED <<busy, status>>

\* The request of a busy call is answered, once.
Answer(j) ==
  /\ busy[j]
  /\ ~answered[j]
  /\ answered' = [answered EXCEPT ![j] = TRUE]
  /\ \E a \in Statuses : status' = [status EXCEPT ![j] = a]
  /\ UNCHANGED <<busy, calls, ret>>

\* A busy call returns: success exactly when it was answered with 0.
Return(j) ==
  /\ busy[j]
  /\ busy' = [busy EXCEPT ![j] = FALSE]
  /\ ret' = [ret EXCEPT ![j] = IF answered[j] /\ status[j] = 0 THEN "ok" ELSE "fail"]
  /\ UNCHANGED <<calls, answered, status>>

Done == \A j \in Jobs : ~busy[j] /\ calls[j] = MaxCalls

Next ==
  \/ \E j \in Jobs : Call(j) \/ ImmediateCall(j) \/ Answer(j) \/ Return(j)
  \/ Done /\ UNCHANGED vars

Spec == Init /\ [][Next]_vars /\ \A j \in Jobs : WF_vars(Return(j))
=============================================================================
