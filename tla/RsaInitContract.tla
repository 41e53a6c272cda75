--------------------------- MODULE RsaInitContract ---------------------------
(***************************************************************************)
(* What uadk_e_rsa_init (src/src/uadk_rsa.c) promises the methods and the  *)
(* keygen that call it, with the pid check, the spinlock and the wd setup  *)
(* hidden: each call takes effect at one instant.  If the process is       *)
(* initialised then, the call succeeds and changes nothing; otherwise it   *)
(* either fails (no device, or the wd setup failed) and leaves the process *)
(* uninitialised, or initialises it and succeeds.  Teardown               *)
(* (uadk_e_destroy_rsa) happens while no call is in progress.              *)
(*                                                                         *)
(* RsaInit, composed in RsaKeygen, is checked to implement this            *)
(* specification (ImplementsInitContract).                                 *)
(***************************************************************************)
CONSTANTS Threads

VARIABLES
  inited,    \* the process's RSA resources are initialised
  calling,   \* per thread: inside uadk_e_rsa_init
  result     \* per thread: what its last call returned

cvars == <<inited, calling, result>>

Init ==
  /\ inited = FALSE
  /\ calling = [t \in Threads |-> FALSE]
  /\ result = [t \in Threads |-> "ok"]

Begin(t) ==
  /\ ~calling[t]
  /\ calling' = [calling EXCEPT ![t] = TRUE]
  /\ UNCHANGED <<inited, result>>

\* The instant the call takes effect, and its return.
Finish(t) ==
  /\ calling[t]
  /\ calling' = [calling EXCEPT ![t] = FALSE]
  /\ IF inited
        THEN result' = [result EXCEPT ![t] = "ok"] /\ UNCHANGED inited
        ELSE \/ /\ \E r \in {"nodev", "err"} : result' = [result EXCEPT ![t] = r]
                /\ UNCHANGED inited
             \/ inited' = TRUE /\ result' = [result EXCEPT ![t] = "ok"]

TearDown ==
  /\ \A t \in Threads : ~calling[t]
  /\ inited' = FALSE
  /\ UNCHANGED <<calling, result>>

Next == TearDown \/ \E t \in Threads : Begin(t) \/ Finish(t)

Spec == Init /\ [][Next]_cvars
=============================================================================
