------------------------------- MODULE NgxLock -------------------------------
(***************************************************************************)
(* What ngx_mutex_lock and ngx_mutex_unlock promise the threads of a worker:  *)
(* one of them at a time is between the two.                                  *)
(***************************************************************************)
CONSTANTS LkThreads, LkNobody

VARIABLE holder

Lock(t) == holder = LkNobody /\ holder' = t
Unlock(t) == holder = t /\ holder' = LkNobody

LkInit == holder = LkNobody
LkNext == \E t \in LkThreads : Lock(t) \/ Unlock(t)
LkSpec == LkInit /\ [][LkNext]_holder
=============================================================================
