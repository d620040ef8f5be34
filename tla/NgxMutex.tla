------------------------------ MODULE NgxMutex ------------------------------
(***************************************************************************)
(* The mutex of rfork()ed threads (ngx_freebsd_rfork_thread.c): one word, of *)
(* which a bit says that the mutex is locked and the rest counts the threads  *)
(* that wait on a SysV semaphore, changed by compare-and-set only.            *)
(* A step is one read of the word, one compare-and-set or one semop.          *)
(***************************************************************************)
EXTENDS Integers, FiniteSets

CONSTANTS
    MxThreads,      \* the threads of the worker (nthreads of them)
    MxLight         \* NGX_MUTEX_LIGHT: no semaphore, sched_yield instead

ASSUME MxAssumption == IsFiniteSet(MxThreads) /\ MxLight \in BOOLEAN

VARIABLES
    word,       \* m->lock: NGX_MUTEX_LOCK_BUSY and the number of waiting threads
    sem,        \* the semaphore's value
    mx          \* mx[t]: where thread t is, and the value of the word it has read

mxvars == <<word, sem, mx>>

LockWords == [busy : {0, 1}, waiters : Nat]
Places == {"out", "read", "lock", "read_try", "try", "wait", "in", "read_unlock", "unlock",
           "read_wake", "wake", "post", "aborted"}

MxInit ==
    /\ word = [busy |-> 0, waiters |-> 0]
    /\ sem = 0
    /\ mx = [t \in MxThreads |-> [pc |-> "out", old |-> word]]

At(t, pc) == mx[t].pc = pc
Goto(t, pc) == mx' = [mx EXCEPT ![t] = [pc |-> pc, old |-> mx[t].old]]

(* old = m->lock *)
ReadWord(t, from, to) ==
    /\ At(t, from)
    /\ mx' = [mx EXCEPT ![t] = [pc |-> to, old |-> word]]
    /\ UNCHANGED <<word, sem>>

(* ngx_atomic_cmp_set(&m->lock, old, lock) *)
FaultCmpSet(t, lock, done, again) == word' = lock /\ Goto(t, done)
CmpSet(t, lock, done, again) ==
    \/ word = mx[t].old /\ word' = lock /\ Goto(t, done)
    \/ word # mx[t].old /\ UNCHANGED word /\ Goto(t, again)

-----------------------------------------------------------------------------
(* ngx_mutex_dolock.  A busy mutex is read again as long as a thread spins,   *)
(* or yields; then the thread counts itself among those that wait.            *)
Call(t) ==
    /\ At(t, "out")
    /\ Goto(t, "read") \/ Goto(t, "read_try")
    /\ UNCHANGED <<word, sem>>
Spin(t) == At(t, "lock") /\ mx[t].old.busy = 1 /\ Goto(t, "read") /\ UNCHANGED <<word, sem>>
TooMany(n) == n > Cardinality(MxThreads)
Register(t) ==
    /\ At(t, "lock") /\ mx[t].old.busy = 1 /\ ~MxLight
    /\ IF TooMany(mx[t].old.waiters + 1)
       THEN Goto(t, "aborted") /\ UNCHANGED word
       ELSE CmpSet(t, [busy |-> 1, waiters |-> mx[t].old.waiters + 1], "wait", "read")
    /\ UNCHANGED sem
SemDown(t) ==
    /\ At(t, "wait") /\ sem > 0
    /\ sem' = sem - 1 /\ Goto(t, "read")
    /\ UNCHANGED word
Take(t) ==
    /\ At(t, "lock") /\ mx[t].old.busy = 0
    /\ CmpSet(t, [mx[t].old EXCEPT !.busy = 1], "in", "read")
    /\ UNCHANGED sem
TryTake(t) ==
    /\ At(t, "try")
    /\ IF mx[t].old.busy = 1 THEN Goto(t, "out") /\ UNCHANGED word
       ELSE CmpSet(t, [mx[t].old EXCEPT !.busy = 1], "in", "read_try")
    /\ UNCHANGED sem

(* ngx_mutex_unlock: the bit is cleared; then the word is read again, and if  *)
(* nobody has locked it in the meantime and some wait, one of these is woken. *)
Release(t) ==
    /\ At(t, "unlock")
    /\ IF mx[t].old.busy = 0 THEN Goto(t, "aborted") /\ UNCHANGED word
       ELSE CmpSet(t, [mx[t].old EXCEPT !.busy = 0],
                   IF MxLight THEN "out" ELSE "read_wake", "read_unlock")
    /\ UNCHANGED sem
FaultNobodyWaits(old) == old.waiters <= 1
NobodyWaits(old) == old.waiters = 0
Unregister(t) ==
    /\ At(t, "wake")
    /\ IF mx[t].old.busy = 1 \/ NobodyWaits(mx[t].old) THEN Goto(t, "out") /\ UNCHANGED word
       ELSE CmpSet(t, [mx[t].old EXCEPT !.waiters = @ - 1], "post", "read_wake")
    /\ UNCHANGED sem
SemUp(t) ==
    /\ At(t, "post")
    /\ sem' = sem + 1 /\ Goto(t, "out")
    /\ UNCHANGED word

MxStep(t) ==
    \/ ReadWord(t, "read", "lock") \/ ReadWord(t, "read_try", "try")
    \/ Spin(t) \/ Register(t) \/ SemDown(t) \/ Take(t) \/ TryTake(t)
    \/ ReadWord(t, "in", "unlock") \/ ReadWord(t, "read_unlock", "unlock") \/ Release(t)
    \/ ReadWord(t, "read_wake", "wake") \/ Unregister(t) \/ SemUp(t)
MxNext == \E t \in MxThreads : Call(t) \/ MxStep(t)
MxSpec == MxInit /\ [][MxNext]_mxvars

-----------------------------------------------------------------------------
(* Who has the mutex, and the threads that wait on the semaphore. *)
Holds(t) == mx[t].pc \in {"in", "read_unlock", "unlock"}
Waiting == {t \in MxThreads : At(t, "wait")}
Posting == {t \in MxThreads : At(t, "post")}

MxTypeOK ==
    /\ word \in LockWords /\ sem \in Nat
    /\ mx \in [MxThreads -> [pc : Places, old : LockWords]]

(* One thread at a time has the mutex, and the bit says whether one has. *)
OneHolder ==
    /\ \A t, u \in MxThreads : Holds(t) /\ Holds(u) => t = u
    /\ word.busy = 1 <=> \E t \in MxThreads : Holds(t)

(* Neither ngx_abort() is reached: no more threads are counted as waiting     *)
(* than there are, and a thread that unlocks finds the mutex locked.          *)
NeverAborts == \A t \in MxThreads : ~At(t, "aborted")

(* No wakeup is lost: when the mutex is free and a thread is counted as       *)
(* waiting on the semaphore, one of the threads is about to wake it, or to    *)
(* take the mutex and wake it when it is done.                                *)
OnItsWay(t) ==
    \/ mx[t].pc \in {"read", "lock", "read_wake", "post"}
    \/ At(t, "wake") /\ mx[t].old.busy = 0 /\ mx[t].old.waiters > 0
NoLostWakeup ==
    word.busy = 0 /\ word.waiters > 0 => sem > 0 \/ \E t \in MxThreads : OnItsWay(t)

(* It is the lock the threads rely on. *)
MxHolder == IF \E t \in MxThreads : Holds(t) THEN CHOOSE t \in MxThreads : Holds(t) ELSE "nobody"
Lk == INSTANCE NgxLock WITH LkThreads <- MxThreads, LkNobody <- "nobody", holder <- MxHolder
IsALock == Lk!LkSpec
=============================================================================
