----------------------------- MODULE NgxThreads -----------------------------
(***************************************************************************)
(* The threads of a worker process (ngx_process_cycle.c, ngx_event_posted.c): *)
(* the main thread posts events and wakes a thread that looks free, the       *)
(* threads take posted events under ngx_posted_events_mutex, an event only    *)
(* when nobody has the lock of its connection, and handle them without the    *)
(* mutex.  The two kinds of condition variable (ngx_pthread_thread.c and      *)
(* ngx_freebsd_rfork_thread.c) lose signals on different occasions.           *)
(***************************************************************************)
EXTENDS Integers, Sequences, SequencesExt, FiniteSets

CONSTANTS
    ThKinds,        \* condition variables: "pthread", "rfork"
    ThNum,          \* ngx_threads_n
    ThConnOf,       \* a sequence: ThConnOf[e] is the connection of event e
    ThMaxPosts      \* bound: events posted by the main thread

ASSUME ThAssumption == ThNum \in Nat

Threads == 1..ThNum
Events == DOMAIN ThConnOf
Main == 0

VARIABLES
    mainth,     \* the main thread: where it is, how often it posted, and what it runs through
    pool,       \* pool[t]: thread t
    posted      \* the mutex, ngx_posted_events, the locks of connections, ngx_terminate

thvars == <<mainth, pool, posted>>

ThInit ==
    /\ mainth = [pc |-> "turn", i |-> 1, live |-> FALSE, posts |-> 0]
    /\ pool = [t \in Threads |-> [pc |-> "start", state |-> 0, ev |-> 0, sleeps |-> FALSE, signal |-> FALSE]]
    /\ \E k \in ThKinds : posted = [kind |-> k, mutex |-> -1, queue |-> <<>>, locks |-> {}, terminate |-> FALSE]

FREE == 1
BUSY == 2
EXIT == 3
DONE == 4

-----------------------------------------------------------------------------
(* ngx_cond_signal.  A signal to an rfork()ed thread is kept until the thread *)
(* asks its kqueue, once the thread has added the filter; one to a pthread    *)
(* condition is for a thread that waits already.                              *)
Kept(k, th) == IF k = "rfork" THEN th.sleeps ELSE th.pc = "asleep"
Signal(t) == pool' = [pool EXCEPT ![t].signal = pool[t].signal \/ Kept(posted.kind, pool[t])]

(* A turn of the main thread: an event is posted; then, if any is posted, the *)
(* first thread that looks free is signalled.  The state is read without the  *)
(* mutex.  ngx_process_events waits half a second at most.                    *)
PostEvent ==
    /\ mainth.pc = "turn" /\ ~posted.terminate /\ mainth.posts < ThMaxPosts /\ posted.mutex = -1
    /\ \E e \in Events :
          posted' = [posted EXCEPT !.queue = IF Contains(@, e) THEN @ ELSE <<e>> \o @]
    /\ mainth' = [mainth EXCEPT !.posts = @ + 1]
    /\ UNCHANGED pool
EndOfTurn ==
    /\ mainth.pc = "turn" /\ ~posted.terminate
    /\ mainth' = [mainth EXCEPT !.pc = IF posted.queue = <<>> THEN "turn" ELSE "wake", !.i = 1]
    /\ UNCHANGED <<pool, posted>>
WakeupThread ==
    /\ mainth.pc = "wake"
    /\ IF pool[mainth.i].state = FREE
       THEN Signal(mainth.i) /\ mainth' = [mainth EXCEPT !.pc = "turn", !.i = 1]
       ELSE /\ mainth' = IF mainth.i = ThNum THEN [mainth EXCEPT !.pc = "turn", !.i = 1]
                         ELSE [mainth EXCEPT !.i = @ + 1]
            /\ UNCHANGED pool
    /\ UNCHANGED posted

(* ngx_worker_process_exit and ngx_wakeup_worker_threads: every thread that   *)
(* has not ended is signalled, over and over.                                 *)
Terminate ==
    /\ mainth.pc = "turn" /\ ~posted.terminate
    /\ posted' = [posted EXCEPT !.terminate = TRUE]
    /\ mainth' = [mainth EXCEPT !.pc = "exit", !.i = 1, !.live = FALSE]
    /\ UNCHANGED pool
NotEnded(t) == pool[t].state < EXIT
ExitSignals ==
    /\ mainth.pc = "exit" /\ mainth.i <= ThNum
    /\ \/ /\ NotEnded(mainth.i) /\ Signal(mainth.i)
          /\ mainth' = [mainth EXCEPT !.i = @ + 1, !.live = TRUE]
       \/ /\ ~NotEnded(mainth.i)
          /\ posted.kind = "pthread" => pool[mainth.i].pc = "gone"      \* pthread_join
          /\ pool' = [pool EXCEPT ![mainth.i].state = DONE]
          /\ mainth' = [mainth EXCEPT !.i = @ + 1]
    /\ UNCHANGED posted
ExitLooks ==
    /\ mainth.pc = "exit" /\ mainth.i > ThNum
    /\ mainth' = IF mainth.live THEN [mainth EXCEPT !.i = 1, !.live = FALSE]
                 ELSE [mainth EXCEPT !.pc = "destroyed"]
    /\ UNCHANGED <<pool, posted>>
MainStep == EndOfTurn \/ WakeupThread \/ ExitSignals \/ ExitLooks

-----------------------------------------------------------------------------
(* ngx_worker_thread_cycle. *)
LockMutex(t, from, to) ==
    /\ pool[t].pc = from /\ posted.mutex = -1
    /\ posted' = [posted EXCEPT !.mutex = t]
    /\ pool' = [pool EXCEPT ![t].pc = to]
    /\ UNCHANGED mainth
SetFree(t) ==
    /\ pool[t].pc = "free"
    /\ pool' = [pool EXCEPT ![t] = [@ EXCEPT !.state = FREE, !.pc = "wait"]]
    /\ UNCHANGED <<mainth, posted>>
CondWait(t) ==
    /\ pool[t].pc = "wait"
    /\ pool' = [pool EXCEPT ![t] = [@ EXCEPT !.pc = "asleep", !.sleeps = TRUE]]
    /\ posted' = [posted EXCEPT !.mutex = -1]
    /\ UNCHANGED mainth
WakesUp(t) ==       \* signalled
    /\ pool[t].pc = "asleep" /\ pool[t].signal
    /\ pool' = [pool EXCEPT ![t] = [@ EXCEPT !.signal = FALSE, !.pc = "awake"]]
    /\ UNCHANGED <<mainth, posted>>
Woken(t) ==
    /\ pool[t].pc = "woken"
    /\ pool' = [pool EXCEPT ![t] = [@ EXCEPT !.state = IF posted.terminate THEN EXIT ELSE BUSY,
                                          !.pc = IF posted.terminate THEN "exit" ELSE "scan"]]
    /\ UNCHANGED <<mainth, posted>>
FaultMutexLeft == posted
MutexLeft == [posted EXCEPT !.mutex = -1]
ThreadExits(t) ==
    /\ pool[t].pc = "exit"
    /\ pool' = [pool EXCEPT ![t].pc = "gone"]
    /\ posted' = MutexLeft
    /\ UNCHANGED mainth

(* ngx_event_thread_process_posted: the first event whose connection nobody   *)
(* has locked, under the mutex; the handler without it; then the queue is     *)
(* looked at from its head again.                                             *)
FaultLockable(e) == TRUE
Lockable(e) == ThConnOf[e] \notin posted.locks
TakeEvent(t) ==
    /\ pool[t].pc = "scan"
    /\ \E i \in DOMAIN posted.queue :
          /\ Lockable(posted.queue[i]) /\ \A j \in 1..(i - 1) : ~Lockable(posted.queue[j])
          /\ posted' = [posted EXCEPT !.queue = RemoveAt(@, i), !.mutex = -1,
                                      !.locks = @ \cup {ThConnOf[posted.queue[i]]}]
          /\ pool' = [pool EXCEPT ![t] = [@ EXCEPT !.ev = posted.queue[i], !.pc = "handle"]]
    /\ UNCHANGED mainth
FinishEvent(t) ==
    /\ pool[t].pc = "done" /\ posted.mutex = -1
    /\ posted' = [posted EXCEPT !.mutex = t, !.locks = @ \ {ThConnOf[pool[t].ev]}]
    /\ pool' = [pool EXCEPT ![t] = [@ EXCEPT !.ev = 0, !.pc = "scan"]]
    /\ UNCHANGED mainth
Handler(t) ==
    /\ pool[t].pc = "handle"
    /\ pool' = [pool EXCEPT ![t].pc = "done"]
    /\ UNCHANGED <<mainth, posted>>
NothingToTake(t) ==
    /\ pool[t].pc = "scan"
    /\ \A i \in DOMAIN posted.queue : ~Lockable(posted.queue[i])
    /\ pool' = [pool EXCEPT ![t].pc = "free"]
    /\ UNCHANGED <<mainth, posted>>

ThreadStep(t) ==
    \/ LockMutex(t, "start", "free") \/ SetFree(t) \/ CondWait(t) \/ WakesUp(t)
    \/ LockMutex(t, "awake", "woken") \/ Woken(t) \/ ThreadExits(t)
    \/ TakeEvent(t) \/ Handler(t) \/ FinishEvent(t) \/ NothingToTake(t)
ThNext == PostEvent \/ Terminate \/ MainStep \/ \E t \in Threads : ThreadStep(t)
ThSpec == ThInit /\ [][ThNext]_thvars

(* The main thread keeps turning (the half second is its longest wait); it    *)
(* need not post, and it need not end.  A thread that can run runs, and one   *)
(* that asks for a mutex which is free again and again gets it.               *)
ThFairness == WF_thvars(MainStep) /\ \A t \in Threads : SF_thvars(ThreadStep(t))

-----------------------------------------------------------------------------
(* The handlers of a connection's events never run at the same time, and the  *)
(* lock of a connection is held as long as one of them runs.                  *)
Handles(t) == pool[t].pc \in {"handle", "done"}
OneHandlerAConnection ==
    /\ \A t, u \in Threads : t # u /\ Handles(t) /\ Handles(u) =>
                             ThConnOf[pool[t].ev] # ThConnOf[pool[u].ev]
    /\ posted.locks = {ThConnOf[pool[t].ev] : t \in {u \in Threads : Handles(u)}}

(* Posted events are handled in the end, whichever signals were lost (all of  *)
(* them, when no more are posted), unless the worker is told to terminate;    *)
(* and then all its threads end.                                              *)
PostedHandled ==
    [](posted.queue # <<>> \/ posted.terminate =>
         <>(IF posted.terminate THEN mainth.pc = "destroyed" ELSE posted.queue = <<>>))
=============================================================================
