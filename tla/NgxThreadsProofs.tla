-------------------------- MODULE NgxThreadsProofs --------------------------
(***************************************************************************)
(* Proofs about NgxThreads, for any number of threads, any events and         *)
(* connections, and both kinds of condition variable.                         *)
(***************************************************************************)
EXTENDS NgxThreads, TLAPS

ThreadPcs == {"start", "free", "wait", "asleep", "awake", "woken", "exit", "gone", "scan",
              "handle", "done"}
ThreadType == [pc : ThreadPcs, state : Int, ev : Events \cup {0}, sleeps : BOOLEAN,
               signal : BOOLEAN]
PostedType == [kind : ThKinds, mutex : Threads \cup {-1}, queue : Seq(Events),
               locks : SUBSET {ThConnOf[e] : e \in Events}, terminate : BOOLEAN]
ThTypeOK == pool \in [Threads -> ThreadType] /\ posted \in PostedType

(* Between ngx_mutex_lock and the next unlock or ngx_cond_wait. *)
Inside == {"free", "wait", "woken", "exit", "scan"}

(* ngx_posted_events_mutex belongs to the thread that is in a section it      *)
(* protects, and to nobody else.  This is what lets a whole section that      *)
(* works on the queue and the locks be one step.                              *)
MutexOwned == \A t \in Threads : pool[t].pc \in Inside <=> posted.mutex = t

-----------------------------------------------------------------------------
(* Taking an event out of the queue leaves a queue of events. *)
LEMMA RemoveAtType ==
    ASSUME NEW S, NEW q \in Seq(S), NEW i \in DOMAIN q
    PROVE  RemoveAt(q, i) \in Seq(S) /\ q[i] \in S
<1>1. i \in 1..Len(q)
  OBVIOUS
<1>2. SubSeq(q, 1, i - 1) \in Seq(S)
  BY <1>1
<1>3. SubSeq(q, i + 1, Len(q)) \in Seq(S)
  BY <1>1
<1> QED
  BY <1>1, <1>2, <1>3 DEF RemoveAt

(* A thread that moves stays a thread: its program counter, with one other    *)
(* variable at most.                                                          *)
LEMMA ThreadMoves ==
    ASSUME NEW r \in ThreadType, NEW p \in ThreadPcs
    PROVE  /\ [r EXCEPT !.pc = p] \in ThreadType
           /\ [r EXCEPT !.pc = p, !.sleeps = TRUE] \in ThreadType
           /\ [r EXCEPT !.signal = FALSE, !.pc = p] \in ThreadType
           /\ \A e \in Events \cup {0} : [r EXCEPT !.ev = e, !.pc = p] \in ThreadType
BY DEF ThreadType
LEMMA ThreadIsTold ==
    ASSUME NEW r \in ThreadType
    PROVE  /\ \A b \in BOOLEAN : [r EXCEPT !.signal = b] \in ThreadType
           /\ \A n \in Int : [r EXCEPT !.state = n] \in ThreadType
BY DEF ThreadType
LEMMA ThreadSets ==
    ASSUME NEW r \in ThreadType
    PROVE  /\ [r EXCEPT !.state = FREE, !.pc = "wait"] \in ThreadType
           /\ [r EXCEPT !.state = EXIT, !.pc = "exit"] \in ThreadType
           /\ [r EXCEPT !.state = BUSY, !.pc = "scan"] \in ThreadType
<1>1. ASSUME NEW n \in Int, NEW p \in ThreadPcs PROVE [r EXCEPT !.state = n, !.pc = p] \in ThreadType
  BY DEF ThreadType
<1>2. FREE \in Int /\ EXIT \in Int /\ BUSY \in Int
  BY DEF FREE, EXIT, BUSY
<1>3. "wait" \in ThreadPcs /\ "exit" \in ThreadPcs /\ "scan" \in ThreadPcs
  BY DEF ThreadPcs
<1> QED
  BY <1>1, <1>2, <1>3

(* So does what the mutex protects. *)
LEMMA PostedMoves ==
    ASSUME NEW r \in PostedType
    PROVE  /\ \A m \in Threads \cup {-1} : [r EXCEPT !.mutex = m] \in PostedType
           /\ \A q \in Seq(Events) : [r EXCEPT !.queue = q] \in PostedType
           /\ [r EXCEPT !.terminate = TRUE] \in PostedType
           /\ \A q \in Seq(Events), e \in Events :
                 [r EXCEPT !.queue = q, !.mutex = -1, !.locks = r.locks \cup {ThConnOf[e]}] \in PostedType
           /\ \A m \in Threads : \A c : [r EXCEPT !.mutex = m, !.locks = r.locks \ {c}] \in PostedType
BY DEF PostedType

-----------------------------------------------------------------------------
LEMMA TypeInit == ThInit => ThTypeOK
BY DEF ThInit, ThTypeOK, ThreadType, PostedType, ThreadPcs

LEMMA TypeStep == ThTypeOK /\ [ThNext]_thvars => ThTypeOK'
<1> SUFFICES ASSUME ThTypeOK PROVE [ThNext]_thvars => ThTypeOK'
  OBVIOUS
<1>a. posted \in PostedType /\ \A t \in Threads : pool[t] \in ThreadType
  BY DEF ThTypeOK
<1>b. ASSUME NEW t, NEW r \in ThreadType, pool' = [pool EXCEPT ![t] = r], posted' \in PostedType
      PROVE  ThTypeOK'
  BY <1>b DEF ThTypeOK
<1>1. CASE UNCHANGED thvars
  BY <1>1 DEF thvars, ThTypeOK
<1>2. CASE PostEvent
  <2>1. PICK e \in Events :
          posted' = [posted EXCEPT !.queue = IF Contains(posted.queue, e) THEN posted.queue
                                             ELSE <<e>> \o posted.queue]
    BY <1>2 DEF PostEvent
  <2>2. posted.queue \in Seq(Events) /\ <<e>> \o posted.queue \in Seq(Events)
    BY <1>a DEF PostedType
  <2>3. posted' \in PostedType
    BY <1>a, <2>1, <2>2, PostedMoves
  <2> QED
    BY <1>2, <2>3 DEF PostEvent, ThTypeOK
<1>3. CASE EndOfTurn \/ Terminate \/ ExitLooks
  BY <1>a, <1>3, PostedMoves DEF EndOfTurn, Terminate, ExitLooks, ThTypeOK
<1>4. ASSUME NEW t, Signal(t), UNCHANGED posted PROVE ThTypeOK'
  <2>1. (pool[t].signal \/ Kept(posted.kind, pool[t])) \in BOOLEAN
    BY Zenon
  <2>2. CASE t \in Threads
    <3> DEFINE b == pool[t].signal \/ Kept(posted.kind, pool[t])
    <3>1. b \in BOOLEAN
      BY <2>1
    <3>2. pool' = [pool EXCEPT ![t] = [pool[t] EXCEPT !.signal = b]]
      BY <1>4 DEF Signal
    <3> HIDE DEF b
    <3>3. [pool[t] EXCEPT !.signal = b] \in ThreadType
      BY <1>a, <2>2, <3>1, ThreadIsTold
    <3> QED
      BY <1>a, <1>b, <1>4, <3>2, <3>3
  <2>3. CASE t \notin Threads
    BY <1>4, <2>3 DEF Signal, ThTypeOK
  <2> QED
    BY <2>2, <2>3
<1>5. CASE WakeupThread
  BY <1>4, <1>5 DEF WakeupThread, ThTypeOK
<1>6. CASE ExitSignals
  <2> DEFINE t == mainth.i
  <2>1. CASE NotEnded(t)
    BY <1>4, <1>6, <2>1 DEF ExitSignals
  <2>2. CASE ~NotEnded(t)
    <3>1. pool' = [pool EXCEPT ![t] = [pool[t] EXCEPT !.state = DONE]] /\ UNCHANGED posted
      BY <1>6, <2>2 DEF ExitSignals
    <3> HIDE DEF t
    <3>2. CASE t \in Threads
      <4>1. [pool[t] EXCEPT !.state = DONE] \in ThreadType
        BY <1>a, <3>2, ThreadIsTold DEF DONE
      <4> QED
        BY <1>a, <1>b, <3>1, <4>1
    <3>3. CASE t \notin Threads
      BY <3>1, <3>3 DEF ThTypeOK
    <3> QED
      BY <3>2, <3>3
  <2> QED
    BY <2>1, <2>2
<1>7. ASSUME NEW t \in Threads, ThreadStep(t) PROVE ThTypeOK'
  <2> USE DEF ThreadPcs
  <2>1. CASE LockMutex(t, "start", "free") \/ LockMutex(t, "awake", "woken")
    <3>0. [posted EXCEPT !.mutex = t] \in PostedType
      BY <1>a, PostedMoves
    <3>1. posted' \in PostedType
      BY <2>1, <3>0 DEF LockMutex
    <3>2. PICK p \in ThreadPcs : pool' = [pool EXCEPT ![t] = [pool[t] EXCEPT !.pc = p]]
      BY <2>1 DEF LockMutex
    <3> QED
      BY <1>a, <1>b, <3>1, <3>2, ThreadMoves
  <2>2. CASE SetFree(t) \/ Woken(t)
    <3>0. posted' \in PostedType
      BY <1>a, <2>2 DEF SetFree, Woken
    <3>1. CASE SetFree(t)
      <4>1. [pool[t] EXCEPT !.state = FREE, !.pc = "wait"] \in ThreadType
        BY <1>a, ThreadSets
      <4> QED
        BY <1>b, <3>0, <3>1, <4>1 DEF SetFree
    <3>2. CASE Woken(t) /\ posted.terminate
      <4>1. [pool[t] EXCEPT !.state = EXIT, !.pc = "exit"] \in ThreadType
        BY <1>a, ThreadSets
      <4> QED
        BY <1>b, <3>0, <3>2, <4>1 DEF Woken
    <3>3. CASE Woken(t) /\ ~posted.terminate
      <4>1. [pool[t] EXCEPT !.state = BUSY, !.pc = "scan"] \in ThreadType
        BY <1>a, ThreadSets
      <4> QED
        BY <1>b, <3>0, <3>3, <4>1 DEF Woken
    <3> QED
      BY <2>2, <3>1, <3>2, <3>3
  <2>3. CASE WakesUp(t) \/ Handler(t) \/ NothingToTake(t)
    BY <1>a, <1>b, <2>3, ThreadMoves DEF WakesUp, Handler, NothingToTake
  <2>4. CASE CondWait(t) \/ ThreadExits(t)
    <3>1. posted' \in PostedType
      BY <1>a, <2>4, PostedMoves DEF CondWait, ThreadExits, MutexLeft
    <3> QED
      BY <1>a, <1>b, <2>4, <3>1, ThreadMoves DEF CondWait, ThreadExits
  <2>5. CASE TakeEvent(t)
    <3>1. PICK i \in DOMAIN posted.queue :
             /\ posted' = [posted EXCEPT !.queue = RemoveAt(posted.queue, i), !.mutex = -1,
                                         !.locks = posted.locks \cup {ThConnOf[posted.queue[i]]}]
             /\ pool' = [pool EXCEPT ![t] = [pool[t] EXCEPT !.ev = posted.queue[i], !.pc = "handle"]]
      BY <2>5 DEF TakeEvent
    <3>2. RemoveAt(posted.queue, i) \in Seq(Events) /\ posted.queue[i] \in Events
      BY <1>a, RemoveAtType DEF PostedType
    <3>3. posted' \in PostedType
      BY <1>a, <3>1, <3>2, PostedMoves
    <3> QED
      BY <1>a, <1>b, <3>1, <3>2, <3>3, ThreadMoves
  <2>6. CASE FinishEvent(t)
    BY <1>a, <1>b, <2>6, ThreadMoves, PostedMoves DEF FinishEvent
  <2> QED
    BY <1>7, <2>1, <2>2, <2>3, <2>4, <2>5, <2>6 DEF ThreadStep
<1> QED
  BY <1>1, <1>2, <1>3, <1>5, <1>6, <1>7 DEF ThNext, MainStep

-----------------------------------------------------------------------------
(* A step of a thread leaves the other threads where they are; a signal moves *)
(* no thread.                                                                 *)
LEMMA OthersKept ==
    ASSUME NEW t \in Threads, ThreadStep(t), ThTypeOK
    PROVE  \A u \in Threads \ {t} : pool'[u] = pool[u]
BY DEF ThTypeOK, ThreadStep, LockMutex, SetFree, CondWait, WakesUp, Woken, ThreadExits, TakeEvent,
       FinishEvent, Handler, NothingToTake
LEMMA MainMovesNoThread ==
    ASSUME PostEvent \/ Terminate \/ MainStep, ThTypeOK
    PROVE  /\ \A u \in Threads : pool'[u].pc = pool[u].pc /\ pool'[u].ev = pool[u].ev
           /\ posted'.mutex = posted.mutex /\ posted'.locks = posted.locks
<1>1. ASSUME NEW t, Signal(t), NEW u \in Threads
      PROVE  pool'[u].pc = pool[u].pc /\ pool'[u].ev = pool[u].ev
  BY <1>1 DEF Signal, ThTypeOK, ThreadType
<1>2. ASSUME NEW t, pool' = [pool EXCEPT ![t].state = DONE], NEW u \in Threads
      PROVE  pool'[u].pc = pool[u].pc /\ pool'[u].ev = pool[u].ev
  BY <1>2 DEF ThTypeOK, ThreadType
<1>3. CASE PostEvent
  BY <1>3 DEF PostEvent, ThTypeOK, PostedType
<1>4. CASE Terminate
  BY <1>4 DEF Terminate, ThTypeOK, PostedType
<1>5. CASE EndOfTurn \/ ExitLooks
  BY <1>5 DEF EndOfTurn, ExitLooks
<1>6. CASE WakeupThread
  BY <1>1, <1>6 DEF WakeupThread
<1>7. CASE ExitSignals
  BY <1>1, <1>2, <1>7 DEF ExitSignals
<1> QED
  BY <1>3, <1>4, <1>5, <1>6, <1>7 DEF MainStep

-----------------------------------------------------------------------------
(* Where a step takes a thread, with which event, and what becomes of the     *)
(* mutex and of the locks.                                                    *)
Lands(t, pc, ev, m, locks) ==
    pool'[t].pc = pc /\ pool'[t].ev = ev /\ posted'.mutex = m /\ posted'.locks = locks
LEMMA Effects ==
    ASSUME NEW t \in Threads, ThTypeOK
    PROVE  /\ \A a, b : LockMutex(t, a, b) => Lands(t, b, pool[t].ev, t, posted.locks)
           /\ SetFree(t) => Lands(t, "wait", pool[t].ev, posted.mutex, posted.locks)
           /\ CondWait(t) => Lands(t, "asleep", pool[t].ev, -1, posted.locks)
           /\ WakesUp(t) => Lands(t, "awake", pool[t].ev, posted.mutex, posted.locks)
           /\ Woken(t) => \E p \in {"exit", "scan"} :
                             Lands(t, p, pool[t].ev, posted.mutex, posted.locks)
           /\ ThreadExits(t) => Lands(t, "gone", pool[t].ev, -1, posted.locks)
           /\ TakeEvent(t) => \E e : /\ ThConnOf[e] \notin posted.locks
                                     /\ Lands(t, "handle", e, -1, posted.locks \cup {ThConnOf[e]})
           /\ FinishEvent(t) => Lands(t, "scan", 0, t, posted.locks \ {ThConnOf[pool[t].ev]})
           /\ Handler(t) => Lands(t, "done", pool[t].ev, posted.mutex, posted.locks)
           /\ NothingToTake(t) => Lands(t, "free", pool[t].ev, posted.mutex, posted.locks)
<1> USE DEF ThTypeOK, ThreadType, PostedType, Lands
<1>1. \A a, b : LockMutex(t, a, b) => Lands(t, b, pool[t].ev, t, posted.locks)
  BY DEF LockMutex
<1>2. SetFree(t) => Lands(t, "wait", pool[t].ev, posted.mutex, posted.locks)
  BY DEF SetFree
<1>3. CondWait(t) => Lands(t, "asleep", pool[t].ev, -1, posted.locks)
  BY DEF CondWait
<1>4. WakesUp(t) => Lands(t, "awake", pool[t].ev, posted.mutex, posted.locks)
  BY DEF WakesUp
<1>5. Woken(t) => \E p \in {"exit", "scan"} : Lands(t, p, pool[t].ev, posted.mutex, posted.locks)
  BY DEF Woken
<1>6. ThreadExits(t) => Lands(t, "gone", pool[t].ev, -1, posted.locks)
  BY DEF ThreadExits, MutexLeft
<1>7. ASSUME TakeEvent(t)
      PROVE  \E e : /\ ThConnOf[e] \notin posted.locks
                    /\ Lands(t, "handle", e, -1, posted.locks \cup {ThConnOf[e]})
  <2>1. PICK i \in DOMAIN posted.queue :
           /\ ThConnOf[posted.queue[i]] \notin posted.locks
           /\ posted' = [posted EXCEPT !.queue = RemoveAt(posted.queue, i), !.mutex = -1,
                                       !.locks = posted.locks \cup {ThConnOf[posted.queue[i]]}]
           /\ pool' = [pool EXCEPT ![t] = [pool[t] EXCEPT !.ev = posted.queue[i], !.pc = "handle"]]
    BY <1>7 DEF TakeEvent, Lockable
  <2> DEFINE e == posted.queue[i]
  <2>2. Lands(t, "handle", e, -1, posted.locks \cup {ThConnOf[e]})
    BY <2>1
  <2> WITNESS e
  <2> QED
    BY <2>1, <2>2
<1>8. FinishEvent(t) => Lands(t, "scan", 0, t, posted.locks \ {ThConnOf[pool[t].ev]})
  BY DEF FinishEvent
<1>9. /\ Handler(t) => Lands(t, "done", pool[t].ev, posted.mutex, posted.locks)
      /\ NothingToTake(t) => Lands(t, "free", pool[t].ev, posted.mutex, posted.locks)
  BY DEF Handler, NothingToTake
<1> QED
  BY <1>1, <1>2, <1>3, <1>4, <1>5, <1>6, <1>7, <1>8, <1>9

-----------------------------------------------------------------------------
LEMMA OwnedStep == ThTypeOK /\ MutexOwned /\ [ThNext]_thvars => MutexOwned'
<1> SUFFICES ASSUME ThTypeOK, MutexOwned PROVE [ThNext]_thvars => MutexOwned'
  OBVIOUS
<1>1. CASE UNCHANGED thvars
  BY <1>1 DEF thvars, MutexOwned
<1>2. CASE PostEvent \/ Terminate \/ MainStep
  BY <1>2, MainMovesNoThread DEF MutexOwned
<1>3. ASSUME NEW t \in Threads, ThreadStep(t) PROVE MutexOwned'
  <2>0. /\ t # -1 /\ -1 \notin Threads
        /\ \A u \in Threads \ {t} : pool'[u].pc = pool[u].pc
    BY <1>3, OthersKept, ThAssumption DEF Threads
  <2>1. ASSUME pool[t].pc \notin Inside, posted.mutex = -1, pool'[t].pc \in Inside, posted'.mutex = t
        PROVE  MutexOwned'
    BY <2>0, <2>1 DEF MutexOwned
  <2>2. ASSUME pool[t].pc \in Inside, pool'[t].pc \notin Inside, posted'.mutex = -1
        PROVE  MutexOwned'
    BY <2>0, <2>2 DEF MutexOwned
  <2>3. ASSUME pool[t].pc \in Inside <=> pool'[t].pc \in Inside, posted'.mutex = posted.mutex
        PROVE  MutexOwned'
    BY <2>0, <2>3 DEF MutexOwned
  <2> USE DEF Inside, Lands
  <2>4. CASE LockMutex(t, "start", "free") \/ LockMutex(t, "awake", "woken") \/ FinishEvent(t)
    <3>1. pool[t].pc \notin Inside /\ posted.mutex = -1
      BY <2>4 DEF LockMutex, FinishEvent
    <3>2. pool'[t].pc \in Inside /\ posted'.mutex = t
      BY <2>4, Effects
    <3> QED
      BY <2>1, <3>1, <3>2
  <2>5. CASE CondWait(t) \/ ThreadExits(t) \/ TakeEvent(t)
    BY <2>2, <2>5, Effects DEF CondWait, ThreadExits, TakeEvent
  <2>6. CASE SetFree(t) \/ WakesUp(t) \/ Woken(t) \/ Handler(t) \/ NothingToTake(t)
    BY <2>3, <2>6, Effects DEF SetFree, WakesUp, Woken, Handler, NothingToTake
  <2> QED
    BY <1>3, <2>4, <2>5, <2>6 DEF ThreadStep
<1> QED
  BY <1>1, <1>2, <1>3 DEF ThNext

(* The mutex belongs to the thread in a section it protects, whatever the     *)
(* number of threads (ngx_worker_thread_cycle and                             *)
(* ngx_event_thread_process_posted lock and unlock in pairs).                 *)
THEOREM MutexIsOwned == ThSpec => []MutexOwned
<1>1. ThInit => MutexOwned
  BY ThAssumption DEF ThInit, MutexOwned, Inside, Threads
<1> QED
  BY <1>1, TypeInit, TypeStep, OwnedStep, PTL DEF ThSpec

-----------------------------------------------------------------------------
LEMMA HandlerStep ==
    ThTypeOK /\ OneHandlerAConnection /\ [ThNext]_thvars => OneHandlerAConnection'
<1> SUFFICES ASSUME ThTypeOK, OneHandlerAConnection PROVE [ThNext]_thvars => OneHandlerAConnection'
  OBVIOUS
<1>1. CASE UNCHANGED thvars
  BY <1>1 DEF thvars, OneHandlerAConnection, Handles
<1>2. CASE PostEvent \/ Terminate \/ MainStep
  BY <1>2, MainMovesNoThread DEF OneHandlerAConnection, Handles
<1>3. ASSUME NEW t \in Threads, ThreadStep(t) PROVE OneHandlerAConnection'
  <2>0. \A u \in Threads \ {t} : pool'[u] = pool[u]
    BY <1>3, OthersKept
  <2>1. CASE TakeEvent(t)
    <3>1. PICK e : /\ ThConnOf[e] \notin posted.locks
                   /\ Lands(t, "handle", e, -1, posted.locks \cup {ThConnOf[e]})
      BY <2>1, Effects
    <3>2. ~Handles(t)
      BY <2>1 DEF TakeEvent, Handles
    <3> QED
      BY <2>0, <3>1, <3>2 DEF OneHandlerAConnection, Handles, Lands
  <2>2. CASE FinishEvent(t)
    <3>1. Handles(t) /\ Lands(t, "scan", 0, t, posted.locks \ {ThConnOf[pool[t].ev]})
      BY <2>2, Effects DEF FinishEvent, Handles
    <3> QED
      BY <2>0, <3>1 DEF OneHandlerAConnection, Handles, Lands
  <2>3. ASSUME Handles(t) <=> Handles(t)', pool'[t].ev = pool[t].ev, posted'.locks = posted.locks
        PROVE  OneHandlerAConnection'
    BY <2>0, <2>3 DEF OneHandlerAConnection, Handles
  <2> USE DEF Handles, Lands
  <2>4. CASE LockMutex(t, "start", "free") \/ LockMutex(t, "awake", "woken")
    BY <2>3, <2>4, Effects DEF LockMutex
  <2>5. CASE CondWait(t) \/ ThreadExits(t)
    BY <2>3, <2>5, Effects DEF CondWait, ThreadExits
  <2>6. CASE SetFree(t) \/ WakesUp(t) \/ Woken(t) \/ Handler(t) \/ NothingToTake(t)
    BY <2>3, <2>6, Effects DEF SetFree, WakesUp, Woken, Handler, NothingToTake
  <2> QED
    BY <1>3, <2>1, <2>2, <2>4, <2>5, <2>6 DEF ThreadStep
<1> QED
  BY <1>1, <1>2, <1>3 DEF ThNext

(* Two handlers of one connection never run at the same time, and a           *)
(* connection is locked exactly while one of its handlers runs, for any       *)
(* number of threads and any events (ngx_event_thread_process_posted).        *)
THEOREM OneHandler == ThSpec => []OneHandlerAConnection
<1>1. ThInit => OneHandlerAConnection
  BY DEF ThInit, OneHandlerAConnection, Handles
<1> QED
  BY <1>1, TypeInit, TypeStep, HandlerStep, PTL DEF ThSpec
=============================================================================
