--------------------------- MODULE NgxMutexProofs ---------------------------
(***************************************************************************)
(* Proofs about NgxMutex, for any finite set of threads and both kinds of     *)
(* mutex.                                                                     *)
(***************************************************************************)
EXTENDS NgxMutex, FiniteSetTheorems, TLAPS

(* What a step does to the word, to the semaphore and to the others: it       *)
(* leaves the record of every other thread alone.                             *)
LEMMA OthersStay ==
    ASSUME NEW t \in MxThreads, Call(t) \/ MxStep(t), MxTypeOK
    PROVE  \A u \in MxThreads \ {t} : mx'[u] = mx[u]
BY DEF Call, MxStep, ReadWord, Spin, Register, SemDown, Take, TryTake, Release, Unregister, SemUp,
       CmpSet, Goto, MxTypeOK

LEMMA TypeStep == MxTypeOK /\ [MxNext]_mxvars => MxTypeOK'
<1> SUFFICES ASSUME MxTypeOK PROVE [MxNext]_mxvars => MxTypeOK'
  OBVIOUS
<1>1. CASE UNCHANGED mxvars
  BY <1>1 DEF MxTypeOK, mxvars
<1>2. ASSUME NEW t \in MxThreads, Call(t) \/ MxStep(t) PROVE MxTypeOK'
  <2> USE DEF MxTypeOK, LockWords, Places, At, Goto
  <2>0. mx[t].old \in LockWords /\ mx[t].old.busy \in {0, 1} /\ mx[t].old.waiters \in Nat
    OBVIOUS
  <2>1. CASE Call(t)
    BY <2>1 DEF Call
  <2>2. ASSUME NEW a \in Places, NEW b \in Places, ReadWord(t, a, b) PROVE MxTypeOK'
    BY <2>2 DEF ReadWord
  <2>3. CASE Spin(t) \/ SemDown(t) \/ SemUp(t)
    BY <2>3 DEF Spin, SemDown, SemUp
  <2>4. CASE Register(t)
    BY <2>0, <2>4 DEF Register, CmpSet
  <2>5. CASE Take(t)
    BY <2>0, <2>5 DEF Take, CmpSet
  <2>6. CASE TryTake(t)
    BY <2>0, <2>6 DEF TryTake, CmpSet
  <2>7. CASE Release(t)
    BY <2>0, <2>7 DEF Release, CmpSet
  <2>8. CASE Unregister(t)
    <3>1. CASE mx[t].old.busy = 1 \/ mx[t].old.waiters = 0
      BY <2>8, <3>1 DEF Unregister, NobodyWaits
    <3>2. CASE mx[t].old.busy # 1 /\ mx[t].old.waiters # 0
      <4>1. mx[t].old.waiters - 1 \in Nat
        BY <2>0, <3>2
      <4>2. [mx[t].old EXCEPT !.waiters = @ - 1] \in LockWords
        BY <2>0, <4>1
      <4> QED
        BY <2>8, <3>2, <4>2 DEF Unregister, CmpSet, NobodyWaits
    <3> QED
      BY <3>1, <3>2
  <2> QED
    BY <1>2, <2>1, <2>2, <2>3, <2>4, <2>5, <2>6, <2>7, <2>8 DEF MxStep
<1> QED
  BY <1>1, <1>2 DEF MxNext

-----------------------------------------------------------------------------
(* Mutual exclusion needs to know that a thread that unlocks has read the     *)
(* word while it had the mutex.                                               *)
UnlockSeesBusy == \A t \in MxThreads : At(t, "unlock") => mx[t].old.busy = 1
ExclusionInv == OneHolder /\ UnlockSeesBusy

LEMMA ExclusionStep == MxTypeOK /\ ExclusionInv /\ [MxNext]_mxvars => ExclusionInv'
<1> SUFFICES ASSUME MxTypeOK, ExclusionInv PROVE [MxNext]_mxvars => ExclusionInv'
  OBVIOUS
<1>1. CASE UNCHANGED mxvars
  BY <1>1 DEF ExclusionInv, OneHolder, UnlockSeesBusy, Holds, At, mxvars
<1>2. ASSUME NEW t \in MxThreads, Call(t) \/ MxStep(t) PROVE ExclusionInv'
  <2>0. \A u \in MxThreads \ {t} : mx'[u] = mx[u]
    BY <1>2, OthersStay
  (* A step either keeps who has the mutex, or takes it, or gives it back. *)
  <2>1. ASSUME Holds(t)' <=> Holds(t), word'.busy = word.busy,
               mx'[t].pc = "unlock" => mx'[t].old.busy = 1
        PROVE  ExclusionInv'
    BY <2>0, <2>1 DEF ExclusionInv, OneHolder, UnlockSeesBusy, Holds, At
  <2>2. ASSUME word.busy = 0, word'.busy = 1, mx'[t].pc = "in"
        PROVE  ExclusionInv'
    BY <2>0, <2>2 DEF ExclusionInv, OneHolder, UnlockSeesBusy, Holds, At
  <2>3. ASSUME Holds(t), ~Holds(t)', word'.busy = 0
        PROVE  ExclusionInv'
    BY <2>0, <2>3 DEF ExclusionInv, OneHolder, UnlockSeesBusy, Holds, At
  <2>4. CASE Call(t) \/ Spin(t) \/ SemDown(t) \/ SemUp(t)
    BY <2>1, <2>4 DEF Call, Spin, SemDown, SemUp, Holds, At, Goto, MxTypeOK
  <2>5. CASE ReadWord(t, "read", "lock") \/ ReadWord(t, "read_try", "try")
               \/ ReadWord(t, "read_wake", "wake")
    BY <2>1, <2>5 DEF ReadWord, Holds, At, MxTypeOK
  <2>6. CASE ReadWord(t, "in", "unlock") \/ ReadWord(t, "read_unlock", "unlock")
    <3>1. word.busy = 1
      BY <2>6 DEF ReadWord, At, Holds, ExclusionInv, OneHolder
    <3> QED
      BY <2>1, <2>6, <3>1 DEF ReadWord, Holds, At, MxTypeOK
  <2>7. CASE Register(t)
    BY <2>1, <2>7 DEF Register, CmpSet, Holds, At, Goto, MxTypeOK, LockWords
  <2>8. CASE Take(t)
    <3>1. CASE word = mx[t].old
      BY <2>2, <2>8, <3>1 DEF Take, CmpSet, At, Goto, MxTypeOK, LockWords
    <3>2. CASE word # mx[t].old
      BY <2>1, <2>8, <3>2 DEF Take, CmpSet, Holds, At, Goto, MxTypeOK
    <3> QED
      BY <3>1, <3>2
  <2>9. CASE TryTake(t)
    <3>1. CASE mx[t].old.busy = 1 \/ word # mx[t].old
      BY <2>1, <2>9, <3>1 DEF TryTake, CmpSet, Holds, At, Goto, MxTypeOK
    <3>2. CASE mx[t].old.busy # 1 /\ word = mx[t].old
      BY <2>2, <2>9, <3>2 DEF TryTake, CmpSet, At, Goto, MxTypeOK, LockWords
    <3> QED
      BY <3>1, <3>2
  <2>10. CASE Release(t)
    <3>0. mx[t].old.busy = 1 /\ mx[t].pc = "unlock"
      BY <2>10 DEF Release, At, ExclusionInv, UnlockSeesBusy
    <3>1. CASE word = mx[t].old
      BY <2>3, <2>10, <3>0, <3>1 DEF Release, CmpSet, Holds, At, Goto, MxTypeOK, LockWords
    <3>2. CASE word # mx[t].old
      BY <2>1, <2>10, <3>0, <3>2 DEF Release, CmpSet, Holds, At, Goto, MxTypeOK
    <3> QED
      BY <3>1, <3>2
  <2>11. CASE Unregister(t)
    BY <2>1, <2>11 DEF Unregister, CmpSet, NobodyWaits, Holds, At, Goto, MxTypeOK, LockWords
  <2> QED
    BY <1>2, <2>4, <2>5, <2>6, <2>7, <2>8, <2>9, <2>10, <2>11 DEF MxStep
<1> QED
  BY <1>1, <1>2 DEF MxNext

-----------------------------------------------------------------------------
(* A thread is counted as waiting from its registration until another one     *)
(* takes it off the count, and the semaphore has its wakeup from then on.     *)
(* A thread that has read the word to lock it was not waiting itself.         *)
Accounted ==
    /\ word.waiters + sem + Cardinality(Posting) = Cardinality(Waiting)
    /\ \A t \in MxThreads : At(t, "lock") => mx[t].old.waiters < Cardinality(MxThreads)

(* The two sets whose sizes are compared are finite, and not all threads wait *)
(* while one does something else.                                             *)
LEMMA Finite ==
    /\ IsFiniteSet(Waiting) /\ Cardinality(Waiting) \in Nat
    /\ IsFiniteSet(Posting) /\ Cardinality(Posting) \in Nat
    /\ Cardinality(MxThreads) \in Nat
    /\ \A t \in MxThreads \ Waiting : Cardinality(Waiting) < Cardinality(MxThreads)
<1>1. IsFiniteSet(MxThreads) /\ Cardinality(MxThreads) \in Nat
  BY MxAssumption, FS_CardinalityType
<1>2. Waiting \subseteq MxThreads /\ Posting \subseteq MxThreads
  BY DEF Waiting, Posting
<1>3. /\ IsFiniteSet(Waiting) /\ Cardinality(Waiting) \in Nat
      /\ IsFiniteSet(Posting) /\ Cardinality(Posting) \in Nat
  BY <1>1, <1>2, FS_Subset, FS_CardinalityType
<1>4. ASSUME NEW t \in MxThreads \ Waiting PROVE Cardinality(Waiting) < Cardinality(MxThreads)
  BY <1>1, <1>2, <1>4, FS_Subset, FS_CardinalityType, Waiting # MxThreads
<1> QED
  BY <1>1, <1>3, <1>4

LEMMA AccountedStep ==
    MxTypeOK /\ ExclusionInv /\ Accounted /\ [MxNext]_mxvars => Accounted'
<1> SUFFICES ASSUME MxTypeOK, ExclusionInv, Accounted PROVE [MxNext]_mxvars => Accounted'
  OBVIOUS
<1>1. CASE UNCHANGED mxvars
  BY <1>1 DEF Accounted, Waiting, Posting, At, mxvars
<1>2. ASSUME NEW t \in MxThreads, Call(t) \/ MxStep(t) PROVE Accounted'
  <2>0. \A u \in MxThreads \ {t} : mx'[u] = mx[u]
    BY <1>2, OthersStay
  <2>f. /\ IsFiniteSet(Waiting) /\ Cardinality(Waiting) \in Nat
        /\ IsFiniteSet(Posting) /\ Cardinality(Posting) \in Nat
        /\ Cardinality(MxThreads) \in Nat
        /\ t \notin Waiting => Cardinality(Waiting) < Cardinality(MxThreads)
    BY Finite
  <2>w. word.waiters \in Nat /\ sem \in Nat /\ mx[t].old.waiters \in Nat
    BY DEF MxTypeOK, LockWords
  (* Every step but the four below leaves the sets and the numbers alone. *)
  <2>1. ASSUME ~At(t, "wait"), ~At(t, "post"), mx'[t].pc \notin {"wait", "post"},
               word'.waiters = word.waiters, sem' = sem,
               mx'[t].pc = "lock" => mx'[t].old = word
        PROVE  Accounted'
    <3>1. Waiting' = Waiting /\ Posting' = Posting
      BY <2>0, <2>1 DEF Waiting, Posting, At
    <3>2. word.waiters < Cardinality(MxThreads)
      <4>1. t \notin Waiting
        BY <2>1 DEF Waiting
      <4>2. word.waiters + sem + Cardinality(Posting) = Cardinality(Waiting)
        BY DEF Accounted
      <4> QED
        BY <4>1, <4>2, <2>f, <2>w
    <3> QED
      BY <2>0, <2>1, <3>1, <3>2 DEF Accounted, At
  <2>2. CASE Call(t) \/ Spin(t)
    BY <2>1, <2>2 DEF Call, Spin, At, Goto, MxTypeOK
  <2>3. CASE \/ ReadWord(t, "read", "lock") \/ ReadWord(t, "read_try", "try")
             \/ ReadWord(t, "in", "unlock") \/ ReadWord(t, "read_unlock", "unlock")
             \/ ReadWord(t, "read_wake", "wake")
    BY <2>1, <2>3 DEF ReadWord, At, MxTypeOK
  <2>4. CASE Take(t) \/ TryTake(t) \/ Release(t)
    BY <2>1, <2>4 DEF Take, TryTake, Release, CmpSet, At, Goto, MxTypeOK, LockWords
  <2>5. CASE Register(t) /\ mx'[t].pc # "wait"
    BY <2>1, <2>5 DEF Register, CmpSet, At, Goto, MxTypeOK
  <2>6. CASE Unregister(t) /\ mx'[t].pc # "post"
    BY <2>1, <2>6 DEF Unregister, CmpSet, At, Goto, MxTypeOK
  <2>7. CASE Register(t) /\ mx'[t].pc = "wait"
    <3>1. /\ At(t, "lock") /\ word'.waiters = word.waiters + 1 /\ sem' = sem
          /\ mx'[t].pc = "wait"
      BY <2>7 DEF Register, CmpSet, Goto, At, MxTypeOK
    <3>2. Waiting' = Waiting \cup {t} /\ t \notin Waiting /\ Posting' = Posting
      BY <2>0, <3>1 DEF Waiting, Posting, At
    <3>3. Cardinality(Waiting') = Cardinality(Waiting) + 1
      BY <2>f, <3>2, FS_AddElement
    <3> QED
      BY <2>0, <2>f, <2>w, <3>1, <3>2, <3>3 DEF Accounted, At
  <2>8. CASE SemDown(t)
    <3>1. At(t, "wait") /\ word' = word /\ sem' = sem - 1 /\ sem > 0 /\ mx'[t].pc = "read"
      BY <2>8 DEF SemDown, Goto, MxTypeOK
    <3>2. Waiting' = Waiting \ {t} /\ t \in Waiting /\ Posting' = Posting
      BY <2>0, <3>1 DEF Waiting, Posting, At
    <3>3. Cardinality(Waiting') = Cardinality(Waiting) - 1
      BY <2>f, <3>2, FS_RemoveElement
    <3> QED
      BY <2>0, <2>f, <2>w, <3>1, <3>2, <3>3 DEF Accounted, At
  <2>9. CASE Unregister(t) /\ mx'[t].pc = "post"
    <3>1. /\ At(t, "wake") /\ word'.waiters = word.waiters - 1 /\ word.waiters > 0 /\ sem' = sem
          /\ mx'[t].pc = "post"
      BY <2>9, <2>w DEF Unregister, CmpSet, NobodyWaits, Goto, At, MxTypeOK, LockWords
    <3>2. Posting' = Posting \cup {t} /\ t \notin Posting /\ Waiting' = Waiting
      BY <2>0, <3>1 DEF Waiting, Posting, At
    <3>3. Cardinality(Posting') = Cardinality(Posting) + 1
      BY <2>f, <3>2, FS_AddElement
    <3> QED
      BY <2>0, <2>f, <2>w, <3>1, <3>2, <3>3 DEF Accounted, At
  <2>10. CASE SemUp(t)
    <3>1. At(t, "post") /\ word' = word /\ sem' = sem + 1 /\ mx'[t].pc = "out"
      BY <2>10 DEF SemUp, Goto, MxTypeOK
    <3>2. Posting' = Posting \ {t} /\ t \in Posting /\ Waiting' = Waiting
      BY <2>0, <3>1 DEF Waiting, Posting, At
    <3>3. Cardinality(Posting') = Cardinality(Posting) - 1
      BY <2>f, <3>2, FS_RemoveElement
    <3> QED
      BY <2>0, <2>f, <2>w, <3>1, <3>2, <3>3 DEF Accounted, At
  <2> QED
    BY <1>2, <2>2, <2>3, <2>4, <2>5, <2>6, <2>7, <2>8, <2>9, <2>10 DEF MxStep
<1> QED
  BY <1>1, <1>2 DEF MxNext

-----------------------------------------------------------------------------
(* Neither call of ngx_abort() is reached from a state that is accounted for. *)
LEMMA AbortStep ==
    MxTypeOK /\ ExclusionInv /\ Accounted /\ NeverAborts /\ [MxNext]_mxvars => NeverAborts'
<1> SUFFICES ASSUME MxTypeOK, ExclusionInv, Accounted, NeverAborts
             PROVE  [MxNext]_mxvars => NeverAborts'
  OBVIOUS
<1>1. CASE UNCHANGED mxvars
  BY <1>1 DEF NeverAborts, At, mxvars
<1>2. ASSUME NEW t \in MxThreads, Call(t) \/ MxStep(t) PROVE NeverAborts'
  <2>0. \A u \in MxThreads \ {t} : mx'[u] = mx[u]
    BY <1>2, OthersStay
  <2>1. SUFFICES mx'[t].pc # "aborted"
    BY <2>0 DEF NeverAborts, At
  <2>2. CASE Call(t) \/ Spin(t) \/ SemDown(t) \/ SemUp(t)
    BY <2>2 DEF Call, Spin, SemDown, SemUp, Goto, MxTypeOK
  <2>3. CASE \/ ReadWord(t, "read", "lock") \/ ReadWord(t, "read_try", "try")
             \/ ReadWord(t, "in", "unlock") \/ ReadWord(t, "read_unlock", "unlock")
             \/ ReadWord(t, "read_wake", "wake")
    BY <2>3 DEF ReadWord, MxTypeOK
  <2>4. CASE Register(t)
    <3>1. mx[t].old.waiters < Cardinality(MxThreads)
      BY <2>4 DEF Register, Accounted
    <3>2. ~TooMany(mx[t].old.waiters + 1)
      BY <3>1, Finite DEF TooMany, MxTypeOK, LockWords
    <3> QED
      BY <2>4, <3>2 DEF Register, CmpSet, Goto, MxTypeOK
  <2>5. CASE Take(t) \/ TryTake(t)
    BY <2>5 DEF Take, TryTake, CmpSet, Goto, MxTypeOK
  <2>6. CASE Release(t)
    <3>1. mx[t].old.busy = 1
      BY <2>6 DEF Release, ExclusionInv, UnlockSeesBusy
    <3> QED
      BY <2>6, <3>1 DEF Release, CmpSet, Goto, MxTypeOK
  <2>7. CASE Unregister(t)
    BY <2>7 DEF Unregister, CmpSet, NobodyWaits, Goto, MxTypeOK
  <2> QED
    BY <1>2, <2>2, <2>3, <2>4, <2>5, <2>6, <2>7 DEF MxStep
<1> QED
  BY <1>1, <1>2 DEF MxNext

(* Nobody is counted as waiting on a mutex that has no semaphore. *)
LightNobody == MxLight => word.waiters = 0

LEMMA LightStep == MxTypeOK /\ LightNobody /\ [MxNext]_mxvars => LightNobody'
<1> SUFFICES ASSUME MxTypeOK, LightNobody, MxLight PROVE [MxNext]_mxvars => word'.waiters = 0
  BY DEF LightNobody
<1>0. word.waiters = 0
  BY DEF LightNobody
<1>1. CASE UNCHANGED mxvars
  BY <1>0, <1>1 DEF mxvars
<1>2. ASSUME NEW t \in MxThreads, Call(t) \/ MxStep(t) PROVE word'.waiters = 0
  <2>1. ASSUME NEW a, NEW b, ReadWord(t, a, b) PROVE word'.waiters = 0
    BY <1>0, <2>1 DEF ReadWord
  <2>2. CASE Call(t) \/ Spin(t) \/ SemDown(t) \/ SemUp(t) \/ Register(t)
    BY <1>0, <2>2 DEF Call, Spin, SemDown, SemUp, Register
  <2>3. CASE Take(t) \/ TryTake(t) \/ Release(t)
    BY <1>0, <2>3 DEF Take, TryTake, Release, CmpSet, MxTypeOK, LockWords
  <2>4. CASE Unregister(t)
    BY <1>0, <2>4 DEF Unregister, CmpSet, NobodyWaits
  <2> QED
    BY <1>2, <2>1, <2>2, <2>3, <2>4 DEF MxStep
<1> QED
  BY <1>1, <1>2 DEF MxNext

(* The wakeup passes from the thread that unlocks to the semaphore, to the    *)
(* thread that is woken, and to whoever locks the mutex next; a thread stops  *)
(* being on its way only when the mutex is locked or nobody waits.            *)
LEMMA WakeupStep ==
    MxTypeOK /\ LightNobody /\ NoLostWakeup /\ [MxNext]_mxvars /\ NeverAborts' => NoLostWakeup'
<1> SUFFICES ASSUME MxTypeOK, LightNobody, NoLostWakeup, NeverAborts',
                    word'.busy = 0, word'.waiters > 0
             PROVE  [MxNext]_mxvars => (sem' > 0 \/ \E u \in MxThreads : OnItsWay(u)')
  BY DEF NoLostWakeup
<1>1. CASE UNCHANGED mxvars
  BY <1>1 DEF NoLostWakeup, OnItsWay, At, mxvars
<1>2. ASSUME NEW t \in MxThreads, Call(t) \/ MxStep(t)
      PROVE  sem' > 0 \/ \E u \in MxThreads : OnItsWay(u)'
  <2>0. \A u \in MxThreads \ {t} : mx'[u] = mx[u]
    BY <1>2, OthersStay
  (* Whatever was on its way still is, if it was another thread or t itself.  *)
  <2>1. ASSUME word.busy = 0, word.waiters > 0, sem' = sem, OnItsWay(t) => OnItsWay(t)'
        PROVE  sem' > 0 \/ \E u \in MxThreads : OnItsWay(u)'
    <3>1. CASE sem > 0
      <4>1. sem \in Nat
        BY DEF MxTypeOK
      <4> QED
        BY <2>1, <3>1, <4>1
    <3>2. CASE sem <= 0
      <4>1. PICK u \in MxThreads : OnItsWay(u)
        BY <2>1, <3>2 DEF NoLostWakeup, MxTypeOK
      <4>2. CASE u = t
        BY <2>1, <4>1, <4>2
      <4>3. CASE u # t
        <5>1. mx'[u] = mx[u]
          BY <2>0, <4>3
        <5> QED
          BY <4>1, <5>1 DEF OnItsWay, At
      <4> QED
        BY <4>2, <4>3
    <3> QED
      BY <3>1, <3>2 DEF MxTypeOK
  <2>2. CASE Call(t) \/ Spin(t)
    BY <2>1, <2>2 DEF Call, Spin, OnItsWay, At, Goto, MxTypeOK
  <2>3. CASE SemDown(t)
    <3>1. mx'[t].pc = "read"
      BY <2>3 DEF SemDown, Goto, MxTypeOK
    <3> QED
      BY <3>1 DEF OnItsWay
  <2>4. CASE SemUp(t)
    BY <2>4 DEF SemUp, MxTypeOK
  <2>5. CASE \/ ReadWord(t, "read", "lock") \/ ReadWord(t, "read_try", "try")
             \/ ReadWord(t, "in", "unlock") \/ ReadWord(t, "read_unlock", "unlock")
    <3>1. word' = word /\ sem' = sem /\ (OnItsWay(t) => OnItsWay(t)')
      BY <2>5 DEF ReadWord, OnItsWay, At, MxTypeOK
    <3> QED
      BY <2>1, <3>1 DEF MxTypeOK
  <2>6. CASE ReadWord(t, "read_wake", "wake")
    <3>1. mx'[t].pc = "wake" /\ mx'[t].old = word /\ word' = word
      BY <2>6 DEF ReadWord, MxTypeOK
    <3> QED
      BY <3>1 DEF OnItsWay, At
  <2>7. CASE Register(t)
    <3>1. CASE word = mx[t].old /\ mx'[t].pc = "wait"
      BY <2>7, <3>1 DEF Register, CmpSet, Goto, MxTypeOK
    <3>2. CASE mx'[t].pc = "aborted"
      BY <3>2 DEF NeverAborts, At
    <3>3. CASE mx'[t].pc = "read"
      BY <3>3 DEF OnItsWay
    <3> QED
      BY <2>7, <3>1, <3>2, <3>3 DEF Register, CmpSet, Goto, MxTypeOK
  <2>8. CASE Take(t)
    <3>1. mx'[t].pc = "read" \/ word'.busy = 1
      BY <2>8 DEF Take, CmpSet, Goto, MxTypeOK, LockWords
    <3> QED
      BY <3>1 DEF OnItsWay
  <2>9. CASE TryTake(t)
    <3>1. word' = word \/ word'.busy = 1
      BY <2>9 DEF TryTake, CmpSet, Goto, MxTypeOK, LockWords
    <3>2. sem' = sem /\ ~OnItsWay(t)
      BY <2>9 DEF TryTake, OnItsWay, At
    <3> QED
      BY <2>1, <3>1, <3>2 DEF MxTypeOK
  <2>10. CASE Release(t)
    <3>1. CASE mx'[t].pc = "read_wake"
      BY <3>1 DEF OnItsWay
    <3>2. CASE mx'[t].pc # "read_wake" /\ ~MxLight
      <4>1. word' = word /\ sem' = sem /\ ~OnItsWay(t)
        BY <2>10, <3>2 DEF Release, CmpSet, Goto, OnItsWay, At, MxTypeOK
      <4> QED
        BY <2>1, <4>1 DEF MxTypeOK
    <3>3. CASE MxLight
      <4>1. word.waiters = 0
        BY <3>3 DEF LightNobody
      <4>2. word'.waiters = word.waiters
        BY <2>10 DEF Release, CmpSet, MxTypeOK, LockWords
      <4> QED
        BY <4>1, <4>2
    <3> QED
      BY <3>1, <3>2, <3>3
  <2>11. CASE Unregister(t)
    <3>1. CASE mx[t].old.busy = 1 \/ mx[t].old.waiters = 0
      <4>1. word' = word /\ sem' = sem /\ ~OnItsWay(t)
        BY <2>11, <3>1 DEF Unregister, NobodyWaits, OnItsWay, At
      <4> QED
        BY <2>1, <4>1 DEF MxTypeOK
    <3>2. CASE mx[t].old.busy # 1 /\ mx[t].old.waiters # 0
      <4>1. mx'[t].pc \in {"post", "read_wake"}
        BY <2>11, <3>2 DEF Unregister, CmpSet, NobodyWaits, Goto, MxTypeOK
      <4> QED
        BY <4>1 DEF OnItsWay
    <3> QED
      BY <3>1, <3>2
  <2> QED
    BY <1>2, <2>2, <2>3, <2>4, <2>5, <2>6, <2>7, <2>8, <2>9, <2>10, <2>11 DEF MxStep
<1> QED
  BY <1>1, <1>2 DEF MxNext

-----------------------------------------------------------------------------
MxInv == MxTypeOK /\ ExclusionInv /\ Accounted /\ NeverAborts /\ LightNobody /\ NoLostWakeup

LEMMA MxInitInv == MxInit => MxInv
<1> SUFFICES ASSUME MxInit PROVE MxInv
  OBVIOUS
<1>1. MxTypeOK /\ ExclusionInv /\ NeverAborts /\ LightNobody /\ NoLostWakeup
  BY DEF MxInit, MxTypeOK, ExclusionInv, OneHolder, UnlockSeesBusy, NeverAborts, LightNobody,
         NoLostWakeup, Holds, At, LockWords, Places
<1>2. Waiting = {} /\ Posting = {}
  BY DEF MxInit, Waiting, Posting, At
<1>3. Cardinality(Waiting) = 0 /\ Cardinality(Posting) = 0
  BY <1>2, FS_EmptySet
<1>4. Accounted
  BY <1>3 DEF MxInit, Accounted, At
<1> QED
  BY <1>1, <1>4 DEF MxInv

(* Every state of the mutex satisfies the invariant. *)
THEOREM MutexInvariant == MxSpec => []MxInv
<1>1. MxInv /\ [MxNext]_mxvars => MxInv'
  BY TypeStep, ExclusionStep, AccountedStep, AbortStep, LightStep, WakeupStep DEF MxInv
<1> QED
  BY MxInitInv, <1>1, PTL DEF MxSpec

(* At most one thread is between ngx_mutex_lock and ngx_mutex_unlock, for any *)
(* number of threads that lock, try and unlock.                               *)
THEOREM MutexExcludes == MxSpec => []OneHolder
<1>1. MxInv => OneHolder
  BY DEF MxInv, ExclusionInv
<1> QED
  BY MutexInvariant, <1>1, PTL

(* ngx_mutex_dolock never counts more waiting threads than there are, and     *)
(* ngx_mutex_unlock never finds the mutex free: no ngx_abort().               *)
THEOREM MutexNeverAborts == MxSpec => []NeverAborts
<1>1. MxInv => NeverAborts
  BY DEF MxInv
<1> QED
  BY MutexInvariant, <1>1, PTL

(* The wakeup of a thread that waits on the semaphore is never lost. *)
THEOREM MutexWakes == MxSpec => []NoLostWakeup
<1>1. MxInv => NoLostWakeup
  BY DEF MxInv
<1> QED
  BY MutexInvariant, <1>1, PTL

-----------------------------------------------------------------------------
(* The compare-and-set that sets the bit is the abstract Lock, the one that   *)
(* clears it the abstract Unlock, and nothing else changes the holder.        *)
LEMMA HolderStep ==
    MxTypeOK /\ ExclusionInv /\ ExclusionInv' /\ [MxNext]_mxvars => [Lk!LkNext]_MxHolder
<1> SUFFICES ASSUME MxTypeOK, ExclusionInv, ExclusionInv'
             PROVE  [MxNext]_mxvars => [Lk!LkNext]_MxHolder
  OBVIOUS
<1>1. CASE UNCHANGED mxvars
  BY <1>1 DEF MxHolder, Holds, mxvars
<1>2. ASSUME NEW t \in MxThreads, Call(t) \/ MxStep(t) PROVE [Lk!LkNext]_MxHolder
  <2>0. \A u \in MxThreads \ {t} : mx'[u] = mx[u]
    BY <1>2, OthersStay
  <2>h. /\ \A u \in MxThreads : Holds(u) => MxHolder = u
        /\ (\A u \in MxThreads : ~Holds(u)) => MxHolder = "nobody"
        /\ \A u \in MxThreads : Holds(u)' => MxHolder' = u
        /\ (\A u \in MxThreads : ~Holds(u)') => MxHolder' = "nobody"
    BY DEF ExclusionInv, OneHolder, MxHolder
  <2>1. CASE Holds(t) <=> Holds(t)'
    <3>1. \A u \in MxThreads : Holds(u)' <=> Holds(u)
      BY <2>0, <2>1 DEF Holds
    <3>2. MxHolder' = MxHolder
      BY <2>h, <3>1
    <3> QED
      BY <3>2
  <2>2. CASE ~Holds(t) /\ Holds(t)'
    <3>1. \A u \in MxThreads : ~Holds(u)
      BY <2>0, <2>2 DEF Holds, ExclusionInv, OneHolder
    <3>2. MxHolder = "nobody" /\ MxHolder' = t
      BY <2>h, <2>2, <3>1
    <3> QED
      BY <3>2 DEF Lk!LkNext, Lk!Lock
  <2>3. CASE Holds(t) /\ ~Holds(t)'
    <3>1. \A u \in MxThreads : ~Holds(u)'
      BY <2>0, <2>3 DEF Holds, ExclusionInv, OneHolder
    <3>2. MxHolder = t /\ MxHolder' = "nobody"
      BY <2>h, <2>3, <3>1
    <3> QED
      BY <3>2 DEF Lk!LkNext, Lk!Unlock
  <2> QED
    BY <2>1, <2>2, <2>3
<1> QED
  BY <1>1, <1>2 DEF MxNext

(* The mutex implements the lock its users rely on: every behaviour of        *)
(* ngx_mutex_dolock and ngx_mutex_unlock is one of the abstract lock.         *)
THEOREM MutexIsALock == MxSpec => IsALock
<1>1. MxInit => Lk!LkInit
  BY DEF MxInit, Lk!LkInit, MxHolder, Holds
<1>2. MxInv /\ MxInv' /\ [MxNext]_mxvars => [Lk!LkNext]_MxHolder
  BY HolderStep DEF MxInv
<1> QED
  BY <1>1, <1>2, MutexInvariant, PTL DEF MxSpec, IsALock, Lk!LkSpec
=============================================================================
