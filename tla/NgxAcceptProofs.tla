-------------------------- MODULE NgxAcceptProofs ---------------------------
(***************************************************************************)
(* The accept mutex, for any number of workers, connections, arrivals and   *)
(* deaths.                                                                  *)
(***************************************************************************)
EXTENDS NgxAccept, TLAPS

AcceptPcs == {"top", "poll", "accept", "unlock", "rest", "dead"}
WorkerType == [pc : AcceptPcs, held : BOOLEAN, enabled : BOOLEAN, disabled : Int,
               post : BOOLEAN, event : BOOLEAN, free : Int, multi : BOOLEAN]
AcceptTypeOK ==
    /\ wk \in [AWorkers -> WorkerType]
    /\ mutex \in AWorkers \cup {0}
    /\ backlog \in Nat /\ arrivals \in Nat /\ deaths \in Nat

(* The flag ngx_accept_mutex_held outlives the mutex: it says whether the     *)
(* listening socket is in the worker's event set.                             *)
EnabledIsHeld == \A w \in AWorkers : wk[w].enabled => wk[w].held

AcceptInv == AcceptTypeOK /\ EnabledIsHeld /\ AcceptsUnderMutex

-----------------------------------------------------------------------------
(* Initially no worker has the listening socket in its event set. *)
LEMMA AcceptInitInv == AInit => AcceptInv
<1> SUFFICES ASSUME AInit PROVE AcceptInv
  OBVIOUS
<1>1. PICK m \in BOOLEAN : wk \in [AWorkers -> {Fresh(f, m) : f \in AFree}]
  BY DEF AInit
<1>2. ASSUME NEW w \in AWorkers
      PROVE  wk[w] \in WorkerType /\ wk[w].pc = "top" /\ wk[w].enabled = FALSE
  <2>1. PICK f \in AFree : wk[w] = Fresh(f, m)
    BY <1>1
  <2>2. f \in Int
    BY AcceptAssumption
  <2> QED
    BY <2>1, <2>2, <1>1 DEF Fresh, WorkerType, AcceptPcs
<1>3. AcceptTypeOK
  BY <1>1, <1>2 DEF AInit, AcceptTypeOK
<1> QED
  BY <1>2, <1>3 DEF AcceptInv, EnabledIsHeld, AcceptsUnderMutex

(* What a step that changes the variables of one worker only has to show. *)
LEMMA OneWorkerMoves ==
  ASSUME AcceptInv, NEW w \in AWorkers, NEW r \in WorkerType,
         wk' = [wk EXCEPT ![w] = r],
         mutex' \in AWorkers \cup {0}, backlog' \in Nat, arrivals' \in Nat, deaths' \in Nat,
         \A u \in AWorkers \ {w} : mutex = u => mutex' = u,
         r.enabled => r.held,
         r.pc \in {"poll", "accept"} /\ r.enabled /\ r.post => mutex' = w
  PROVE  AcceptInv'
<1>1. /\ wk' \in [AWorkers -> WorkerType]
      /\ wk'[w] = r
      /\ \A u \in AWorkers \ {w} : wk'[u] = wk[u]
  BY DEF AcceptInv, AcceptTypeOK
<1>2. AcceptTypeOK'
  BY <1>1 DEF AcceptTypeOK
<1>3. EnabledIsHeld'
  BY <1>1 DEF AcceptInv, EnabledIsHeld
<1>4. ASSUME NEW u \in AWorkers, wk'[u].pc \in {"poll", "accept"}, wk'[u].enabled
      PROVE  IF wk'[u].post THEN mutex' = u ELSE wk'[u].held
  <2>1. CASE u = w
    BY <1>1, <1>4, <2>1
  <2>2. CASE u # w
    BY <1>1, <1>4, <2>2 DEF AcceptInv, AcceptsUnderMutex
  <2> QED
    BY <2>1, <2>2
<1> QED
  BY <1>2, <1>3, <1>4 DEF AcceptInv, AcceptsUnderMutex

-----------------------------------------------------------------------------
(* Every step of the workers, of the peers and of the master keeps the        *)
(* invariant: the mutex is given only when nobody has it, given back only by  *)
(* its owner or, for a dead owner, by the master.                             *)
LEMMA AcceptStep == AcceptInv /\ [ANext]_avars => AcceptInv'
<1> SUFFICES ASSUME AcceptInv PROVE [ANext]_avars => AcceptInv'
  OBVIOUS
<1> USE AcceptAssumption
<1>0. /\ wk \in [AWorkers -> WorkerType] /\ mutex \in AWorkers \cup {0}
      /\ backlog \in Nat /\ arrivals \in Nat /\ deaths \in Nat
      /\ \A w \in AWorkers : wk[w].enabled => wk[w].held
      /\ \A w \in AWorkers : wk[w].pc \in {"poll", "accept"} /\ wk[w].enabled /\ wk[w].post
                              => mutex = w
  BY DEF AcceptInv, AcceptTypeOK, EnabledIsHeld, AcceptsUnderMutex
<1>1. ASSUME UNCHANGED avars PROVE AcceptInv'
  BY <1>1 DEF avars, AcceptInv, AcceptTypeOK, EnabledIsHeld, AcceptsUnderMutex
<1>2. ASSUME Arrive PROVE AcceptInv'
  BY <1>0, <1>2 DEF Arrive, AcceptInv, AcceptTypeOK, EnabledIsHeld, AcceptsUnderMutex
<1>3. ASSUME NEW w \in AWorkers, Top(w) PROVE AcceptInv'
  <2>1. CASE wk[w].disabled > 0 /\ mutex' = mutex
    <3> DEFINE r == [wk[w] EXCEPT !.disabled = wk[w].disabled - 1, !.post = FALSE, !.pc = "poll"]
    <3>0. wk[w].disabled - 1 \in Int
      BY <1>0 DEF WorkerType
    <3>1. r \in WorkerType /\ r.enabled = wk[w].enabled /\ r.held = wk[w].held /\ r.post = FALSE
      BY <1>0, <3>0 DEF WorkerType, AcceptPcs
    <3>2. wk' = [wk EXCEPT ![w] = r] /\ backlog' = backlog /\ arrivals' = arrivals /\ deaths' = deaths
      BY <1>3, <2>1, <1>0 DEF Top, Trylock, WorkerType
    <3> HIDE DEF r
    <3> QED
      BY <3>1, <3>2, <2>1, <1>0, OneWorkerMoves
  <2>2. CASE mutex = 0 /\ mutex' = w
    <3> DEFINE r == [wk[w] EXCEPT !.held = TRUE, !.enabled = TRUE, !.post = TRUE, !.pc = "poll"]
    <3>1. r \in WorkerType /\ r.held = TRUE
      BY <1>0 DEF WorkerType, AcceptPcs
    <3>2. wk' = [wk EXCEPT ![w] = r] /\ backlog' = backlog /\ arrivals' = arrivals /\ deaths' = deaths
      BY <1>3, <2>2 DEF Top, Trylock
    <3> HIDE DEF r
    <3> QED
      BY <3>1, <3>2, <2>2, <1>0, OneWorkerMoves
  <2>3. CASE wk[w].disabled <= 0 /\ mutex # 0 /\ mutex' = mutex
    <3> DEFINE r == [wk[w] EXCEPT !.held = FALSE, !.post = FALSE, !.pc = "poll",
                                  !.enabled = StillEnabled(w)]
    <3>1. StillEnabled(w) = FALSE
      BY <1>0 DEF StillEnabled, WorkerType
    <3>2. r \in WorkerType /\ r.enabled = FALSE /\ r.post = FALSE
      BY <1>0, <3>1 DEF WorkerType, AcceptPcs
    <3>3. wk' = [wk EXCEPT ![w] = r] /\ backlog' = backlog /\ arrivals' = arrivals /\ deaths' = deaths
      BY <1>3, <2>3, <1>0 DEF Top, Trylock, WorkerType
    <3> HIDE DEF r
    <3> QED
      BY <3>2, <3>3, <2>3, <1>0, OneWorkerMoves
  <2> QED
    BY <1>3, <1>0, <2>1, <2>2, <2>3 DEF Top, Trylock
<1>4. ASSUME NEW w \in AWorkers, Poll(w) PROVE AcceptInv'
  <2> DEFINE e == wk[w].enabled /\ backlog > 0
             r == [wk[w] EXCEPT !.event = e, !.pc = "accept"]
  <2>1. r \in WorkerType /\ r.enabled = wk[w].enabled /\ r.held = wk[w].held /\ r.post = wk[w].post
    BY <1>0 DEF WorkerType, AcceptPcs
  <2>2. wk' = [wk EXCEPT ![w] = r] /\ wk[w].pc = "poll" /\ UNCHANGED <<mutex, backlog, arrivals, deaths>>
    BY <1>4 DEF Poll
  <2> HIDE DEF r
  <2> QED
    BY <2>1, <2>2, <1>0, OneWorkerMoves
<1>5. ASSUME NEW w \in AWorkers, Accept(w) PROVE AcceptInv'
  <2>1. wk[w].pc = "accept" /\ backlog' \in Nat /\ UNCHANGED <<mutex, arrivals, deaths>>
    BY <1>5, <1>0 DEF Accept
  <2>2. ASSUME NEW r \in WorkerType, r.enabled = wk[w].enabled, r.held = wk[w].held,
               r.post = wk[w].post, wk' = [wk EXCEPT ![w] = r]
        PROVE  AcceptInv'
    BY <2>1, <2>2, <1>0, OneWorkerMoves
  <2>3. CASE AcceptOne(w)
    <3> DEFINE f == IF wk[w].free > 0 THEN wk[w].free - 1 ELSE wk[w].free
               e == wk[w].multi /\ wk[w].free > 0
               r == [wk[w] EXCEPT !.disabled = (AConns \div 8) - wk[w].free, !.free = f, !.event = e]
    <3>1. wk[w].free \in Int /\ AConns \div 8 \in Int
      BY <1>0 DEF WorkerType
    <3>2. (AConns \div 8) - wk[w].free \in Int /\ f \in Int /\ e \in BOOLEAN
      BY <3>1
    <3>3. wk' = [wk EXCEPT ![w] = r]
      BY <2>3, <1>0 DEF AcceptOne, WorkerType
    <3> HIDE DEF f, e
    <3>4. r \in WorkerType /\ r.enabled = wk[w].enabled /\ r.held = wk[w].held /\ r.post = wk[w].post
      BY <1>0, <3>2 DEF WorkerType
    <3> QED
      BY <3>3, <3>4, <2>2
  <2>4. CASE Aborted(w)
    <3> DEFINE r == [wk[w] EXCEPT !.event = wk[w].multi]
    <3>1. wk' = [wk EXCEPT ![w] = r]
      BY <2>4 DEF Aborted
    <3>2. r \in WorkerType /\ r.enabled = wk[w].enabled /\ r.held = wk[w].held /\ r.post = wk[w].post
      BY <1>0 DEF WorkerType
    <3> QED
      BY <3>1, <3>2, <2>2
  <2>5. CASE wk' = [wk EXCEPT ![w] = [wk[w] EXCEPT !.event = FALSE, !.pc = "unlock"]]
    <3> DEFINE r == [wk[w] EXCEPT !.event = FALSE, !.pc = "unlock"]
    <3>1. r \in WorkerType /\ r.enabled = wk[w].enabled /\ r.held = wk[w].held /\ r.post = wk[w].post
      BY <1>0 DEF WorkerType, AcceptPcs
    <3> QED
      BY <3>1, <2>5, <2>2
  <2> QED
    BY <1>5, <2>3, <2>4, <2>5 DEF Accept
<1>6. ASSUME NEW w \in AWorkers, Unlock(w) PROVE AcceptInv'
  <2> DEFINE r == [wk[w] EXCEPT !.pc = "rest"]
  <2>1. r \in WorkerType /\ r.pc = "rest" /\ r.enabled = wk[w].enabled /\ r.held = wk[w].held
    BY <1>0 DEF WorkerType, AcceptPcs
  <2>2. wk' = [wk EXCEPT ![w] = r] /\ UNCHANGED <<backlog, arrivals, deaths>>
    BY <1>6 DEF Unlock
  <2>3. mutex' \in AWorkers \cup {0} /\ \A u \in AWorkers \ {w} : mutex = u => mutex' = u
    BY <1>6, <1>0 DEF Unlock
  <2> HIDE DEF r
  <2> QED
    BY <2>1, <2>2, <2>3, <1>0, OneWorkerMoves
<1>7. ASSUME NEW w \in AWorkers, RestOfTurn(w) PROVE AcceptInv'
  <2>1. PICK n \in {0, 1} :
          wk' = [wk EXCEPT ![w] = [wk[w] EXCEPT !.free = wk[w].free + n, !.pc = "top"]]
    BY <1>7, <1>0 DEF RestOfTurn, WorkerType
  <2> DEFINE r == [wk[w] EXCEPT !.free = wk[w].free + n, !.pc = "top"]
  <2>2. wk[w].free + n \in Int
    BY <1>0 DEF WorkerType
  <2>3. r \in WorkerType /\ r.pc = "top" /\ r.enabled = wk[w].enabled /\ r.held = wk[w].held
    BY <1>0, <2>2 DEF WorkerType, AcceptPcs
  <2>4. wk' = [wk EXCEPT ![w] = r] /\ UNCHANGED <<mutex, backlog, arrivals, deaths>>
    BY <2>1, <1>7 DEF RestOfTurn
  <2> HIDE DEF r
  <2> QED
    BY <2>3, <2>4, <1>0, OneWorkerMoves
<1>8. ASSUME NEW w \in AWorkers, Die(w) PROVE AcceptInv'
  <2> DEFINE r == [wk[w] EXCEPT !.pc = "dead"]
  <2>1. r \in WorkerType /\ r.pc = "dead" /\ r.enabled = wk[w].enabled /\ r.held = wk[w].held
    BY <1>0 DEF WorkerType, AcceptPcs
  <2>2. wk' = [wk EXCEPT ![w] = r] /\ UNCHANGED <<mutex, backlog, arrivals>> /\ deaths' \in Nat
    BY <1>8, <1>0 DEF Die
  <2> HIDE DEF r
  <2> QED
    BY <2>1, <2>2, <1>0, OneWorkerMoves
<1>9. ASSUME NEW w \in AWorkers, Reap(w) PROVE AcceptInv'
  <2> DEFINE r == Fresh(AConns, wk[w].multi)
  <2>1. r \in WorkerType /\ r.enabled = FALSE
    BY <1>0 DEF WorkerType, AcceptPcs, Fresh
  <2>2. wk' = [wk EXCEPT ![w] = r] /\ UNCHANGED <<backlog, arrivals, deaths>>
    BY <1>9 DEF Reap
  <2>3. mutex' \in AWorkers \cup {0} /\ \A u \in AWorkers \ {w} : mutex = u => mutex' = u
    BY <1>9, <1>0 DEF Reap, Freed
  <2> HIDE DEF r
  <2> QED
    BY <2>1, <2>2, <2>3, <1>0, OneWorkerMoves
<1> QED
  BY <1>1, <1>2, <1>3, <1>4, <1>5, <1>6, <1>7, <1>8, <1>9 DEF ANext, WorkerStep

(* In every worker, whoever dies and whoever is beaten to the mutex: the      *)
(* accept events it has posted are handled while it has the mutex.            *)
THEOREM AcceptMutexKept == ASpec => []AcceptsUnderMutex
<1>1. AcceptInv => AcceptsUnderMutex
  BY DEF AcceptInv
<1> QED
  BY AcceptInitInv, AcceptStep, <1>1, PTL DEF ASpec
=============================================================================
