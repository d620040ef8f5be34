----------------------------- MODULE NgxAccept ------------------------------
(***************************************************************************)
(* Workers that share a listening socket (ngx_event.c, ngx_event_accept.c,  *)
(* ngx_shmtx.h): one turn of ngx_process_events_and_timers, in which a      *)
(* worker competes for the accept mutex, collects events, accepts, gives    *)
(* the mutex back and does the rest of its work.  A worker may die at any   *)
(* point; the master then frees the mutex it held.                         *)
(***************************************************************************)
EXTENDS Integers

CONSTANTS
    AWorkers,       \* workers
    AConns,         \* cycle->connection_n of a worker
    AFree,          \* free connections a worker may start with
    ABusy,          \* bound: connections of a worker that do not come to an end
    AMaxArrivals,   \* bound: connections that arrive
    AMaxDeaths      \* bound: workers that die

(* A worker is named by its pid. *)
ASSUME AcceptAssumption ==
    /\ 0 \notin AWorkers
    /\ AConns \in Nat /\ ABusy \in Nat /\ AMaxArrivals \in Nat /\ AMaxDeaths \in Nat
    /\ AFree \subseteq Nat

VARIABLES
    wk,         \* wk[w]: the variables of worker w
    mutex,      \* ngx_accept_mutex: the pid that has it, or 0
    backlog,    \* connections waiting in the listening socket
    arrivals,   \* connections that arrived so far
    deaths      \* workers that died so far

avars == <<wk, mutex, backlog, arrivals, deaths>>

Fresh(free, multi) ==
    [pc |-> "top",          \* where in its turn
     held |-> FALSE,        \* ngx_accept_mutex_held
     enabled |-> FALSE,     \* the listening socket is in its event set
     disabled |-> 0,        \* ngx_accept_disabled
     post |-> FALSE,        \* NGX_POST_EVENTS
     event |-> FALSE,       \* an accept event was reported in this turn
     free |-> free,         \* cycle->free_connection_n
     multi |-> multi]       \* multi_accept

AInit ==
    /\ \E m \in BOOLEAN : wk \in [AWorkers -> {Fresh(f, m) : f \in AFree}]
    /\ mutex = 0 /\ backlog = 0 /\ arrivals = 0 /\ deaths = 0

-----------------------------------------------------------------------------
(* ngx_disable_accept_events, for a worker that was beaten to the mutex. *)
FaultStillEnabled(w) == wk[w].enabled
StillEnabled(w) == wk[w].enabled /\ ~wk[w].held

(* ngx_trylock_accept_mutex.  The flag "held" survives ngx_shmtx_unlock: it   *)
(* says that the accept events are enabled.                                   *)
Trylock(w) ==
    \/ /\ mutex = 0
       /\ mutex' = w
       /\ wk' = [wk EXCEPT ![w] = [@ EXCEPT !.held = TRUE, !.enabled = TRUE,
                                            !.post = TRUE, !.pc = "poll"]]
    \/ /\ mutex # 0
       /\ wk' = [wk EXCEPT ![w] = [@ EXCEPT !.held = FALSE, !.post = FALSE, !.pc = "poll",
                                            !.enabled = StillEnabled(w)]]
       /\ UNCHANGED mutex

(* The top of ngx_process_events_and_timers. *)
Top(w) ==
    /\ wk[w].pc = "top"
    /\ \/ /\ wk[w].disabled > 0
          /\ wk' = [wk EXCEPT ![w] = [@ EXCEPT !.disabled = wk[w].disabled - 1, !.post = FALSE,
                                               !.pc = "poll"]]
          /\ UNCHANGED mutex
       \/ wk[w].disabled <= 0 /\ Trylock(w)
    /\ UNCHANGED <<backlog, arrivals, deaths>>

(* ngx_process_events: the accept event is posted, or handled on the spot. *)
Poll(w) ==
    /\ wk[w].pc = "poll"
    /\ wk' = [wk EXCEPT ![w] = [@ EXCEPT !.event = wk[w].enabled /\ backlog > 0, !.pc = "accept"]]
    /\ UNCHANGED <<mutex, backlog, arrivals, deaths>>

(* ngx_event_accept: another worker may have been faster; a worker without a  *)
(* free connection closes what it accepted; with multi_accept it goes on      *)
(* until there is nothing left.                                               *)
AcceptOne(w) ==
    /\ wk' = [wk EXCEPT ![w] = [@ EXCEPT !.disabled = (AConns \div 8) - wk[w].free,
                                         !.free = IF wk[w].free > 0 THEN wk[w].free - 1 ELSE wk[w].free,
                                         !.event = wk[w].multi /\ wk[w].free > 0]]
Aborted(w) == wk' = [wk EXCEPT ![w].event = wk[w].multi]        \* ECONNABORTED
Accept(w) ==
    /\ wk[w].pc = "accept"
    /\ \/ /\ wk[w].event /\ backlog > 0
          /\ backlog' = backlog - 1
          /\ AcceptOne(w) \/ Aborted(w)
       \/ /\ ~wk[w].event \/ backlog = 0
          /\ wk' = [wk EXCEPT ![w] = [@ EXCEPT !.event = FALSE, !.pc = "unlock"]]
          /\ UNCHANGED backlog
    /\ UNCHANGED <<mutex, arrivals, deaths>>

(* ngx_shmtx_unlock: compares, so that only its owner frees the mutex. *)
Unlock(w) ==
    /\ wk[w].pc = "unlock"
    /\ mutex' = IF wk[w].held /\ mutex = w THEN 0 ELSE mutex
    /\ wk' = [wk EXCEPT ![w].pc = "rest"]
    /\ UNCHANGED <<backlog, arrivals, deaths>>

(* The timers and the posted events: connections come to their end. *)
RestOfTurn(w) ==
    /\ wk[w].pc = "rest"
    /\ \E n \in {0, 1} :
          /\ wk[w].free + n <= AConns - n * ABusy
          /\ wk' = [wk EXCEPT ![w] = [@ EXCEPT !.free = wk[w].free + n, !.pc = "top"]]
    /\ UNCHANGED <<mutex, backlog, arrivals, deaths>>

-----------------------------------------------------------------------------
Arrive ==
    /\ arrivals < AMaxArrivals
    /\ arrivals' = arrivals + 1 /\ backlog' = backlog + 1
    /\ UNCHANGED <<wk, mutex, deaths>>
Die(w) ==
    /\ wk[w].pc # "dead" /\ deaths < AMaxDeaths
    /\ wk' = [wk EXCEPT ![w].pc = "dead"]
    /\ deaths' = deaths + 1
    /\ UNCHANGED <<mutex, backlog, arrivals>>

(* ngx_process_get_status: "unlock accept mutex if the abnormally exited      *)
(* process held it"; then the worker is started again.                        *)
FaultFreed(w) == mutex
Freed(w) == IF mutex = w THEN 0 ELSE mutex
Reap(w) ==
    /\ wk[w].pc = "dead"
    /\ mutex' = Freed(w)
    /\ wk' = [wk EXCEPT ![w] = Fresh(AConns, wk[w].multi)]
    /\ UNCHANGED <<backlog, arrivals, deaths>>

WorkerStep(w) == Top(w) \/ Poll(w) \/ Accept(w) \/ Unlock(w) \/ RestOfTurn(w)
ANext == Arrive \/ \E w \in AWorkers : WorkerStep(w) \/ Die(w) \/ Reap(w)

ASpec == AInit /\ [][ANext]_avars

(* Every worker keeps running, and the master reaps. *)
AFairness == \A w \in AWorkers : WF_avars(WorkerStep(w)) /\ WF_avars(Reap(w))

-----------------------------------------------------------------------------
(* An accept event a worker has posted is handled while it still has the      *)
(* mutex, whoever dies in the meantime; the only accepts without it are those *)
(* of a worker that was too busy to ask for it.                               *)
AcceptsUnderMutex ==
    \A w \in AWorkers :
        wk[w].pc \in {"poll", "accept"} /\ wk[w].enabled =>
            IF wk[w].post THEN mutex = w ELSE wk[w].held

(* Every connection is taken from the backlog in the end, though workers die  *)
(* with the mutex in their hands and others are out of connections.           *)
BacklogServed == [](backlog > 0 => <>(backlog = 0))
=============================================================================
