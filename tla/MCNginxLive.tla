---------------------------- MODULE MCNginxLive -----------------------------
(***************************************************************************)
(* The processes and the threads of nginx, each component on an instance of    *)
(* its own: a behaviour is a behaviour of one of them, and the others stay in  *)
(* one of their initial states.                                                *)
(***************************************************************************)
EXTENDS NgxMaster, NgxAccept, NgxThreads, NgxMutex

CONSTANTS t1, t2, t3

(* NgxMaster: without and with a cache manager; the signals it is sent. *)
MasterCases == {<<{}, 3>>, <<{"manager"}, 2>>}

(* NgxThreads: two events of one connection and one of another. *)
TwoConnections == <<1, 1, 2>>

VARIABLE part       \* the component a behaviour is about

MCInit ==
    /\ part \in {"master", "accept", "threads", "mutex"}
    /\ MInit /\ AInit /\ ThInit /\ MxInit
    /\ part # "master" => msigs = 2
    /\ part # "accept" => \A w \in AWorkers : ~wk[w].multi
    /\ part # "threads" => posted.kind = "pthread"

MCNext ==
    /\ \/ part = "master" /\ MNext /\ UNCHANGED <<avars, thvars, mxvars>>
       \/ part = "accept" /\ ANext /\ UNCHANGED <<mvars, thvars, mxvars>>
       \/ part = "threads" /\ ThNext /\ UNCHANGED <<mvars, avars, mxvars>>
       \/ part = "mutex" /\ MxNext /\ UNCHANGED <<mvars, avars, thvars>>
    /\ UNCHANGED part

(* MFairness, AFairness and ThFairness, for the component that runs. *)
MCFairness ==
    /\ WF_mvars(part = "master" /\ MasterTurn) /\ WF_mvars(part = "master" /\ AlarmFires)
    /\ \A p \in MPids : WF_mvars(part = "master" /\ ChildObeys(p))
    /\ \A w \in AWorkers :
          WF_avars(part = "accept" /\ WorkerStep(w)) /\ WF_avars(part = "accept" /\ Reap(w))
    /\ WF_thvars(part = "threads" /\ MainStep)
    /\ \A t \in Threads : SF_thvars(part = "threads" /\ ThreadStep(t))

MCSpec == MCInit /\ [][MCNext]_<<part, mvars, avars, thvars, mxvars>> /\ MCFairness
=============================================================================
