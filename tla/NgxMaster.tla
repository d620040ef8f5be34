----------------------------- MODULE NgxMaster ------------------------------
(***************************************************************************)
(* The master process of nginx and its children (ngx_process_cycle.c,      *)
(* ngx_process.c): the table of processes, the signals the master is sent,  *)
(* reaping and respawning, reconfiguration, the change of the binary, and   *)
(* how everything is brought down again.                                   *)
(*                                                                         *)
(* Signals are blocked in the master except inside sigsuspend, so one turn  *)
(* of its loop, with the handlers of all signals that were pending, is one  *)
(* step here.  Children crash and obey in between.                         *)
(***************************************************************************)
EXTENDS Naturals, FiniteSets, SequencesExt

CONSTANTS
    MWorkers,       \* worker_processes
    MCases,         \* pairs: the cache processes the pathes ask for, and a bound,
                    \* the signals the administrator sends
    MMaxPid,        \* bound: processes spawned in one behaviour
    MMaxCrashes     \* bound: children that die on their own

MPids == 1..MMaxPid
NoPid == MMaxPid + 1        \* NGX_INVALID_PID: no process could be forked
MSignals == {"QUIT", "TERM", "HUP", "USR1", "USR2", "WINCH"}

VARIABLES
    mt,     \* the master: its process table and its variables
    kid,    \* kid[p]: what process p is doing, and what it has been told
    msent,  \* signals on their way to the master
    msigs,  \* signals the administrator may still send
    mdied   \* children that died on their own so far

mvars == <<mt, kid, msent, msigs, mdied>>

-----------------------------------------------------------------------------
(* An entry of ngx_processes; pid 0 stands for -1. *)
Entry(pid, respawn, just, detached) ==
    [pid |-> pid, exiting |-> FALSE, exited |-> FALSE, detached |-> detached,
     respawn |-> respawn, just |-> just]

(* ngx_spawn_process: the first entry without a process, or a new one.  The  *)
(* table and the next pid are all it changes.                                *)
FreeEntries(m) == {i \in 1..Len(m.procs) : m.procs[i].pid = 0}
Spawn(m, respawn, just, detached) ==
    LET e == Entry(m.next, respawn, just, detached)
        f == FreeEntries(m)
    IN IF m.next > MMaxPid THEN m
       ELSE [m EXCEPT !.next = @ + 1,
                      !.procs = IF f = {} THEN Append(@, e)
                                ELSE [@ EXCEPT ![CHOOSE i \in f : \A j \in f : i <= j] = e]]

(* The same call for an entry that is to be used again keeps its flags. *)
Respawn(m, i) ==
    IF m.next > MMaxPid THEN m
    ELSE [m EXCEPT !.next = @ + 1, !.live = TRUE,
                   !.procs[i] = [@ EXCEPT !.pid = m.next, !.exited = FALSE]]

(* ngx_start_worker_processes and ngx_start_cache_manager_processes: the     *)
(* manager is respawned when it dies, the loader is not.                     *)
Starts(m) == [i \in 1..MWorkers |-> TRUE]
             \o (IF "manager" \in m.helpers THEN <<TRUE>> ELSE <<>>)
             \o (IF {"manager", "loader"} \subseteq m.helpers THEN <<FALSE>> ELSE <<>>)

RECURSIVE StartFrom(_, _, _)
StartFrom(M, i, just) ==
    IF \A m \in M : i > Len(Starts(m)) THEN M
    ELSE StartFrom({Spawn(m, Starts(m)[i], just, FALSE) : m \in M}, i + 1, just)
StartProcesses(m, just) == CHOOSE x \in StartFrom({m}, 1, just) : TRUE

(* The table with F applied to each entry. *)
EachEntry(F(_), table) == <<>> \o [i \in 1..Len(table) |-> F(table[i])]

(* ngx_signal_worker_processes: who is told, and the flags it leaves.  A     *)
(* child reached neither by its channel nor by kill() is already dead.       *)
FaultTells(e, sig) == ~e.detached /\ e.pid # 0 /\ ~(e.exiting /\ sig = "QUIT")
Tells(e, sig) ==
    ~e.detached /\ e.pid # 0 /\ ~e.just /\ ~(e.exiting /\ sig = "QUIT")

Signalled(e, sig) ==
    [e EXCEPT !.exiting = @ \/ (Tells(e, sig) /\ sig # "REOPEN"),
              !.just = @ /\ (e.detached \/ e.pid = 0)]

SignalWorkers(m, sig) ==
    [m EXCEPT !.procs = EachEntry(LAMBDA e : Signalled(e, sig), @),
              !.tell = @ \cup {<<e.pid, sig>> : e \in {x \in Range(m.procs) : Tells(x, sig)}}]

-----------------------------------------------------------------------------
(* A process the master waits for. *)
FaultAwaited(e) == e.exiting
Awaited(e) == e.exiting \/ ~e.detached

(* ngx_reap_children, entry by entry: respawn it, or let go of it; an entry  *)
(* at the end of the table is dropped.                                       *)
ReapEntry(m, i) ==
    LET e == m.procs[i]
        newBinaryGone ==
            [m EXCEPT !.newBinary = 0,
                      !.restart = @ \/ m.noaccepting, !.noaccepting = FALSE]
        m2 == IF e.pid = m.newBinary THEN newBinaryGone ELSE m
    IN CASE e.pid = 0 -> m
         [] e.pid # 0 /\ e.exited /\ e.respawn /\ ~e.exiting /\ ~m.terminate /\ ~m.quit ->
                Respawn(m, i)
         [] e.pid # 0 /\ e.exited /\ ~(e.respawn /\ ~e.exiting /\ ~m.terminate /\ ~m.quit) ->
                [m2 EXCEPT !.procs = IF i = Len(@) THEN Front(@)
                                     ELSE [@ EXCEPT ![i].pid = 0]]
         [] e.pid # 0 /\ ~e.exited ->
                [m EXCEPT !.live = @ \/ Awaited(e)]

RECURSIVE ReapFrom(_, _)
ReapFrom(M, i) ==
    IF \A m \in M : i > Len(m.procs) THEN M ELSE ReapFrom({ReapEntry(m, i) : m \in M}, i + 1)

ReapChildren(m) ==
    CHOOSE x \in ReapFrom({[m EXCEPT !.reap = FALSE, !.live = FALSE]}, 1) : TRUE

-----------------------------------------------------------------------------
Status(e) == IF e.pid = 0 THEN "none" ELSE kid[e.pid].st
WithStatus(e) == [e EXCEPT !.exited = @ \/ Status(e) \in {"dead", "fatal"},
                           !.respawn = @ /\ Status(e) # "fatal"]

(* ngx_signal_handler in the master.  SIGCHLD also runs                      *)
(* ngx_process_get_status, which marks every entry whose process is gone;    *)
(* exit code 2 says that starting the process again would not help.          *)
Delivered(m, sigs) ==
    [m EXCEPT !.quit = @ \/ "QUIT" \in sigs,
              !.terminate = @ \/ "TERM" \in sigs,
              !.reconfigure = @ \/ "HUP" \in sigs,
              !.reopen = @ \/ "USR1" \in sigs,
              !.noaccept = @ \/ "WINCH" \in sigs,
              !.changeBinary = @ \/ ("USR2" \in sigs /\ m.newBinary \in {0, NoPid}),
              !.sigalrm = @ \/ "ALRM" \in sigs,
              !.reap = @ \/ "CHLD" \in sigs,
              !.procs = IF "CHLD" \in sigs THEN EachEntry(WithStatus, @) ELSE @]

(* The top of the loop: the timer of a termination that takes too long. *)
SetTimer(m) ==
    IF m.delay = 0 THEN m
    ELSE [m EXCEPT !.delay = IF m.sigalrm /\ @ <= 1000 THEN 2 * @ ELSE @,
                   !.sigio = IF m.sigalrm THEN 0 ELSE @,
                   !.sigalrm = FALSE, !.alarm = TRUE]

(* ngx_terminate: ask, wait for the answers, ask again; in the end, SIGKILL. *)
FaultNoKill(m) ==
    IF m.sigio > 0
      THEN [m EXCEPT !.delay = IF @ = 0 THEN 50 ELSE @, !.sigio = @ - 1]
      ELSE SignalWorkers([m EXCEPT !.delay = IF @ = 0 THEN 50 ELSE @,
                                   !.sigio = MWorkers + 2], "TERM")
Terminating(m) ==
    IF m.sigio > 0
      THEN [m EXCEPT !.delay = IF @ = 0 THEN 50 ELSE @, !.sigio = @ - 1]
      ELSE SignalWorkers([m EXCEPT !.delay = IF @ = 0 THEN 50 ELSE @,
                                   !.sigio = MWorkers + 2],
                         IF m.delay > 1000 THEN "KILL" ELSE "TERM")

(* ngx_quit: the listening sockets are closed once the workers are told. *)
Quitting(m) == [SignalWorkers(m, "QUIT") EXCEPT !.listening = FALSE]

(* ngx_reconfigure: with a new binary running, workers of the old one come   *)
(* back; otherwise new workers start and the old ones are told to quit.      *)
BackToOldBinary(m) ==
    [StartProcesses(m, FALSE) EXCEPT !.noaccepting = FALSE, !.unseen = TRUE]
Reconfigured(m) ==
    SignalWorkers([StartProcesses(m, TRUE) EXCEPT !.live = TRUE], "QUIT")

(* What follows ngx_reconfigure in the loop, in its order. *)
Restarted(m) ==
    IF m.restart THEN [StartProcesses(m, FALSE) EXCEPT !.restart = FALSE, !.live = TRUE]
    ELSE m
Reopened(m) ==
    IF m.reopen THEN SignalWorkers([m EXCEPT !.reopen = FALSE], "REOPEN") ELSE m
BinaryChanged(m) ==
    IF m.changeBinary
      THEN [Spawn([m EXCEPT !.changeBinary = FALSE], FALSE, FALSE, TRUE)
              EXCEPT !.newBinary = m.next]
      ELSE m
NoAccept(m) ==
    IF m.noaccept
      THEN SignalWorkers([m EXCEPT !.noaccept = FALSE, !.noaccepting = TRUE], "QUIT")
      ELSE m
Rest(M) ==
    {NoAccept(d) : d \in {BinaryChanged(c) : c \in {Reopened(b) : b \in {Restarted(a) : a \in M}}}}

(* One turn of ngx_master_process_cycle, as the set of its outcomes; r is     *)
(* the master once it has reaped.                                            *)
Reaped(m) == IF m.reap THEN [ReapChildren(m) EXCEPT !.unseen = FALSE] ELSE m
Acted(r) ==
    CASE ~r.live /\ (r.terminate \/ r.quit) -> {[r EXCEPT !.done = TRUE]}
      [] r.live /\ r.terminate -> {Terminating(r)}
      [] r.live /\ ~r.terminate /\ r.quit -> {Quitting(r)}
      [] ~r.terminate /\ ~r.quit /\ r.reconfigure /\ r.newBinary # 0 ->
             {BackToOldBinary([r EXCEPT !.reconfigure = FALSE])}
      [] ~r.terminate /\ ~r.quit /\ r.reconfigure /\ r.newBinary = 0 ->
             {[r EXCEPT !.reconfigure = FALSE]}                     \* a bad configuration
             \cup Rest({Reconfigured([r EXCEPT !.reconfigure = FALSE])})
      [] ~r.terminate /\ ~r.quit /\ ~r.reconfigure -> Rest({r})

-----------------------------------------------------------------------------
Master(helpers) ==
    [procs |-> <<>>, next |-> 1, newBinary |-> 0, live |-> TRUE, delay |-> 0, sigio |-> 0,
     quit |-> FALSE, terminate |-> FALSE, reconfigure |-> FALSE, reopen |-> FALSE,
     noaccept |-> FALSE, noaccepting |-> FALSE, changeBinary |-> FALSE, restart |-> FALSE,
     reap |-> FALSE, sigalrm |-> FALSE, alarm |-> FALSE, listening |-> TRUE,
     tell |-> {}, unseen |-> FALSE, done |-> FALSE, helpers |-> helpers]

MInit ==
    /\ \E c \in MCases : mt = StartProcesses(Master(c[1]), FALSE) /\ msigs = c[2]
    /\ kid = [p \in MPids |-> [st |-> "run", told |-> {}]]
    /\ msent = {}
    /\ mdied = 0

Spawned == 1..(mt.next - 1)
Alive(p) == kid[p].st \in {"run", "quitting"}

(* The master wakes up with every signal that is pending. *)
MasterTurn ==
    /\ ~mt.done /\ msent # {}
    /\ \E d \in {Delivered(mt, msent)} : \E r \in {Reaped(d)} : \E m \in Acted(r) :
          /\ mt' = SetTimer([m EXCEPT !.tell = {}])
          /\ kid' = [p \in MPids |->
                        [kid[p] EXCEPT !.told = @ \cup {t[2] : t \in {x \in m.tell : x[1] = p}}]]
    /\ msent' = {}
    /\ UNCHANGED <<msigs, mdied>>

Administrator ==
    /\ ~mt.done /\ msigs > 0
    /\ \E s \in MSignals : msent' = msent \cup {s}
    /\ msigs' = msigs - 1
    /\ UNCHANGED <<mt, kid, mdied>>

AlarmFires ==
    /\ ~mt.done /\ mt.alarm
    /\ mt' = [mt EXCEPT !.alarm = FALSE]
    /\ msent' = msent \cup {"ALRM"}
    /\ UNCHANGED <<kid, msigs, mdied>>

Dies(p, how) ==
    /\ kid' = [kid EXCEPT ![p] = [st |-> how, told |-> {}]]
    /\ msent' = msent \cup {"CHLD"}
    /\ UNCHANGED <<mt, msigs>>

(* A child that is told to terminate may be stuck; one that is killed is not. *)
ChildKilled(p)     == Alive(p) /\ "KILL" \in kid[p].told /\ Dies(p, "dead") /\ UNCHANGED mdied
ChildTerminates(p) == Alive(p) /\ "TERM" \in kid[p].told /\ Dies(p, "dead") /\ UNCHANGED mdied
(* ngx_worker_process_cycle: ngx_quit closes the listening sockets, and the   *)
(* worker exits when its last connection is done.                             *)
ChildQuits(p) ==
    /\ kid[p].st = "run" /\ "QUIT" \in kid[p].told
    /\ kid' = [kid EXCEPT ![p].st = "quitting"]
    /\ UNCHANGED <<mt, msent, msigs, mdied>>
ChildDone(p)  == kid[p].st = "quitting" /\ Dies(p, "dead") /\ UNCHANGED mdied
ChildReopens(p) ==
    /\ Alive(p) /\ "REOPEN" \in kid[p].told
    /\ kid' = [kid EXCEPT ![p].told = @ \ {"REOPEN"}]
    /\ UNCHANGED <<mt, msent, msigs, mdied>>
ChildCrashes(p) ==
    /\ Alive(p) /\ mdied < MMaxCrashes
    /\ \E how \in {"dead", "fatal"} : Dies(p, how)
    /\ mdied' = mdied + 1

MNext ==
    \/ MasterTurn \/ Administrator \/ AlarmFires
    \/ \E p \in Spawned :
          \/ ChildKilled(p) \/ ChildTerminates(p) \/ ChildQuits(p) \/ ChildDone(p)
          \/ ChildReopens(p) \/ ChildCrashes(p)

(* The kernel delivers signals and timers, and SIGKILL works; a worker that   *)
(* shuts down gracefully runs out of connections.                             *)
ChildObeys(p) == p \in Spawned /\ (ChildKilled(p) \/ ChildQuits(p) \/ ChildDone(p))
MFairness == WF_mvars(MasterTurn) /\ WF_mvars(AlarmFires) /\ \A p \in MPids : WF_mvars(ChildObeys(p))

-----------------------------------------------------------------------------
(* The processes of the master's own that are running. *)
Children == {p \in Spawned : /\ Alive(p)
                             /\ \A i \in 1..Len(mt.procs) :
                                   mt.procs[i].pid = p => ~mt.procs[i].detached}

(* Reconfiguration, the change of the binary and the way back never leave the *)
(* site without a process that serves it: workers are told to quit only once  *)
(* others run that are not told.  Crashes and failed forks are set aside.     *)
SomebodyServes ==
    mdied = 0 /\ mt.next <= MMaxPid /\ ~mt.terminate /\ ~mt.quit /\ ~mt.noaccepting =>
        \E p \in Children : kid[p].st = "run" /\ "QUIT" \notin kid[p].told

(* The master leaves nobody behind: it exits when its last child is gone.     *)
(* The exception is the return to the old binary: SIGHUP with a new binary    *)
(* running starts workers without setting "live", so a SIGQUIT that comes     *)
(* before the next SIGCHLD still sees the "live" of the workers before.       *)
LeavesNobody == mt.done /\ ~mt.unseen => Children = {}

(* Whatever state the children are in, a master told to terminate or to quit  *)
(* does exit in the end: children that do not answer are killed.              *)
MasterStops == [](mt.terminate \/ mt.quit => <>mt.done)
=============================================================================
