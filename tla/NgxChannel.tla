----------------------------- MODULE NgxChannel -----------------------------
(***************************************************************************)
(* The channels between the master and its workers (ngx_channel.c, with      *)
(* ngx_spawn_process, ngx_reap_children, ngx_signal_worker_processes and      *)
(* ngx_channel_handler).  The master tells every worker which channels are    *)
(* opened and closed; each keeps a copy of the process table.  A channel is   *)
(* named by the pid it leads to, a descriptor of the master by its number,    *)
(* because the code can keep a number it has closed.                          *)
(***************************************************************************)
EXTENDS Integers, Sequences, FiniteSets, SequencesExt

CONSTANTS
    ClSlots,        \* entries of ngx_processes[] in use: 1..ClSlots
    ClMaxPid,       \* bound: processes ever forked
    ClQueue,        \* messages that fit into a channel
    ClMaxFaults     \* bound: calls of the system that fail

VARIABLE cl
clvars == cl

Slots == 1..ClSlots
Pids == 1..ClMaxPid

(* An ngx_process_t; pid 0 and chan 0 stand for -1. *)
NoProc == [pid |-> 0, chan |-> 0, exited |-> FALSE, exiting |-> FALSE,
            respawn |-> FALSE, just |-> FALSE]
(* A worker: its own slot, its copy of the table, the channels it holds a     *)
(* descriptor of, ngx_quit.                                                   *)
NoProcess == [state |-> "none", slot |-> 0, table |-> [s \in Slots |-> 0],
              held |-> [q \in Pids |-> 0], quit |-> FALSE]

ClInit ==
    cl = [tab |-> [s \in Slots |-> NoProc],
          fds |-> [k \in Slots |-> 0],          \* the channel a master's descriptor leads to
          procs |-> [p \in Pids |-> NoProcess],
          box |-> [p \in Pids |-> <<>>],        \* what a worker has not read yet
          forked |-> 0,                         \* pids given so far
          slot |-> 0,                           \* ngx_process_slot
          at |-> 0,                             \* the entry ngx_reap_children is at
          reap |-> FALSE, quit |-> FALSE,       \* ngx_reap, ngx_quit
          cmd |-> "close", fd |-> 0,            \* ch of ngx_reap_children
          faults |-> 0,                         \* calls that failed so far
          missed |-> {},                        \* workers a message could not be written to
          astray |-> FALSE,                     \* an open was passed that opens nothing new
          torn |-> FALSE]                       \* two entries have the same descriptors

-----------------------------------------------------------------------------
(* ngx_write_channel to each entry of S: a channel that is full (EAGAIN)      *)
(* drops the message, a closed descriptor of either side fails; what is        *)
(* written to a process that has ended is read by nobody.                      *)
Lives(st, q) == st.procs[q].state \in {"run", "deaf"}
Reaches(st, s) == IF st.tab[s].chan = 0 THEN 0 ELSE st.fds[st.tab[s].chan]
Copies(st, S, q) == IF ~Lives(st, q) THEN 0 ELSE Cardinality({s \in S : Reaches(st, s) = q})
Taken(st, S, q) ==
    IF Copies(st, S, q) > ClQueue - Len(st.box[q]) THEN ClQueue - Len(st.box[q])
    ELSE Copies(st, S, q)
Write(st, m, S) ==
    IF m.cmd = "open" /\ m.fd = 0 THEN st
    ELSE [st EXCEPT !.box = [q \in Pids |-> @[q] \o [i \in 1..Taken(st, S, q) |-> m]],
                    !.missed = @ \cup {q \in Pids : Copies(st, S, q) > Taken(st, S, q)}]

(* ngx_pass_open_channel, about the entry ngx_process_slot. *)
OpenMsg(st) == [cmd |-> "open", slot |-> st.slot, fd |-> Reaches(st, st.slot)]
PassOpen(st) ==
    Write(st, OpenMsg(st), {s \in Slots : s # st.slot /\ st.tab[s].pid # 0 /\ st.tab[s].chan # 0})

(* ngx_close_channel. *)
CloseChannel(st, s) ==
    LET k == st.tab[s].chan IN
    IF k = 0 THEN st
    ELSE [st EXCEPT !.fds[k] = 0]

(* ngx_worker_process_init: the child closes the reading ends of the others   *)
(* and its own writing end.  When an entry whose channel is closed has the     *)
(* number of the new channel, it closes its own and ends with code 2.         *)
Aliased(st, s, k) == \E t \in Slots \ {s} : st.tab[t].pid # 0 /\ st.tab[t].chan = k
Child(st, s, k) ==
    [state |-> "run",
     slot |-> s,
     table |-> [t \in Slots |-> IF t = s \/ st.tab[t].pid = 0 THEN 0 ELSE Reaches(st, t)],
     held |-> [q \in Pids |-> Cardinality({n \in Slots \ {k} : st.fds[n] = q})],
     quit |-> FALSE]

(* ngx_spawn_process: the lowest free descriptors, then fork. *)
FreeFds(st) == {k \in Slots : st.fds[k] = 0}
LowestFd(st) == CHOOSE k \in FreeFds(st) : \A n \in FreeFds(st) : k <= n
ForkedChild(st, s, k, p) ==
    [st EXCEPT !.tab[s].pid = p, !.tab[s].chan = k, !.tab[s].exited = FALSE,
               !.fds[k] = p, !.procs[p] = IF Aliased(st, s, k) THEN [NoProcess EXCEPT !.state = "fatal"]
                                          ELSE Child(st, s, k),
               !.forked = p, !.slot = s,
               !.torn = @ \/ Aliased(st, s, k)]
SpawnProcess(st, s) ==
    IF FreeFds(st) # {} /\ st.forked < ClMaxPid
    THEN {ForkedChild(st, s, LowestFd(st), st.forked + 1)} ELSE {}

(* A failed fork leaves the numbers of the closed channel in the entry. *)
ForkFails(st, s) ==
    IF st.faults < ClMaxFaults /\ FreeFds(st) # {}
    THEN {[st EXCEPT !.tab[s].chan = LowestFd(st), !.slot = s, !.faults = @ + 1]} ELSE {}
SocketpairFails(st) ==
    IF st.faults < ClMaxFaults THEN {[st EXCEPT !.faults = @ + 1]} ELSE {}

(* ngx_start_worker_processes, for one worker: what ngx_spawn_process returns *)
(* is not looked at, and the open is passed whatever ngx_process_slot is.     *)
KeepRespawn(st, s, just) == [st EXCEPT !.tab[s].exiting = FALSE, !.tab[s].respawn = TRUE, !.tab[s].just = just]
FreeSlots(st) == {s \in Slots : st.tab[s].pid = 0}
StartWorker(st, just) ==
    UNION {{PassOpen(KeepRespawn(t, s, just)) : t \in SpawnProcess(st, s)}
             \cup {PassOpen(t) : t \in ForkFails(st, s)}
             \cup {IF t.slot = 0 THEN t ELSE [PassOpen(t) EXCEPT !.astray = TRUE]
                     : t \in SocketpairFails(st)}
             : s \in {x \in FreeSlots(st) : \A y \in FreeSlots(st) : x <= y}}

-----------------------------------------------------------------------------
(* ngx_signal_worker_processes with NGX_SHUTDOWN_SIGNAL: through the channel, *)
(* and by kill when the channel does not take it.                             *)
Killed(st, s) ==
    IF st.tab[s].exited
    THEN [st EXCEPT !.tab[s].exiting = FALSE, !.reap = TRUE]        \* ESRCH
    ELSE [st EXCEPT !.procs[st.tab[s].pid].quit = Lives(st, st.tab[s].pid),
                    !.tab[s].exiting = TRUE]
FaultToldQuit(st, s) ==
    IF st.tab[s].just THEN [st EXCEPT !.tab[s].just = st.tab[s].pid = 0]
    ELSE IF st.tab[s].pid = 0 \/ st.tab[s].exiting THEN st
    ELSE [Write(st, [cmd |-> "quit", slot |-> s, fd |-> 0], {s}) EXCEPT !.tab[s].exiting = TRUE]
ToldQuit(st, s) ==
    IF st.tab[s].just THEN [st EXCEPT !.tab[s].just = st.tab[s].pid = 0]
    ELSE IF st.tab[s].pid = 0 \/ st.tab[s].exiting THEN st
    ELSE IF Reaches(st, s) # 0 /\ Len(st.box[Reaches(st, s)]) < ClQueue
    THEN [Write(st, [cmd |-> "quit", slot |-> s, fd |-> 0], {s}) EXCEPT !.tab[s].exiting = TRUE]
    ELSE Killed(st, s)
TellAll(st) == FoldLeft(ToldQuit, st, [s \in Slots |-> s])

(* The turns of ngx_master_process_cycle: the start, SIGHUP and SIGQUIT. *)
Resting == cl.at = 0 /\ ~cl.quit
StartWorkers == Resting /\ cl' \in StartWorker(cl, FALSE) /\ \A s \in Slots : ~cl.tab[s].exiting
Reconfigure == Resting /\ cl.forked > 0 /\ cl' \in {TellAll(st) : st \in StartWorker(cl, TRUE)}
QuitAll == Resting /\ cl.forked > 0 /\ cl' = TellAll([cl EXCEPT !.quit = TRUE])

(* SIGCHLD: ngx_process_get_status waits for every child that ended, and      *)
(* ngx_reap_children is called.                                               *)
EndedPids == {p \in Pids : cl.procs[p].state \in {"gone", "fatal"}}
Statuses ==
    /\ cl.at = 0 /\ (EndedPids # {} \/ cl.reap)
    /\ cl' = [cl EXCEPT
                !.tab = [s \in Slots |->
                    IF @[s].pid \in EndedPids
                    THEN [@[s] EXCEPT !.exited = TRUE,
                                      !.respawn = @ /\ cl.procs[cl.tab[s].pid].state = "gone"]
                    ELSE @[s]],
                !.procs = [p \in Pids |-> IF p \in EndedPids THEN NoProcess ELSE @[p]],
                !.at = 1, !.reap = FALSE]

(* ngx_reap_children, one entry.  The command is set to open when a process   *)
(* was started again, and stays so for the entries that follow.               *)
CloseMsg(st, s) ==
    [cmd |-> st.cmd, slot |-> s, fd |-> IF st.fd = 0 THEN 0 ELSE st.fds[st.fd]]
ClosedFor(st, s) ==
    LET closed == [CloseChannel(st, s) EXCEPT !.tab[s].chan = 0] IN
    [Write(closed, CloseMsg(closed, s),
           {n \in Slots : closed.tab[n].pid # 0 /\ ~closed.tab[n].exited /\ closed.tab[n].chan # 0})
        EXCEPT !.astray = @ \/ st.cmd = "open"]
StartedAgain(st, s) ==
    {[PassOpen(t) EXCEPT !.cmd = "open", !.fd = t.tab[s].chan] : t \in SpawnProcess(st, s)}
        \cup ForkFails(st, s) \cup SocketpairFails(st)
ReapSlot(st, s) ==
    IF st.tab[s].pid = 0 \/ ~st.tab[s].exited THEN {st}
    ELSE IF st.tab[s].respawn /\ ~st.tab[s].exiting /\ ~st.quit THEN StartedAgain(ClosedFor(st, s), s)
    ELSE {[ClosedFor(st, s) EXCEPT !.tab[s].pid = 0]}
ReapChild ==
    /\ cl.at # 0
    /\ cl' \in {IF cl.at = ClSlots THEN [st EXCEPT !.at = 0, !.cmd = "close", !.fd = 0]
                ELSE [st EXCEPT !.at = cl.at + 1] : st \in ReapSlot(cl, cl.at)}

-----------------------------------------------------------------------------
(* ngx_channel_handler.  A worker with no descriptor left cannot receive a     *)
(* channel: ngx_read_channel fails and the worker closes its own.             *)
FaultOpenChannel(pr, m) == [pr EXCEPT !.table[m.slot] = m.fd]
OpenChannel(pr, m) == [pr EXCEPT !.table[m.slot] = m.fd, !.held[m.fd] = @ + 1]
Shut(pr, m) ==
    IF pr.table[m.slot] = 0 THEN pr
    ELSE [pr EXCEPT !.table[m.slot] = 0, !.held[pr.table[m.slot]] = IF @ > 0 THEN @ - 1 ELSE 0]
Obeyed(pr, m) ==
    CASE m.cmd = "open" -> OpenChannel(pr, m)
      [] m.cmd = "close" -> Shut(pr, m)
      [] m.cmd = "quit" -> [pr EXCEPT !.quit = TRUE]
ReadChannel(p) ==
    /\ cl.procs[p].state = "run" /\ cl.box[p] # <<>>
    /\ \/ cl' = [cl EXCEPT !.box[p] = Tail(@), !.procs[p] = Obeyed(@, Head(cl.box[p]))]
       \/ /\ cl.faults < ClMaxFaults /\ Head(cl.box[p]).cmd = "open"
          /\ cl' = [cl EXCEPT !.box[p] = Tail(@), !.procs[p].state = "deaf", !.faults = @ + 1]

(* A worker leaves because it was told to, or dies. *)
Leaves(p) ==
    /\ cl.procs[p].state \in {"run", "deaf"}
    /\ cl' = [cl EXCEPT !.procs[p] = [NoProcess EXCEPT !.state = "gone"],
                        !.box[p] = <<>>, !.missed = @ \ {p}]

ClNext ==
    \/ StartWorkers \/ Reconfigure \/ QuitAll \/ Statuses \/ ReapChild
    \/ \E p \in Pids : ReadChannel(p) \/ Leaves(p)

-----------------------------------------------------------------------------
(* What a worker knows when it has read everything it was sent and nothing    *)
(* was dropped: the channel of every process the master has, no other, and    *)
(* no descriptor besides.                                                     *)
UpToDate(p) ==
    /\ cl.procs[p].state = "run" /\ cl.box[p] = <<>> /\ cl.at = 0
    /\ p \notin cl.missed /\ ~cl.astray /\ ~cl.torn
TableRight(p) ==
    /\ \A s \in Slots \ {cl.procs[p].slot} :
          cl.procs[p].table[s] =
              IF cl.tab[s].pid = 0 \/ cl.tab[s].exited THEN 0 ELSE cl.tab[s].pid
    /\ \A q \in Pids :
          cl.procs[p].held[q] = Cardinality({s \in Slots : cl.procs[p].table[s] = q})

(* A process the master counts as exiting has been told: it knows, or the      *)
(* message is still to be read (unless the worker had to close its channel),  *)
(* though channels fill up, processes fail to start and slots are used again. *)
IsTold(s) ==
    LET p == cl.tab[s].pid IN
    p # 0 /\ cl.tab[s].exiting /\ cl.procs[p].state = "run" =>
        cl.procs[p].quit \/ \E i \in 1..Len(cl.box[p]) : cl.box[p][i].cmd = "quit"

(* The workers' copies of the process table follow the master's, and none     *)
(* that is to leave is left waiting for the word.                             *)
WorkersInformed ==
    /\ \A p \in Pids : UpToDate(p) => TableRight(p)
    /\ \A s \in Slots : IsTold(s)
=============================================================================
