------------------------------ MODULE NgxEvents -----------------------------
(***************************************************************************)
(* The event methods: epoll, poll, select (also that of Windows), /dev/poll,*)
(* kqueue and event ports (src/event/modules).  Each keeps its own book of  *)
(* what the kernel has been, or is still to be, told: a list with indices,  *)
(* descriptor sets, a list of changes.  Connections open, close and take    *)
(* over descriptor numbers; ngx_handle_read_event and                       *)
(* ngx_handle_write_event add and delete their events.                      *)
(***************************************************************************)
EXTENDS Integers, FiniteSets, SequencesExt

CONSTANTS
    EMethods,       \* the event methods
    EConns,         \* connections
    EListener,      \* the one that listens
    EFds,           \* descriptor numbers
    EMaxChanges,    \* max_changes: changes that may be pending
    ESetSize        \* FD_SETSIZE of Windows: descriptors in a set

Dirs == {"r", "w"}
Other(d) == IF d = "r" THEN "w" ELSE "r"
NoFd == -1
NoIndex == 0

VARIABLES
    em,         \* the event method
    es          \* its state, and the events of the connections

evvars == <<em, es>>

NoEvent == [active |-> FALSE, ready |-> FALSE, index |-> NoIndex,
            oneshot |-> FALSE, disabled |-> FALSE]

EInit ==
    /\ em \in EMethods
    /\ es = [fd |-> [c \in EConns |-> NoFd],
             files |-> [f \in EFds |-> CHOOSE c \in EConns : TRUE],     \* cycle->files
             ev |-> [c \in EConns |-> [d \in Dirs |-> NoEvent]],
             list |-> <<>>,         \* event_list, event_index or change_list
             kern |-> [f \in EFds |-> {}],          \* what the kernel watches
             max |-> NoFd,          \* max_fd of select
             count |-> [d \in Dirs |-> 0],          \* max_read, max_write of Windows
             turn |-> FALSE]        \* the accept mutex was tried in this turn

-----------------------------------------------------------------------------
(* poll: one entry for both events of a descriptor; an entry that goes makes  *)
(* room for the last one, whose events must learn of it.                      *)
PollAdd(s, c, d) ==
    LET e == s.ev[c][d]  o == s.ev[c][Other(d)]
    IN IF e.index # NoIndex THEN [s EXCEPT !.ev[c][d].active = TRUE]
       ELSE IF o.index = NoIndex
       THEN [s EXCEPT !.list = Append(@, [fd |-> s.fd[c], events |-> {d}]),
                      !.ev[c][d].active = TRUE, !.ev[c][d].index = Len(s.list) + 1]
       ELSE [s EXCEPT !.list[o.index].events = @ \cup {d},
                      !.ev[c][d].active = TRUE, !.ev[c][d].index = o.index]

FaultMoved(s, last, to) ==
    LET c == s.files[s.list[last].fd]
    IN [s.ev EXCEPT ![c]["r"].index = IF @ = last THEN to ELSE @]
Moved(s, last, to) ==
    LET c == s.files[s.list[last].fd]
    IN [s.ev EXCEPT ![c] = [d \in Dirs |-> [s.ev[c][d] EXCEPT !.index = IF @ = last THEN to ELSE @]]]

PollDel(s, c, d) ==
    LET i == s.ev[c][d].index
        n == Len(s.list)
        gone == [s EXCEPT !.ev[c][d].active = FALSE, !.ev[c][d].index = NoIndex]
    IN IF i = NoIndex THEN gone
       ELSE IF s.ev[c][Other(d)].index # NoIndex
       THEN [gone EXCEPT !.list[i].events = @ \ {d}]
       ELSE IF i < n
       THEN [gone EXCEPT !.list = SubSeq([s.list EXCEPT ![i] = s.list[n]], 1, n - 1),
                         !.ev = Moved(gone, n, i)]
       ELSE [gone EXCEPT !.list = SubSeq(@, 1, n - 1)]

(* select: descriptor sets, a list of the events, and the highest descriptor  *)
(* or -1, to be found again.                                                  *)
SelectAdd(s, c, d) ==
    IF s.ev[c][d].index # NoIndex THEN s
    ELSE [s EXCEPT !.kern[s.fd[c]] = @ \cup {d},
                   !.max = IF @ # NoFd /\ @ < s.fd[c] THEN s.fd[c] ELSE @,
                   !.list = Append(@, <<c, d>>),
                   !.ev[c][d].active = TRUE, !.ev[c][d].index = Len(s.list) + 1]
Unlisted(s, c, d) ==
    LET i == s.ev[c][d].index
        n == Len(s.list)
        moved == [s EXCEPT !.list = SubSeq([s.list EXCEPT ![i] = s.list[n]], 1, n - 1),
                           !.ev[s.list[n][1]][s.list[n][2]].index = i]
    IN [moved EXCEPT !.kern[s.fd[c]] = @ \ {d},
                     !.ev[c][d].active = FALSE, !.ev[c][d].index = NoIndex]
SelectDel(s, c, d) ==
    IF s.ev[c][d].index = NoIndex THEN [s EXCEPT !.ev[c][d].active = FALSE]
    ELSE [Unlisted(s, c, d) EXCEPT !.max = IF @ = s.fd[c] THEN NoFd ELSE @]

(* select of Windows: the sets are arrays of ESetSize sockets; it must not be *)
(* called with two empty sets.                                                *)
WinAdd(s, c, d) ==
    IF s.ev[c][d].index # NoIndex \/ s.count[d] >= ESetSize THEN s
    ELSE [s EXCEPT !.kern[s.fd[c]] = @ \cup {d}, !.count[d] = @ + 1,
                   !.list = Append(@, <<c, d>>),
                   !.ev[c][d].active = TRUE, !.ev[c][d].index = Len(s.list) + 1]
WinDel(s, c, d) ==
    IF s.ev[c][d].index = NoIndex THEN [s EXCEPT !.ev[c][d].active = FALSE]
    ELSE [Unlisted(s, c, d) EXCEPT !.count[d] = @ - 1]

(* epoll: one registration for both events, replaced as a whole.  EPOLL_CTL_ADD *)
(* fails where there is one, EPOLL_CTL_MOD and EPOLL_CTL_DEL where there is     *)
(* none.  Closing the descriptor removes it.                                    *)
EpollCtl(s, c, mod, ds) ==
    IF mod # (s.kern[s.fd[c]] # {}) THEN {} ELSE {[s EXCEPT !.kern[s.fd[c]] = ds]}
Epolled(S, s, c, d, on) ==
    IF S = {} THEN s ELSE [(CHOOSE x \in S : TRUE) EXCEPT !.ev[c][d].active = on]
FaultEpollAdd(s, c, d) ==
    Epolled(EpollCtl(s, c, s.ev[c][Other(d)].active, {d}), s, c, d, TRUE)
EpollAdd(s, c, d) ==
    LET both == s.ev[c][Other(d)].active
    IN Epolled(EpollCtl(s, c, both, IF both THEN Dirs ELSE {d}), s, c, d, TRUE)
EpollDel(s, c, d, close) ==
    IF close THEN [s EXCEPT !.ev[c][d].active = FALSE]
    ELSE Epolled(EpollCtl(s, c, TRUE, IF s.ev[c][Other(d)].active THEN {Other(d)} ELSE {}),
                s, c, d, FALSE)
EpollAddConnection(s, c) ==
    IF s.kern[s.fd[c]] # {} THEN s
    ELSE [s EXCEPT !.kern[s.fd[c]] = Dirs, !.ev[c]["r"].active = TRUE, !.ev[c]["w"].active = TRUE]
EpollDelConnection(s, c) ==            \* with NGX_CLOSE_EVENT
    [s EXCEPT !.ev[c]["r"].active = FALSE, !.ev[c]["w"].active = FALSE]

(* /dev/poll: changes are written in batches; a removal is of both events,    *)
(* so that the other one is added again, and before a close it is written at  *)
(* once.                                                                      *)
DevpollWritten(kern, list) ==
    FoldLeft(LAMBDA k, ch : [k EXCEPT ![ch.fd] = IF ch.ev = "remove" THEN {} ELSE @ \cup {ch.ev}],
             kern, list)
DevpollFlush(s) == [s EXCEPT !.kern = DevpollWritten(s.kern, s.list), !.list = <<>>]
DevpollSet(s, c, what, flush) ==
    LET room == IF Len(s.list) >= EMaxChanges THEN DevpollFlush(s) ELSE s
        set  == [room EXCEPT !.list = Append(@, [fd |-> s.fd[c], ev |-> what])]
    IN IF flush THEN DevpollFlush(set) ELSE set
DevpollAdd(s, c, d) == DevpollSet([s EXCEPT !.ev[c][d].active = TRUE], c, d, FALSE)
FaultRestored(s, c, d) == s
Restored(s, c, d) == IF s.ev[c][d].active THEN DevpollSet(s, c, d, FALSE) ELSE s
DevpollDel(s, c, d, close) ==
    LET removed == [DevpollSet(s, c, "remove", close) EXCEPT !.ev[c][d].active = FALSE]
    IN IF close THEN [removed EXCEPT !.ev[c][Other(d)].active = FALSE]
       ELSE Restored(removed, c, Other(d))

(* kqueue: a change that is still in the list is taken back instead of being  *)
(* undone.                                                                    *)
KqueueApplied(kern, list) ==
    FoldLeft(LAMBDA k, ch : [k EXCEPT ![ch.fd] = IF ch.add THEN @ \cup {ch.d} ELSE @ \ {ch.d}],
             kern, list)
KqueueFlush(s) == [s EXCEPT !.kern = KqueueApplied(s.kern, s.list), !.list = <<>>]
KqueueSet(s, c, d, add) ==
    LET room == IF Len(s.list) >= EMaxChanges THEN KqueueFlush(s) ELSE s
    IN [room EXCEPT !.list = Append(@, [c |-> c, d |-> d, fd |-> s.fd[c], add |-> add]),
                    !.ev[c][d].index = Len(room.list) + 1]
KqueueAdd(s, c, d) ==
    KqueueSet([s EXCEPT !.ev[c][d].active = TRUE, !.ev[c][d].disabled = FALSE], c, d, TRUE)
KqueuePending(s, c, d) ==
    LET i == s.ev[c][d].index
    IN i \in 1..Len(s.list) /\ s.list[i].c = c /\ s.list[i].d = d
KqueueTaken(s, i) ==
    LET n == Len(s.list)
        moved == [s EXCEPT !.list = SubSeq([s.list EXCEPT ![i] = s.list[n]], 1, n - 1)]
    IN IF i < n THEN [moved EXCEPT !.ev[s.list[n].c][s.list[n].d].index = i] ELSE moved
KqueueDel(s, c, d, flag) ==
    LET off == [s EXCEPT !.ev[c][d].active = FALSE, !.ev[c][d].disabled = FALSE]
    IN IF KqueuePending(s, c, d) THEN KqueueTaken(off, s.ev[c][d].index)
       ELSE IF flag = "close" THEN off
       ELSE KqueueSet([off EXCEPT !.ev[c][d].disabled = (flag = "disable")], c, d, FALSE)

(* Event ports: an association is replaced as a whole and ends when it is     *)
(* reported; "oneshot" outlives it.                                           *)
PortAdd(s, c, d) ==
    [s EXCEPT !.kern[s.fd[c]] = {d} \cup (IF s.ev[c][Other(d)].oneshot THEN {Other(d)} ELSE {}),
              !.ev[c][d].active = TRUE, !.ev[c][d].oneshot = TRUE]
PortDel(s, c, d, close) ==
    LET off == [s EXCEPT !.ev[c][d].active = FALSE, !.ev[c][d].oneshot = FALSE]
    IN IF close THEN off
       ELSE IF s.ev[c][Other(d)].oneshot THEN [off EXCEPT !.kern[s.fd[c]] = {Other(d)}]
       ELSE IF s.kern[s.fd[c]] # {} THEN [off EXCEPT !.kern[s.fd[c]] = {}]
       ELSE s                                       \* port_dissociate fails

-----------------------------------------------------------------------------
(* ngx_add_event and ngx_del_event *)
AddEvent(s, c, d) ==
    CASE em = "poll" -> PollAdd(s, c, d)
      [] em = "select" -> SelectAdd(s, c, d)
      [] em = "win32" -> WinAdd(s, c, d)
      [] em = "epoll" -> EpollAdd(s, c, d)
      [] em = "devpoll" -> DevpollAdd(s, c, d)
      [] em = "kqueue" -> KqueueAdd(s, c, d)
      [] em = "eventport" -> PortAdd(s, c, d)
DelEvent(s, c, d, flag) ==
    CASE em = "poll" -> PollDel(s, c, d)
      [] em = "select" -> SelectDel(s, c, d)
      [] em = "win32" -> WinDel(s, c, d)
      [] em = "epoll" -> EpollDel(s, c, d, flag = "close")
      [] em = "devpoll" -> DevpollDel(s, c, d, flag = "close")
      [] em = "kqueue" -> KqueueDel(s, c, d, flag)
      [] em = "eventport" -> PortDel(s, c, d, flag = "close")

(* A connection is accepted, or made: then with ngx_add_conn, where there is one. *)
Open(c, f) ==
    /\ es.fd[c] = NoFd /\ \A x \in EConns : es.fd[x] # f
    /\ \E s \in {[es EXCEPT !.fd[c] = f, !.files[f] = c,
                             !.ev[c] = [d \in Dirs |-> NoEvent]]} :
          es' \in {s} \cup IF em = "epoll" /\ c # EListener
                            THEN {EpollAddConnection(s, c)} ELSE {}

(* ngx_close_connection; the kernel forgets what it watched, but for select,  *)
(* which is told on every call.                                               *)
Unwatched(s, c) ==
    LET off(x, d) == IF x.ev[c][d].active \/ x.ev[c][d].disabled
                     THEN DelEvent(x, c, d, "close") ELSE x
    IN IF em = "epoll" THEN {EpollDelConnection(s, c)} ELSE {off(x, "w") : x \in {off(s, "r")}}
CloseConnection(c) ==
    /\ es.fd[c] # NoFd
    /\ \E s \in Unwatched(es, c) :
          es' = [s EXCEPT !.fd[c] = NoFd,
                          !.kern[es.fd[c]] = IF em \in {"select", "win32"} THEN @ ELSE {}]

(* ngx_handle_read_event and ngx_handle_write_event *)
HandleReadEvent(c) ==
    LET e == es.ev[c]["r"]
    IN /\ es.fd[c] # NoFd /\ c # EListener
       /\ \/ ~e.active /\ ~e.ready /\ es' = AddEvent(es, c, "r")
          \/ /\ em \in {"poll", "select", "win32", "devpoll"} /\ e.active /\ e.ready
             /\ es' = DelEvent(es, c, "r", "level")
          \/ /\ em = "eventport" /\ (e.active \/ e.ready) /\ e.oneshot /\ ~e.ready
             /\ es' = DelEvent(es, c, "r", "level")
HandleWriteEvent(c) ==
    LET e == es.ev[c]["w"]
    IN /\ es.fd[c] # NoFd /\ c # EListener
       /\ \/ ~e.active /\ ~e.ready /\ es' = AddEvent(es, c, "w")
          \/ /\ em \in {"poll", "select", "win32", "devpoll"} /\ e.active /\ e.ready
             /\ es' = DelEvent(es, c, "w", "level")
          \/ /\ em = "eventport" /\ e.oneshot /\ e.ready
             /\ es' = DelEvent(es, c, "w", "level")

(* recv() or send() found no more. *)
Exhausted(c, d) ==
    /\ es.fd[c] # NoFd /\ es.ev[c][d].ready
    /\ es' = [es EXCEPT !.ev[c][d].ready = FALSE]

(* ngx_disable_accept_events and ngx_enable_accept_events, once in a turn:    *)
(* kqueue disables the event.                                                 *)
AcceptEvents ==
    /\ es.fd[EListener] # NoFd /\ ~es.turn
    /\ \E s \in {IF es.ev[EListener]["r"].active THEN DelEvent(es, EListener, "r", "disable")
                 ELSE AddEvent(es, EListener, "r")} :
          es' = [s EXCEPT !.turn = TRUE]

(* ngx_*_process_events: the pending changes reach the kernel, and it reports *)
(* one descriptor, or nothing.                                                *)
Told(s) ==
    [(CASE em = "devpoll" -> DevpollFlush(s)
        [] em = "kqueue" -> KqueueFlush(s)
        [] em = "select" /\ s.max = NoFd ->
              [s EXCEPT !.max = IF s.list = <<>> THEN NoFd
                                ELSE CHOOSE f \in EFds :
                                        /\ \E i \in 1..Len(s.list) : s.fd[s.list[i][1]] = f
                                        /\ \A i \in 1..Len(s.list) : s.fd[s.list[i][1]] <= f]
        [] OTHER -> s) EXCEPT !.turn = FALSE]
Watched(s, f) ==
    IF em = "poll" THEN UNION {s.list[i].events : i \in {j \in 1..Len(s.list) : s.list[j].fd = f}}
    ELSE s.kern[f]
PollReported(s, c, ds) ==
    [s EXCEPT !.ev[c] = [d \in Dirs |-> [s.ev[c][d] EXCEPT !.ready = @ \/ d \in ds]]]
DevpollReported(s, c, ds) ==
    [s EXCEPT !.ev[c] = [d \in Dirs |->
        [s.ev[c][d] EXCEPT !.ready = @ \/ (d \in ds /\ s.ev[c][d].active)]]]
PortReported(s, c, ds) ==
    [PollReported(s, c, ds) EXCEPT !.kern[s.fd[c]] = {},
                                   !.ev[c]["r"].active = FALSE, !.ev[c]["w"].active = FALSE]
Reported(s, c, ds) ==
    CASE em \in {"poll", "select", "win32", "kqueue"} -> PollReported(s, c, ds)
      [] em \in {"devpoll", "epoll"} -> DevpollReported(s, c, ds)
      [] em = "eventport" -> PortReported(s, c, ds)
ProcessEvents ==
    \E s \in {Told(es)} :
        \/ es' = s
        \/ \E c \in EConns : \E ds \in (SUBSET Dirs) \ {{}} :
              /\ s.fd[c] # NoFd /\ Watched(s, s.fd[c]) # {}
              /\ ds \subseteq Watched(s, s.fd[c]) \/ (ds = Dirs /\ em \notin {"select", "win32", "kqueue"})
              /\ es' = Reported(s, c, ds)

ENext ==
    /\ \/ \E c \in EConns : \/ \E f \in EFds : Open(c, f)
                            \/ CloseConnection(c) \/ HandleReadEvent(c) \/ HandleWriteEvent(c)
                            \/ \E d \in Dirs : Exhausted(c, d)
       \/ AcceptEvents
       \/ ProcessEvents
    /\ UNCHANGED em

-----------------------------------------------------------------------------
(* What the kernel watches once the pending changes have reached it is what   *)
(* the events say: no connection waits for an event that nobody watches, and  *)
(* no number is watched for a connection that is gone, whatever was opened,   *)
(* closed and renumbered in between.  (An event port may watch more.)  The    *)
(* indices of poll and select lead to the event's own entry, max_fd covers    *)
(* every descriptor that is watched, and the counts of Windows are those of   *)
(* its sets.                                                                  *)
WatchesMatch ==
    LET s == Told(es)
        open == {c \in EConns : es.fd[c] # NoFd}
        active(c) == {d \in Dirs : es.ev[c][d].active}
    IN /\ \A c \in open : IF em = "eventport" THEN active(c) \subseteq Watched(s, es.fd[c])
                          ELSE active(c) = Watched(s, es.fd[c])
       /\ \A f \in EFds : Watched(s, f) # {} => \E c \in open : es.fd[c] = f
       /\ em = "poll" => \A c \in open, d \in Dirs : es.ev[c][d].active =>
              LET i == es.ev[c][d].index
              IN i \in 1..Len(es.list) /\ es.list[i].fd = es.fd[c] /\ d \in es.list[i].events
       /\ em \in {"select", "win32"} => \A c \in open, d \in Dirs : es.ev[c][d].active =>
              es.ev[c][d].index \in 1..Len(es.list) /\ es.list[es.ev[c][d].index] = <<c, d>>
       /\ em = "select" => \A f \in EFds : s.kern[f] # {} => f <= s.max
       /\ em = "win32" => \A d \in Dirs :
              es.count[d] <= ESetSize /\ es.count[d] = Cardinality({f \in EFds : d \in es.kern[f]})
=============================================================================
