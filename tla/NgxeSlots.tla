----------------------------- MODULE NgxeSlots ------------------------------
(***************************************************************************)
(* The connection table and everything that lives in it: listening         *)
(* sockets, accepted and client connections, and the timers of             *)
(* ngxe_timeout_set and ngxe_interval_set, which borrow a slot each.  One   *)
(* event loop serves them: epoll_wait fills a batch of events, each event   *)
(* names a slot and the instance bit it was registered with, the handlers   *)
(* run Perl callbacks, and those callbacks close and open slots while the   *)
(* rest of the batch is still waiting.                                     *)
(*                                                                         *)
(* What one connection does with its data is in NgxeConnection; here its    *)
(* handlers only decide whether to call back, and what they do to the slot  *)
(* once the callback returns.                                              *)
(***************************************************************************)
EXTENDS Integers, Sequences, SequencesExt, FiniteSets

CONSTANTS
    NSlots,         \* connection_n
    MaxBorn,        \* bound: owners in one behaviour
    MaxBatch,       \* nevents
    MaxDepth,       \* bound: callbacks inside callbacks
    MaxTakes,       \* bound: times one slot is taken between two epoll_waits
    Delays,         \* the delays timers are set with: 0 or 1 (more than 0)
    Api,            \* the calls the application makes
    Faults,         \* system calls that may fail
    Liberties       \* rules of use the application does not keep

ASSUME SlotsAssumption ==
    /\ {NSlots, MaxBorn, MaxBatch, MaxDepth, MaxTakes} \subseteq Nat \ {0}
    /\ Delays \subseteq {0, 1}

Slots == 1..NSlots
NoFd  == -1         \* closed
TimerFd == 0        \* what ngxe_timeout_set passes for a socket
SockFd == 1         \* any real socket: which one does not matter here

VARIABLES
    slot,           \* the ngx_connection_t and its two events, per slot
    free,           \* cycle->free_connections, the head first
    batch,          \* event_list, what is left of it
    phase,          \* "setup" before ngxe_loop; then "wait", "events", "timers"
    stack,          \* handlers waiting for their Perl callback to return
    born,           \* owners so far; the newest owner's number
    live,           \* handles the application still may use
    takes,          \* how often each slot was taken since epoll_wait
    lost            \* slots nobody can free any more

vars == <<slot, free, batch, phase, stack, born, live, takes, lost>>

-----------------------------------------------------------------------------
(* The slot as ngx_get_connection leaves it. *)
Blank(fd, inst, who) ==
    [fd |-> fd, inst |-> inst, destroyed |-> FALSE, rh |-> "none", wh |-> "none",
     ract |-> FALSE, wact |-> FALSE, rtimer |-> "off", wtimer |-> "off", who |-> who]

Init ==
    /\ slot = [s \in Slots |-> Blank(NoFd, 1, 0)]
    /\ free = [i \in 1..NSlots |-> i]
    /\ batch = <<>>
    /\ phase = "setup"
    /\ stack = <<>>
    /\ born = 0
    /\ live = {}
    /\ takes = [s \in Slots |-> 0]
    /\ lost = {}

Handle(g, s, kind) == [who |-> g, s |-> s, kind |-> kind]
TopFrame == stack[Len(stack)]
InCallback == stack # <<>>

(* ngx_get_connection: the head of the free list, zeroed, with the other    *)
(* instance.                                                                *)
CanGet == free # <<>> /\ born < MaxBorn /\ takes[Head(free)] < MaxTakes
Got(fd) == Blank(fd, 1 - slot[Head(free)].inst, born + 1)

(* The owner's part of the bookkeeping of a slot that is taken. *)
GetConnection(c) ==
    /\ slot' = [slot EXCEPT ![Head(free)] = c]
    /\ free' = Tail(free)
    /\ born' = born + 1
    /\ takes' = [takes EXCEPT ![Head(free)] = @ + 1]

(* ngx_free_connection: only the list changes, the slot keeps its contents. *)
Freed(s) == <<s>> \o free

(* ngx_close_connection. *)
FaultTimerLeft(c) ==
    [c EXCEPT !.fd = NoFd, !.ract = FALSE, !.wact = FALSE, !.rtimer = "off"]
Closed(c) ==
    [c EXCEPT !.fd = NoFd, !.ract = FALSE, !.wact = FALSE,
              !.rtimer = "off", !.wtimer = "off"]

(* ngxe_close on slot s: nothing if it is already destroyed. *)
Close(s) ==
    IF slot[s].destroyed
      THEN UNCHANGED <<slot, free, live>>
      ELSE /\ slot' = [slot EXCEPT ![s] = [Closed(@) EXCEPT !.destroyed = TRUE]]
           /\ free' = IF slot[s].fd = NoFd THEN free ELSE Freed(s)
           /\ live' = {h \in live : h.who # slot[s].who}

(* ngx_event_add_timer: a timer of delay 0 is due at once. *)
Armed(delay) == IF delay = 0 THEN "due" ELSE "set"

-----------------------------------------------------------------------------
(* The rules of use.  An application that keeps them takes no slot while a  *)
(* handler waits for a callback that closed its connection, closes no       *)
(* server inside that server's own callback, does nothing to a connection   *)
(* whose error it is being told of, and clears no timeout that has fired.   *)
MayTake ==
    \/ "take after close" \in Liberties
    \/ \A i \in 1..Len(stack) : stack[i].who \in {0} \cup {h.who : h \in live}

MayClose(h) ==
    \A i \in 1..Len(stack) :
        stack[i].who = h.who => ~stack[i].error /\ h.kind # "server"

MayClear(h) == slot[h.s].rtimer # "off"

(* The application runs before the loop starts and inside callbacks. *)
Calling == InCallback \/ phase = "setup"

Frame(s, cont, error, ev) ==
    [s |-> s, who |-> slot[s].who, cont |-> cont, error |-> error, ev |-> ev]

Push(f) == stack' = Append(stack, f)

-----------------------------------------------------------------------------
(* ngxe_timeout_set and ngxe_interval_set. *)
TimerSet(kind) ==
    /\ Calling /\ kind \in Api /\ CanGet /\ MayTake
    /\ \E d \in Delays :
          GetConnection([Got(TimerFd) EXCEPT !.rh = kind, !.ract = TRUE,
                                             !.rtimer = Armed(d)])
    /\ live' = live \cup {Handle(born + 1, Head(free), kind)}
    /\ UNCHANGED <<batch, phase, stack, lost>>

(* ngxe_timeout_clear and ngxe_interval_clear: the timer is deleted without *)
(* a look at timer_set, which is why a timeout must not clear itself.       *)
TimerClear ==
    \E h \in live :
        /\ Calling /\ "clear" \in Api
        /\ h.kind \in {"interval", "timeout"}
        /\ MayClear(h)
        /\ slot' = [slot EXCEPT ![h.s].rtimer = "off"]
        /\ free' = Freed(h.s)
        /\ live' = live \ {h}
        /\ UNCHANGED <<batch, phase, stack, born, takes, lost>>

(* ngxe_server.  A socket that cannot be opened still takes a slot, which   *)
(* ngx_ngxe_add_listening_connection then leaves behind when epoll refuses  *)
(* the descriptor.                                                          *)
Server ==
    /\ Calling /\ "server" \in Api /\ CanGet /\ MayTake
    /\ \/ /\ GetConnection([Got(SockFd) EXCEPT !.rh = "accept", !.ract = TRUE])
          /\ live' = live \cup {Handle(born + 1, Head(free), "server")}
          /\ UNCHANGED lost
       \/ /\ "bind" \in Faults
          /\ GetConnection([Got(NoFd) EXCEPT !.rh = "accept"])
          /\ lost' = lost \cup {Head(free)}
          /\ UNCHANGED live
    /\ UNCHANGED <<batch, phase, stack>>

(* ngxe_client with the connection under way: epoll has both events.        *)
Client ==
    /\ Calling /\ "client" \in Api /\ CanGet /\ MayTake
    /\ GetConnection([Got(SockFd) EXCEPT !.rh = "client_init", !.wh = "client_init",
                        !.ract = TRUE, !.wact = TRUE, !.wtimer = "set"])
    /\ live' = live \cup {Handle(born + 1, Head(free), "conn")}
    /\ UNCHANGED <<batch, phase, stack, lost>>

(* ngxe_client when connect() succeeds at once: the handler is called.      *)
ClientAtOnce ==
    /\ Calling /\ "client" \in Api /\ CanGet /\ MayTake /\ Len(stack) < MaxDepth
    /\ GetConnection([Got(SockFd) EXCEPT !.rh = "dummy", !.wh = "dummy",
                                         !.ract = TRUE, !.wact = TRUE])
    /\ live' = live \cup {Handle(born + 1, Head(free), "conn")}
    /\ Push([s |-> Head(free), who |-> born + 1, cont |-> "client",
             error |-> FALSE, ev |-> born + 1])
    /\ UNCHANGED <<batch, phase, lost>>

(* ngxe_client when connect() is refused at once: the callback is told, and  *)
(* then the connection is closed.                                           *)
ClientDeclined ==
    /\ Calling /\ "client" \in Api /\ CanGet /\ MayTake /\ Len(stack) < MaxDepth
    /\ GetConnection([Got(SockFd) EXCEPT !.ract = TRUE, !.wact = TRUE])
    /\ live' = live \cup {Handle(born + 1, Head(free), "declined")}
    /\ Push([s |-> Head(free), who |-> born + 1, cont |-> "declined",
             error |-> TRUE, ev |-> born + 1])
    /\ UNCHANGED <<batch, phase, lost>>

(* ngx_event_connect_peer when the socket cannot be set up: the slot goes    *)
(* straight back, with the other instance, before the callback is told.      *)
ClientFailed ==
    /\ Calling /\ "client" \in Api /\ "socket" \in Faults
    /\ free # <<>> /\ takes[Head(free)] < MaxTakes /\ MayTake /\ Len(stack) < MaxDepth
    /\ slot' = [slot EXCEPT ![Head(free)] = [Got(SockFd) EXCEPT !.who = 0]]
    /\ takes' = [takes EXCEPT ![Head(free)] = @ + 1]
    /\ Push([s |-> Head(free), who |-> 0, cont |-> "failed", error |-> TRUE, ev |-> 0])
    /\ UNCHANGED <<free, batch, phase, born, live, lost>>

(* ngxe_close. *)
CloseCall ==
    \E h \in live :
        /\ Calling /\ "close" \in Api
        /\ h.kind \in {"conn", "server"} /\ MayClose(h)
        /\ Close(h.s)
        /\ UNCHANGED <<batch, phase, stack, born, takes, lost>>

(* ngxe_reader_start. *)
ReaderStart ==
    \E h \in live :
        /\ Calling /\ "start" \in Api /\ h.kind = "conn" /\ MayClose(h)
        /\ slot[h.s].rh = "dummy"
        /\ slot' = [slot EXCEPT ![h.s].rh = "reader", ![h.s].ract = TRUE]
        /\ UNCHANGED <<free, batch, phase, stack, born, live, takes, lost>>

(* ngxe_writer_start: it sends at once, and calls back if all was sent. *)
WriterStart ==
    \E h \in live :
        /\ Calling /\ "start" \in Api /\ h.kind = "conn" /\ MayClose(h)
        /\ slot[h.s].wh = "dummy"
        /\ \/ /\ slot' = [slot EXCEPT ![h.s].wh = "writer", ![h.s].wact = TRUE]
              /\ UNCHANGED stack
           \/ /\ Len(stack) < MaxDepth
              /\ slot' = [slot EXCEPT ![h.s].wh = "writer"]
              /\ Push(Frame(h.s, "writer", FALSE, h.who))
        /\ UNCHANGED <<free, batch, phase, born, live, takes, lost>>

-----------------------------------------------------------------------------
(* epoll_wait: any of the registered sockets, in any order; while it waits,  *)
(* timers run out.                                                          *)
Registered == {s \in Slots : slot[s].fd = SockFd /\ (slot[s].ract \/ slot[s].wact)}

EventOf(s, in, out) ==
    [s |-> s, inst |-> slot[s].inst, who |-> slot[s].who, in |-> in, out |-> out,
     checked |-> FALSE]

(* ngxe_loop is called. *)
StartLoop ==
    /\ phase = "setup" /\ stack = <<>>
    /\ phase' = "wait"
    /\ UNCHANGED <<slot, free, batch, stack, born, live, takes, lost>>

Wait ==
    /\ phase = "wait" /\ stack = <<>>
    /\ \E ready \in SUBSET Registered :
          /\ Cardinality(ready) <= MaxBatch
          /\ \E order \in SetToSeqs(ready), in, out \in SUBSET ready :
                /\ in \cup out = ready
                /\ batch' = [i \in 1..Len(order) |->
                                EventOf(order[i], order[i] \in in, order[i] \in out)]
    /\ \E due \in SUBSET (Slots \X {"rtimer", "wtimer"}) :
          /\ \A x \in due : slot[x[1]][x[2]] = "set"
          /\ slot' = [s \in Slots |->
                        [slot[s] EXCEPT
                            !.rtimer = IF <<s, "rtimer">> \in due THEN "due" ELSE @,
                            !.wtimer = IF <<s, "wtimer">> \in due THEN "due" ELSE @]]
    /\ phase' = "events"
    /\ takes' = [s \in Slots |-> 0]
    /\ UNCHANGED <<free, stack, born, live, lost>>

(* The event at the head of the batch. *)
Ev == batch[1]
FaultClosedOnly == slot[Ev.s].fd = NoFd
Stale == slot[Ev.s].fd = NoFd \/ slot[Ev.s].inst # Ev.inst

(* The check of c->fd and of the instance, made once per event. *)
SkipStale ==
    /\ phase = "events" /\ stack = <<>> /\ batch # <<>> /\ ~Ev.checked
    /\ Stale
    /\ batch' = Tail(batch)
    /\ UNCHANGED <<slot, free, phase, stack, born, live, takes, lost>>

(* A handler that runs for one event: the reader and the writer may or may   *)
(* not call back; a client connection is announced once; a listening socket  *)
(* accepts.                                                                 *)
Handler(s, h, ev) ==
    \/ /\ h \in {"none", "dummy", "reader", "writer"}
       /\ UNCHANGED <<slot, free, stack, born, live, takes>>
    \/ /\ h \in {"reader", "writer"}
       /\ Push(Frame(s, h, FALSE, ev))
       /\ UNCHANGED <<slot, free, born, live, takes>>
    \/ (* end of file or a failed recv or send: the callback, then ngxe_close *)
       /\ h \in {"reader", "writer"}
       /\ Push(Frame(s, "close", TRUE, ev))
       /\ UNCHANGED <<slot, free, born, live, takes>>
    \/ /\ h = "client_init"
       /\ slot' = [slot EXCEPT ![s].rh = "dummy", ![s].wh = "dummy",
                               ![s].wtimer = "off"]
       /\ Push(Frame(s, "client", FALSE, ev))
       /\ UNCHANGED <<free, born, live, takes>>
    \/ /\ h = "accept" /\ CanGet
       /\ GetConnection([Got(SockFd) EXCEPT !.rh = "dummy", !.wh = "dummy"])
       /\ live' = live \cup {Handle(born + 1, Head(free), "conn")}
       /\ Push(Frame(s, "accept", FALSE, ev))
    \/ (* nothing to accept any more, or no slot for it *)
       /\ h = "accept"
       /\ UNCHANGED <<slot, free, stack, born, live, takes>>

(* The EPOLLIN half. *)
ReadHalf ==
    /\ phase = "events" /\ stack = <<>> /\ batch # <<>> /\ ~Ev.checked
    /\ ~Stale
    /\ IF Ev.in /\ slot[Ev.s].ract
         THEN Handler(Ev.s, slot[Ev.s].rh, Ev.who)
         ELSE UNCHANGED <<slot, free, stack, born, live, takes>>
    /\ batch' = [batch EXCEPT ![1].checked = TRUE]
    /\ UNCHANGED <<phase, lost>>

(* The EPOLLOUT half: only wev->active is looked at again. *)
WriteHalf ==
    /\ phase = "events" /\ stack = <<>> /\ batch # <<>> /\ Ev.checked
    /\ IF Ev.out /\ slot[Ev.s].wact
         THEN Handler(Ev.s, slot[Ev.s].wh, Ev.who)
         ELSE UNCHANGED <<slot, free, stack, born, live, takes>>
    /\ batch' = Tail(batch)
    /\ UNCHANGED <<phase, lost>>

EventsDone ==
    /\ phase = "events" /\ stack = <<>> /\ batch = <<>>
    /\ phase' = "timers"
    /\ UNCHANGED <<slot, free, batch, stack, born, live, takes, lost>>

-----------------------------------------------------------------------------
(* ngx_event_expire_timers, one timer at a time.  ngxe_interval_callback    *)
(* sets the timer again before it calls back.                               *)
FaultDueAtOnce(d) == "due"
RearmInterval(d) == Armed(d)

ExpireInterval(s) ==
    /\ slot[s].rh = "interval"
    /\ \E d \in Delays : slot' = [slot EXCEPT ![s].rtimer = RearmInterval(d)]
    /\ Push(Frame(s, "interval", FALSE, slot[s].who))

ExpireTimeout(s) ==
    /\ slot[s].rh = "timeout"
    /\ slot' = [slot EXCEPT ![s].rtimer = "off"]
    /\ Push(Frame(s, "timeout", FALSE, slot[s].who))

(* A connect that took too long. *)
ExpireClient(s) ==
    /\ slot[s].wh = "client_init"
    /\ slot' = [slot EXCEPT ![s].wtimer = "off", ![s].rh = "dummy", ![s].wh = "dummy"]
    /\ Push(Frame(s, "close", TRUE, slot[s].who))

Expire ==
    /\ phase = "timers" /\ stack = <<>>
    /\ \E s \in Slots :
          \/ /\ slot[s].rtimer = "due"
             /\ ExpireInterval(s) \/ ExpireTimeout(s)
          \/ slot[s].wtimer = "due" /\ ExpireClient(s)
    /\ UNCHANGED <<free, batch, phase, born, live, takes, lost>>

NoneDue == \A s \in Slots : slot[s].rtimer # "due" /\ slot[s].wtimer # "due"

TimersDone ==
    /\ phase = "timers" /\ stack = <<>> /\ NoneDue
    /\ phase' = "wait"
    /\ UNCHANGED <<slot, free, batch, stack, born, live, takes, lost>>

-----------------------------------------------------------------------------
(* The callback returns, and the handler that made it goes on.              *)

(* The reader and the writer test c->destroyed in whatever the slot is now.  *)
(* With the flag clear and both handlers as they should be, the reader may   *)
(* start the writer, and the writer the reader.  (Each may also go round     *)
(* again and call back once more: since a callback makes any number of       *)
(* calls, that is one callback here.)                                        *)
SwitchTo(s, h) ==
    slot' = [slot EXCEPT
                ![s].rh = IF h = "reader" THEN "reader" ELSE "dummy",
                ![s].wh = IF h = "writer" THEN "writer" ELSE "dummy",
                ![s].ract = @ \/ h = "reader", ![s].wact = @ \/ h = "writer"]

AfterCallback(f) ==
    LET c == slot[f.s]
    IN /\ f.cont \in {"reader", "writer"}
       /\ \/ UNCHANGED slot
          \/ /\ ~c.destroyed /\ f.cont = "writer" /\ c.wh # "dummy"
             /\ SwitchTo(f.s, "reader")
          \/ /\ ~c.destroyed /\ f.cont = "reader" /\ c.rh # "dummy" /\ c.wh = "dummy"
             /\ SwitchTo(f.s, "writer")
       /\ UNCHANGED <<free, live>>

(* ngxe_timeout_callback destroys the pool and frees the slot itself. *)
AfterTimeout(f) ==
    /\ f.cont = "timeout"
    /\ free' = Freed(f.s)
    /\ live' = {h \in live : h.who # f.who}
    /\ UNCHANGED slot

(* Errors: ngxe_close after the callback. *)
AfterError(f) == f.cont = "close" /\ Close(f.s)

(* ngxe_client's own ngx_close_connection, which does not set destroyed. *)
FaultFreedTwice(f) ==
    /\ f.cont = "declined"
    /\ slot' = [slot EXCEPT ![f.s] = Closed(@)]
    /\ free' = <<f.s>> \o Freed(f.s)
    /\ live' = {h \in live : h.who # f.who}
AfterDeclined(f) ==
    /\ f.cont = "declined"
    /\ slot' = [slot EXCEPT ![f.s] = Closed(@)]
    /\ free' = IF slot[f.s].fd = NoFd THEN free ELSE Freed(f.s)
    /\ live' = {h \in live : h.who # f.who}

FaultIntervalFreed(f) ==
    /\ f.cont \in {"accept", "client", "interval", "failed"}
    /\ free' = IF f.cont = "interval" THEN Freed(f.s) ELSE free
    /\ UNCHANGED <<slot, live>>
AfterNothing(f) ==
    /\ f.cont \in {"accept", "client", "interval", "failed"}
    /\ UNCHANGED <<slot, free, live>>

Return ==
    /\ InCallback
    /\ \/ AfterCallback(TopFrame)
       \/ AfterTimeout(TopFrame)
       \/ AfterError(TopFrame)
       \/ AfterDeclined(TopFrame)
       \/ AfterNothing(TopFrame)
    /\ stack' = Front(stack)
    /\ UNCHANGED <<batch, phase, born, takes, lost>>

-----------------------------------------------------------------------------
Call ==
    \/ \E k \in {"interval", "timeout"} : TimerSet(k)
    \/ TimerClear
    \/ Server
    \/ Client \/ ClientAtOnce \/ ClientDeclined \/ ClientFailed
    \/ CloseCall
    \/ ReaderStart \/ WriterStart

Loop == StartLoop \/ Wait \/ SkipStale \/ ReadHalf \/ WriteHalf \/ EventsDone \/ Expire \/ TimersDone

Next == Call \/ Loop \/ Return

Spec == Init /\ [][Next]_vars

(* The loop runs as long as there is something for it to do, and a callback  *)
(* returns.                                                                 *)
FairSpec == Spec /\ WF_vars(Loop) /\ WF_vars(Return)

-----------------------------------------------------------------------------
(* An event reaches the owner it was reported for.  ngx_epoll_process_events *)
(* throws away what the kernel said about a socket that was closed earlier   *)
(* in the same batch, also when the slot already belongs to somebody else.   *)
DeliveredToOwner == \A i \in 1..Len(stack) : stack[i].ev = stack[i].who

(* A handle the application holds always means the connection or timer it   *)
(* was returned for: no handler, no ngxe_close and no timer gives away the   *)
(* slot behind it.                                                          *)
HandlesValid == \A h \in live : slot[h.s].who = h.who

(* A timer runs exactly while there is somebody for it: an interval until it *)
(* is cleared, a timeout until it is cleared or its callback runs, and no    *)
(* timer is left in the tree for a slot that is free.                        *)
TimersOwned ==
    \A s \in Slots :
        LET running == \E h \in live : h.s = s /\ h.kind \in {"interval", "timeout"}
            firing  == \E i \in 1..Len(stack) : stack[i].s = s /\ stack[i].cont = "timeout"
        IN /\ slot[s].rtimer # "off" <=> running /\ ~firing
           /\ slot[s].wtimer # "off" => \E h \in live : h.s = s /\ slot[s].wh = "client_init"

(* "ngxe_closed was not called()", says the comment over the test of         *)
(* c->destroyed that follows a reader's or a writer's callback: when the     *)
(* test finds the flag clear, the connection the handler ran for is open.    *)
DestroyedMeansClosed ==
    [][/\ InCallback /\ Len(stack') < Len(stack)
       /\ TopFrame.cont \in {"reader", "writer"}
       /\ ~slot[TopFrame.s].destroyed
       => slot[TopFrame.s].who = TopFrame.who]_vars

(* If the callbacks return, ngxe_loop always comes back to epoll_wait:       *)
(* neither a batch nor the timers that are due can keep it busy for ever.    *)
LoopTurns == []<>(stack = <<>>) => [](phase # "setup" => <>(phase = "wait"))

(* The table keeps the promise of NgxeOwners. *)
Owners == INSTANCE NgxeOwners WITH
    table <- [s \in Slots |-> IF s \in Range(free) THEN 0 ELSE slot[s].who]

OwnersKept == Owners!Spec
=============================================================================
