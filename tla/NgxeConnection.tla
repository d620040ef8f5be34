--------------------------- MODULE NgxeConnection ---------------------------
(***************************************************************************)
(* One connection of the XS engine: the reader and writer handlers, the    *)
(* calls an application's callbacks make on the connection, the epoll      *)
(* interface (edge-triggered) and the socket under it.                     *)
(*                                                                         *)
(* The C code runs on one thread, but it is re-entrant: a handler calls a  *)
(* Perl callback, the callback calls the engine, the engine may call a     *)
(* handler again.  "stack" holds the calls in progress.  A frame is either *)
(* a handler about to run from a label of its source, or a callback, in    *)
(* which the application makes any of the calls in Api and then returns.   *)
(* The peer and the kernel may act between any two steps.                  *)
(***************************************************************************)
EXTENDS Integers, Sequences

CONSTANTS
  Role,          \* "server": just accepted; "client": connect() in progress
  Api,           \* the engine calls the application's callbacks make
  Liberties,     \* the rules below that the application does not keep
  Buffers,       \* the write buffers the application installs
  Timeouts,      \* the timeouts it sets: a subset of BOOLEAN, FALSE is 0
  MinLens,       \* the values it gives to $_[4]
  EpollResults,  \* what epoll_ctl() may return: {TRUE} or {TRUE, FALSE}
  Pipelined,     \* TRUE: the peer sends when it likes; FALSE: it sends one
                 \* request, waits for the reply, and so on or closes
  BufLen,        \* SvLEN of a new read buffer
  Grow,          \* what ngxe_buf_svgrow adds to a full one
  MaxIn,         \* bound: bytes received and not consumed
  MaxRoom,       \* capacity of the socket's send buffer
  MaxCallbacks,  \* bound: callbacks created for each of reader and writer
  MaxDepth       \* bound: nesting of calls

NotRef == -1     \* an element of an ARRAYREF buffer that is not a SCALARREF

(* The callback given to ngxe_client(): it stays in s->writer_callback     *)
(* until the application creates a writer.                                 *)
ClientCb == MaxCallbacks + 1

(* Write buffers: "pv" a string (segs[1] its SvCUR), "ref" a SCALARREF,    *)
(* "av" an ARRAYREF of SCALARREFs, "bad" any other reference, "undef" what *)
(* the writers leave behind, "null" no SV yet.  Of the data only the sizes *)
(* are kept; "size" is their sum when the application installs the buffer. *)
Buffer == [kind : {"null", "undef", "pv", "ref", "av", "bad"},
           segs : Seq(Nat \cup {NotRef}),
           size : Nat]

SumSegs(segs) ==
  LET sum[i \in 0 .. Len(segs)] ==
        IF i = 0 THEN 0
        ELSE sum[i - 1] + (IF segs[i] = NotRef THEN 0 ELSE segs[i])
  IN sum[Len(segs)]

ASSUME ConnectionAssumption ==
  /\ Role \in {"server", "client"}
  /\ Timeouts \subseteq BOOLEAN /\ Timeouts # {}
  /\ EpollResults \subseteq BOOLEAN /\ TRUE \in EpollResults
  /\ Pipelined \in BOOLEAN
  /\ BufLen \in Nat \ {0, 1} /\ Grow \in Nat \ {0}
  /\ MaxIn \in Nat /\ MaxRoom \in Nat \ {0}
  /\ MaxCallbacks \in Nat \ {0} /\ MaxDepth \in Nat
  /\ MinLens \subseteq Nat /\ 0 \in MinLens
  /\ \A b \in Buffers : /\ b \in Buffer /\ b.kind \notin {"null", "undef"}
                        /\ b.kind \in {"pv", "ref"} => /\ Len(b.segs) = 1
                                                       /\ b.segs[1] = b.size
                        /\ b.size = SumSegs(b.segs)
  /\ \A b, d \in Buffers : b.kind = "pv" \/ d.kind = "pv" \/ b.kind = d.kind

VARIABLES
  read,       \* c->read: handler, active, ready, timer_set, timedout
  write,      \* c->write
  destroyed,  \* c->destroyed
  s,          \* c->data, the ngxe_session_t
  sock,       \* the socket and its entry in the epoll set
  stack,      \* the calls in progress, innermost last
  owed        \* observer: bytes of the installed write buffer not yet sent

vars == <<read, write, destroyed, s, sock, stack, owed>>

-----------------------------------------------------------------------------
(* Frames. *)

Handlers == {"dummy", "reader", "writer", "client"}

(* Callbacks in which the application may use the connection, and those    *)
(* that report an error, from which it must return without touching it.    *)
OkPcs == {"server_cb", "client_cb", "reader_cb", "writer_cb", "app_cb"}
ErrorPcs == {"client_timedout", "reader_err", "reader_timedout",
             "writer_err", "writer_timedout"}

(* What runs next in the C code: a handler from its first line, the reader *)
(* at RECVAGAIN or after CALLBACK, a writer at SENDAGAIN or AFTERCALLBACK, *)
(* ngxe_close() after an error callback, or the EPOLLOUT half of an event. *)
CodePcs == {"reader", "recv", "recvd", "writer", "send", "sent",
            "client", "close", "epollout"}

Frame == [pc : OkPcs \cup ErrorPcs \cup CodePcs,
          cb : 0 .. ClientCb,                       \* the callback it uses
          kind : {"-", "pv", "ref", "av",           \* the writer it runs
                  "in", "out", "timer"}]            \* who called the handler

F(pc) == [pc |-> pc, cb |-> 0, kind |-> "-"]
CbF(pc, cb) == [pc |-> pc, cb |-> cb, kind |-> "-"]
KindF(pc, cb, kind) == [pc |-> pc, cb |-> cb, kind |-> kind]

Top == stack[Len(stack)]
Rest == SubSeq(stack, 1, Len(stack) - 1)
At(pc) == stack # <<>> /\ Top.pc = pc

(* Calling ev->handler(ev): ngxe_dummy_handler does nothing. *)
Call(ev, side) ==
  IF ev.handler = "dummy" THEN <<>> ELSE <<KindF(ev.handler, 0, side)>>

(* An error callback, after which the handler closes the connection. *)
Report(pc, cb) == <<F("close"), CbF(pc, cb)>>

-----------------------------------------------------------------------------
(* Write buffers as the handlers see them. *)

SvCUR(b) == IF b.kind = "pv" THEN b.segs[1] ELSE 0

HasData(b) == b.kind \in {"ref", "av", "bad"} \/ SvCUR(b) > 0

Empty(kind, segs) == [kind |-> kind, segs |-> segs, size |-> 0]

(* Faults that the runs' properties detect are kept beside the definitions *)
(* they are faults of, under names that start with Fault.                  *)

FaultEmptySegment(segs, i, off) == i   \* empty elements are not skipped

(* NEXTBUF: the first element from i on (0-based) with something to send   *)
(* past off, or that is not a reference; past the end when there is none.  *)
NextBuf(segs, i, off) ==
  LET stop == {j \in i .. Len(segs) - 1 :
                 \/ segs[j + 1] = NotRef
                 \/ segs[j + 1] > (IF j = i THEN off ELSE 0)}
  IN IF stop = {} THEN IF i > Len(segs) THEN i ELSE Len(segs)
     ELSE CHOOSE j \in stop : \A k \in stop : j <= k

-----------------------------------------------------------------------------
(* The socket and epoll (external).  "rdl": the connection is on epoll's   *)
(* ready list.  epoll_wait() takes it off the list and reports the events  *)
(* that are registered and true then; it comes back only with a new edge   *)
(* or a re-poll by epoll_ctl().                                            *)

Readable(k) == k.inq > 0 \/ k.state \in {"half", "dead", "refused"}
Writable(k) == \/ k.room > 0 /\ k.state \in {"open", "half"}
               \/ k.state \in {"dead", "refused"}

Polled(k, r, w) == {e \in {"in", "out"} :
                      \/ e = "in" /\ r.active /\ Readable(k)
                      \/ e = "out" /\ w.active /\ Writable(k)}

Repoll(k, r, w) == [k EXCEPT !.rdl = @ \/ Polled(k, r, w) # {}]

Gone == [state |-> "closed", inq |-> 0, room |-> 0, nospace |-> FALSE,
         rdl |-> FALSE, turn |-> FALSE]

(* ngx_handle_read_event() and ngx_handle_write_event() register an event  *)
(* that is neither active nor ready; only then can they fail.              *)
NeedsAdd(ev) == ~ev.active /\ ~ev.ready

FaultNotAdded(ev) == ev                \* the event is never registered

Added(ev) == [ev EXCEPT !.active = @ \/ ~ev.ready]

-----------------------------------------------------------------------------
(* Building blocks: each says what one C function does to the events, the  *)
(* socket and the stack; "stk" is the stack its caller continues with.     *)

Continue(stk) == stack' = stk

FaultStopKeepsTimer == read' = [read EXCEPT !.handler = "dummy"]
FaultStopDropsReady ==
  read' = [read EXCEPT !.timer = FALSE, !.ready = FALSE, !.handler = "dummy"]
FaultWriterStopKeepsTimer == write' = [write EXCEPT !.handler = "dummy"]

ngxe_reader_stop == read' = [read EXCEPT !.timer = FALSE, !.handler = "dummy"]

ngxe_writer_stop == write' = [write EXCEPT !.timer = FALSE, !.handler = "dummy"]

FaultStartNoTimer(timeout, cb, stk) ==
  /\ read' = Added([read EXCEPT !.handler = "reader", !.timer = FALSE])
  /\ sock' = IF NeedsAdd(read) THEN Repoll(sock, read', write) ELSE sock
  /\ Continue(stk)
FaultStartCallsHandler(timeout, cb, stk) ==
  /\ read' = Added([read EXCEPT !.handler = "reader", !.timer = timeout])
  /\ sock' = IF NeedsAdd(read) THEN Repoll(sock, read', write) ELSE sock
  /\ Continue(stk \o IF read.ready THEN <<F("reader")>> ELSE <<>>)

(* ngxe_reader_start(c).  A read event that is already ready is neither    *)
(* re-armed nor handled: the call to the handler is commented out.         *)
ngxe_reader_start(timeout, cb, stk) ==
  \/ /\ read' = Added([read EXCEPT !.handler = "reader", !.timer = timeout])
     /\ sock' = IF NeedsAdd(read) THEN Repoll(sock, read', write) ELSE sock
     /\ Continue(stk)
  \/ /\ NeedsAdd(read) /\ FALSE \in EpollResults /\ cb # 0
     /\ read' = [read EXCEPT !.handler = "reader", !.timer = FALSE]
     /\ Continue(stk \o Report("reader_err", cb))
     /\ UNCHANGED sock

FaultStartNoCall(timeout, cb, stk) ==
  /\ write' = Added([write EXCEPT !.handler = "writer", !.timer = timeout])
  /\ sock' = IF NeedsAdd(write) THEN Repoll(sock, read, write') ELSE sock
  /\ Continue(stk)

(* ngxe_writer_start(c).  A write event that is ready is handled at once. *)
ngxe_writer_start(timeout, cb, stk) ==
  \/ /\ write' = Added([write EXCEPT !.handler = "writer", !.timer = timeout])
     /\ sock' = IF NeedsAdd(write) THEN Repoll(sock, read, write') ELSE sock
     /\ Continue(stk \o IF write.ready THEN <<F("writer")>> ELSE <<>>)
  \/ /\ NeedsAdd(write) /\ FALSE \in EpollResults /\ cb # 0
     /\ write' = [write EXCEPT !.handler = "writer", !.timer = FALSE]
     /\ Continue(stk \o Report("writer_err", cb))
     /\ UNCHANGED sock

FaultCloseKeepsTimer(stk) ==
  /\ Continue(stk)
  /\ destroyed' = TRUE
  /\ read' = [read EXCEPT !.timer = FALSE, !.active = FALSE]
  /\ write' = [write EXCEPT !.active = FALSE]
  /\ sock' = Gone

(* ngxe_close(c): nothing for a connection already destroyed. *)
ngxe_close(stk) ==
  /\ Continue(stk)
  /\ destroyed' = TRUE
  /\ IF destroyed THEN UNCHANGED <<read, write, sock>>
     ELSE /\ read' = [read EXCEPT !.timer = FALSE, !.active = FALSE]
          /\ write' = [write EXCEPT !.timer = FALSE, !.active = FALSE]
          /\ sock' = Gone

-----------------------------------------------------------------------------
(* ngxe_reader_handler. *)

ReaderEntry ==
  /\ At("reader")
  /\ \/ /\ s.reader_callback = 0
        /\ Continue(Rest)
        /\ UNCHANGED read
     \/ /\ s.reader_callback # 0 /\ read.timedout
        /\ Continue(Rest \o Report("reader_timedout", s.reader_callback))
        /\ UNCHANGED read
     \/ /\ s.reader_callback # 0 /\ ~read.timedout
        /\ read' = [read EXCEPT !.timer = FALSE]
        /\ Continue(Append(Rest, CbF("recv", s.reader_callback)))
  /\ UNCHANGED <<write, destroyed, s, sock, owed>>

FaultNoRoomForNul(len) == len - s.cur

(* The size given to recv(): a byte is kept for the terminating NUL. *)
RecvSize(len) == len - s.cur - 1

(* RECVAGAIN.  A full buffer grows first.  recv() leaves read->ready set   *)
(* unless it finds nothing (epoll is a "greedy" event method), so in this  *)
(* frame ngx_handle_read_event() has nothing to do.                        *)
ReaderRecv ==
  /\ At("recv")
  /\ LET cb == Top.cb
         len == IF s.len = s.cur + 1 THEN s.len + Grow ELSE s.len
         n == IF sock.inq < RecvSize(len) THEN sock.inq ELSE RecvSize(len)
         Callback == Continue(Rest \o <<CbF("recvd", cb), CbF("reader_cb", cb)>>)
         KeepTimer == read.timer \/ s.reader_timeout
     IN \/ /\ s.cur + 1 >= len          \* "buffer already filled up"
           /\ Callback
           /\ UNCHANGED <<read, s, sock>>
        \/ /\ n > 0
           /\ s' = [s EXCEPT !.cur = @ + n, !.len = len]
           /\ sock' = [sock EXCEPT !.inq = @ - n]
           /\ read' = [read EXCEPT !.timer = KeepTimer]
           /\ IF s.cur + n + 1 < s.min_len[cb] /\ s.cur + n + 1 < len
              THEN UNCHANGED stack
              ELSE Callback
        \/ /\ s.cur + 1 < len /\ sock.inq = 0
           /\ s' = [s EXCEPT !.len = len]
           /\ IF Readable(sock)
              THEN /\ read' = [read EXCEPT !.ready = FALSE]
                   /\ Continue(Rest \o Report("reader_err", cb))
              ELSE /\ read' = [read EXCEPT !.ready = FALSE, !.timer = KeepTimer]
                   /\ Continue(Rest)
           /\ UNCHANGED sock
  /\ UNCHANGED <<write, destroyed, owed>>

FaultNoDestroyedTest == read.handler = "dummy" \/ write.handler # "dummy"

(* After the callback closed the connection, stopped the reader or started *)
(* the writer, the handler returns.                                        *)
ReaderDone == destroyed \/ read.handler = "dummy" \/ write.handler # "dummy"

(* After CALLBACK: what the callback did decides what the handler does.    *)
ReaderAfterCallback ==
  /\ At("recvd")
  /\ \/ /\ ReaderDone
        /\ Continue(Rest)
        /\ UNCHANGED <<read, write, s, sock>>
     \/ /\ ~ReaderDone
        /\ s.writer_callback # 0 /\ HasData(s.writer_buffer)
        /\ s' = [s EXCEPT !.writer_offset = 0, !.writer_index = 0]
        /\ ngxe_reader_stop
        /\ ngxe_writer_start(s.writer_timeout, s.writer_callback, Rest)
     \/ /\ ~ReaderDone
        /\ s.writer_callback = 0 \/ ~HasData(s.writer_buffer)
        /\ Continue(Append(Rest, CbF("recv", Top.cb)))
        /\ UNCHANGED <<read, write, s, sock>>
  /\ UNCHANGED <<destroyed, owed>>

-----------------------------------------------------------------------------
(* The three writer handlers: ngxe_writer_handler itself ("pv") and the    *)
(* ones it hands SCALARREF ("ref") and ARRAYREF ("av") buffers to.         *)

WriterCallback(kind, cb) == <<KindF("sent", cb, kind), CbF("writer_cb", cb)>>

(* NEXTBUF of the ARRAYREF handler from element i, past off bytes of it.   *)
AvNextBuf(i, off, cb, stk) ==
  LET segs == s.writer_buffer.segs
      j == NextBuf(segs, i, off)
      rest == IF j = i THEN off ELSE 0
  IN IF j >= Len(segs)
     THEN /\ s' = [s EXCEPT !.writer_buffer = Empty("undef", <<>>),
                           !.writer_index = j, !.writer_offset = rest]
          /\ Continue(stk \o WriterCallback("av", cb))
     ELSE IF segs[j + 1] = NotRef
     THEN /\ s' = [s EXCEPT !.writer_index = 0, !.writer_offset = 0]
          /\ Continue(stk \o Report("writer_err", cb))
     ELSE /\ s' = [s EXCEPT !.writer_index = j, !.writer_offset = rest]
          /\ Continue(Append(stk, KindF("send", cb, "av")))

(* The SCALARREF handler up to SENDAGAIN. *)
RefEntry(cb, stk) ==
  IF s.writer_buffer.segs[1] <= s.writer_offset
  THEN /\ s' = [s EXCEPT !.writer_offset = 0]
       /\ Continue(stk \o WriterCallback("ref", cb))
  ELSE UNCHANGED s /\ Continue(Append(stk, KindF("send", cb, "ref")))

WriterEntry ==
  /\ At("writer")
  /\ LET cb == s.writer_callback
         b == s.writer_buffer
     IN \/ /\ cb = 0 \/ b.kind = "null"
           /\ Continue(Rest)
           /\ UNCHANGED <<write, s>>
        \/ /\ cb # 0 /\ b.kind = "bad"
           /\ Continue(Rest \o Report("writer_err", cb))
           /\ UNCHANGED <<write, s>>
        \/ /\ cb # 0 /\ b.kind \notin {"null", "bad"} /\ write.timedout
           /\ Continue(Rest \o Report("writer_timedout", cb))
           /\ UNCHANGED <<write, s>>
        \/ /\ cb # 0 /\ b.kind \notin {"null", "bad"} /\ ~write.timedout
           /\ write' = [write EXCEPT !.timer = FALSE]
           /\ \/ /\ b.kind \in {"pv", "undef"}
                 /\ Continue(IF SvCUR(b) = 0
                             THEN Rest \o WriterCallback("pv", cb)
                             ELSE Append(Rest, KindF("send", cb, "pv")))
                 /\ UNCHANGED s
              \/ /\ b.kind = "ref"
                 /\ RefEntry(cb, Rest)
              \/ /\ b.kind = "av"
                 /\ AvNextBuf(s.writer_index, s.writer_offset, cb, Rest)
  /\ UNCHANGED <<read, destroyed, sock, owed>>

FaultSwapped(kind) ==
  s.writer_offset - s.writer_buffer.segs[s.writer_index + 1]

(* What the writer is about to pass to send(). *)
SendSize(kind) ==
  CASE kind = "pv" -> SvCUR(s.writer_buffer)
    [] kind = "ref" -> s.writer_buffer.segs[1] - s.writer_offset
    [] kind = "av" -> s.writer_buffer.segs[s.writer_index + 1] - s.writer_offset

(* Registering the write event and waiting for it; when that fails the     *)
(* SCALARREF and ARRAYREF handlers forget the offset, not the index.       *)
WaitWritable(w, k, s1, kind, cb, stk) ==
  \/ /\ write' = Added([w EXCEPT !.timer = @ \/ s1.writer_timeout])
     /\ sock' = IF NeedsAdd(w) THEN Repoll(k, read, write') ELSE k
     /\ s' = s1
     /\ Continue(stk)
  \/ /\ NeedsAdd(w) /\ FALSE \in EpollResults
     /\ write' = w
     /\ sock' = k
     /\ s' = IF kind = "pv" THEN s1 ELSE [s1 EXCEPT !.writer_offset = 0]
     /\ Continue(stk \o Report("writer_err", cb))

FaultPartialIsAll(n, cur) == n > 0

(* Whether send() took all it was given. *)
AllSent(n, cur) == n = cur

(* SENDAGAIN: send() fails, takes everything, or takes what there is room  *)
(* for (NGX_AGAIN when that is nothing).                                   *)
WriterSend ==
  /\ At("send")
  /\ LET cb == Top.cb
         kind == Top.kind
         cur == SendSize(kind)
         n == IF cur < sock.room THEN cur ELSE sock.room
         k == [sock EXCEPT !.room = @ - n]
         timer == IF kind = "av" /\ n > 0 THEN FALSE ELSE write.timer
     IN \/ /\ sock.state \in {"dead", "refused"}
           /\ s' = CASE kind = "pv" -> s
                     [] kind = "ref" -> [s EXCEPT !.writer_offset = 0]
                     [] kind = "av" -> [s EXCEPT !.writer_offset = 0,
                                                !.writer_index = 0]
           /\ Continue(Rest \o Report("writer_err", cb))
           /\ UNCHANGED <<write, sock, owed>>
        \/ /\ sock.state \in {"open", "half"} /\ AllSent(n, cur)
           /\ owed' = owed - n
           /\ sock' = [k EXCEPT !.turn = @ \/ owed' = 0]
           /\ write' = [write EXCEPT !.timer = timer]
           /\ \/ /\ kind = "pv"
                 /\ s' = [s EXCEPT !.writer_buffer = Empty("pv", <<0>>)]
                 /\ Continue(Rest \o WriterCallback(kind, cb))
              \/ /\ kind = "ref"
                 /\ s' = [s EXCEPT !.writer_buffer = Empty("undef", <<>>),
                                  !.writer_offset = 0]
                 /\ Continue(Rest \o WriterCallback(kind, cb))
              \/ /\ kind = "av"
                 /\ AvNextBuf(s.writer_index + 1, 0, cb, Rest)
        \/ /\ sock.state \in {"open", "half"} /\ ~AllSent(n, cur)
           /\ owed' = owed - n
           /\ LET s1 == IF kind = "pv"
                        THEN [s EXCEPT !.writer_buffer.segs = <<cur - n>>]
                        ELSE [s EXCEPT !.writer_offset = @ + n]
              IN WaitWritable([write EXCEPT !.ready = FALSE, !.timer = timer],
                              [k EXCEPT !.nospace = TRUE], s1, kind, cb, Rest)
  /\ UNCHANGED <<read, destroyed>>

(* What each handler takes for more data to send after the callback. *)
More(kind) ==
  LET b == s.writer_buffer
  IN CASE kind = "pv" -> SvCUR(b) > 0
       [] kind = "ref" -> b.kind = "ref" /\ b.segs[1] > 0
       [] kind = "av" -> b.kind = "av"

(* DONE: the ARRAYREF handler starts a new buffer from its beginning. *)
Rewound(kind) ==
  IF kind = "av" THEN [s EXCEPT !.writer_offset = 0, !.writer_index = 0] ELSE s

(* AFTERCALLBACK: more data of the same kind is sent at once or when the   *)
(* socket allows; without it the writer stops and starts the reader.       *)
WriterAfterCallback ==
  /\ At("sent")
  /\ LET cb == Top.cb
         kind == Top.kind
         more == More(kind)
         running == ~destroyed /\ write.handler # "dummy"
     IN \/ /\ ~running \/ (~more /\ s.reader_callback = 0)
           /\ Continue(Rest)
           /\ UNCHANGED <<read, write, s, sock>>
        \/ /\ running /\ more /\ write.ready
           /\ IF kind = "av"
              THEN AvNextBuf(0, 0, cb, Rest)
              ELSE Continue(Append(Rest, KindF("send", cb, kind))) /\ s' = s
           /\ UNCHANGED <<read, write, sock>>
        \/ /\ running /\ more /\ ~write.ready
           /\ WaitWritable(write, sock, Rewound(kind), kind, cb, Rest)
           /\ UNCHANGED read
        \/ /\ running /\ ~more /\ s.reader_callback # 0
           /\ ngxe_writer_stop
           /\ ngxe_reader_start(s.reader_timeout, s.reader_callback, Rest)
           /\ UNCHANGED s
  /\ UNCHANGED <<destroyed, owed>>

-----------------------------------------------------------------------------
(* ngxe_client_init_handler, for whichever event of the pair comes first   *)
(* (the frame's kind).  ev->error is set by recv() and send() only, which  *)
(* nobody has called yet.                                                  *)
ClientInit ==
  /\ At("client")
  /\ LET ev == IF Top.kind = "in" THEN read ELSE write
     IN /\ read' = [read EXCEPT !.handler = "dummy"]
        /\ IF ev.timedout
           THEN /\ write' = [write EXCEPT !.handler = "dummy"]
                /\ Continue(Rest \o Report("client_timedout", s.writer_callback))
           ELSE /\ write' = [write EXCEPT !.handler = "dummy", !.timer = FALSE]
                /\ Continue(Append(Rest, CbF("client_cb", s.writer_callback)))
  /\ UNCHANGED <<destroyed, s, sock, owed>>

(* ngxe_close(c) after an error callback. *)
CloseAfterError ==
  /\ At("close")
  /\ ngxe_close(Rest)
  /\ UNCHANGED <<s, owed>>

-----------------------------------------------------------------------------
(* The event loop: ngx_process_events_and_timers() with nothing running.   *)

Idle == stack = <<>>

(* One event of ngx_epoll_process_events(): the EPOLLIN half calls the     *)
(* read handler; the EPOLLOUT half, if any, is what runs after it.         *)
EpollWait ==
  /\ Idle /\ sock.rdl
  /\ LET revents == Polled(sock, read, write)
         out == IF "out" \in revents THEN <<F("epollout")>> ELSE <<>>
     IN /\ sock' = [sock EXCEPT !.rdl = FALSE]
        /\ read' = [read EXCEPT !.ready = @ \/ "in" \in revents]
        /\ Continue(out \o IF "in" \in revents THEN Call(read, "in") ELSE <<>>)
  /\ UNCHANGED <<write, destroyed, s, owed>>

EpollOut ==
  /\ At("epollout")
  /\ IF write.active
     THEN /\ write' = [write EXCEPT !.ready = TRUE]
          /\ Continue(Rest \o Call(write, "out"))
     ELSE Continue(Rest) /\ UNCHANGED write
  /\ UNCHANGED <<read, destroyed, s, sock, owed>>

(* ngx_event_expire_timers(), for the timer of either event. *)
ReadTimer ==
  /\ Idle /\ read.timer
  /\ read' = [read EXCEPT !.timer = FALSE, !.timedout = TRUE]
  /\ Continue(Call(read, "timer"))
  /\ UNCHANGED <<write, destroyed, s, sock, owed>>

WriteTimer ==
  /\ Idle /\ write.timer
  /\ write' = [write EXCEPT !.timer = FALSE, !.timedout = TRUE]
  /\ Continue(Call(write, "timer"))
  /\ UNCHANGED <<read, destroyed, s, sock, owed>>

-----------------------------------------------------------------------------
(* The application.  Its callbacks make the calls in Api, in any order,    *)
(* until they return; once it has closed the connection it leaves it       *)
(* alone, and from an error callback it only returns.                      *)

Calls(name) ==
  /\ name \in Api
  /\ stack # <<>> /\ Top.pc \in OkPcs /\ Len(stack) <= MaxDepth
  /\ ~destroyed

(* Rules of use.  The engine checks none of them.  An application keeps    *)
(* the ones that are not among its Liberties:                              *)
(*  - it uses a reader or a writer after it created it;                    *)
(*  - it starts no writer on a connection that has no reader;              *)
(*  - it neither replaces the write buffer nor stops the writer midway;    *)
(*  - it recreates neither a reader nor a writer that is running.          *)
Created(cb) == cb \notin {0, ClientCb} \/ "uncreated" \in Liberties
ReaderFirst == s.reader_callback # 0 \/ "writer first" \in Liberties
NotMidway == owed = 0 \/ "midway" \in Liberties
NotRunning(ev) == ev.handler = "dummy" \/ "recreate" \in Liberties

(* With a peer that waits for replies, it answers requests when it reads   *)
(* them, each with one buffer.                                             *)
Answering == Pipelined \/ (Top.pc = "reader_cb" /\ ~sock.turn)

(* Other callbacks of the program, timers for one, that know $connection.  *)
AppCallback ==
  /\ "app" \in Api /\ Idle /\ ~destroyed
  /\ read.handler # "client" /\ write.handler # "client"
  /\ Continue(<<F("app_cb")>>)
  /\ UNCHANGED <<read, write, destroyed, s, sock, owed>>

Return ==
  /\ stack # <<>> /\ Top.pc \in OkPcs \cup ErrorPcs
  /\ Continue(Rest)
  /\ UNCHANGED <<read, write, destroyed, s, sock, owed>>

(* ngxe_reader(): the handler is reset, a timer that is set stays set.     *)
ngxe_reader(start, timeout) ==
  /\ Calls("ngxe_reader") /\ NotRunning(read)
  /\ s.reader_callback < MaxCallbacks
  /\ s' = [s EXCEPT !.reader_callback = @ + 1,
                    !.reader_timeout = timeout,
                    !.writer_buffer = IF @.kind = "null"
                                      THEN Empty("pv", <<0>>) ELSE @]
  /\ IF start
     THEN ngxe_reader_start(timeout, s'.reader_callback, stack)
     ELSE /\ read' = [read EXCEPT !.handler = "dummy"]
          /\ UNCHANGED <<sock, stack>>
  /\ UNCHANGED <<write, destroyed, owed>>

(* ngxe_writer(): offset and index are those of the writer before it.      *)
ngxe_writer(start, timeout, b) ==
  /\ Calls("ngxe_writer") /\ NotMidway /\ NotRunning(write)
  /\ start => ReaderFirst /\ Answering
  /\ s.writer_callback \in {ClientCb} \cup 0 .. MaxCallbacks - 1
  /\ s' = [s EXCEPT !.writer_callback = IF @ = ClientCb THEN 1 ELSE @ + 1,
                    !.writer_timeout = timeout,
                    !.writer_buffer = b]
  /\ owed' = b.size
  /\ IF start
     THEN ngxe_writer_start(timeout, s'.writer_callback, stack)
     ELSE /\ write' = [write EXCEPT !.handler = "dummy"]
          /\ UNCHANGED <<sock, stack>>
  /\ UNCHANGED <<read, destroyed>>

(* ngxe_writer_buffer_set(), alias ngxe_writer_put(). *)
ngxe_writer_put(b) ==
  /\ Calls("ngxe_writer_put")
  /\ Created(s.writer_callback) /\ ReaderFirst /\ NotMidway
  /\ s.writer_buffer.kind # "null"
  /\ b.kind = "pv" => b.size > 0
  /\ s' = [s EXCEPT !.writer_buffer = b,
                    !.writer_offset = IF b.kind \in {"ref", "av"} THEN 0 ELSE @,
                    !.writer_index = IF b.kind = "av" THEN 0 ELSE @]
  /\ owed' = b.size
  /\ ngxe_writer_start(s.writer_timeout, s.writer_callback, stack)
  /\ UNCHANGED <<read, destroyed>>

ngxe_reader_timeout(timeout) ==
  /\ Calls("ngxe_reader_timeout")
  /\ s' = [s EXCEPT !.reader_timeout = timeout]
  /\ UNCHANGED <<read, write, destroyed, sock, stack, owed>>

ngxe_writer_timeout(timeout) ==
  /\ Calls("ngxe_writer_timeout")
  /\ s' = [s EXCEPT !.writer_timeout = timeout]
  /\ UNCHANGED <<read, write, destroyed, sock, stack, owed>>

(* The XSUBs of the same names; the optional argument is a new timeout.    *)
XS_reader_start(timeout) ==
  /\ Calls("ngxe_reader_start") /\ Created(s.reader_callback)
  /\ s' = [s EXCEPT !.reader_timeout = timeout]
  /\ ngxe_reader_start(timeout, s.reader_callback, stack)
  /\ UNCHANGED <<write, destroyed, owed>>

XS_reader_stop ==
  /\ Calls("ngxe_reader_stop")
  /\ ngxe_reader_stop
  /\ UNCHANGED <<write, destroyed, s, sock, stack, owed>>

XS_reader_stop_writer_start ==
  /\ Calls("ngxe_reader_stop_writer_start")
  /\ Created(s.writer_callback) /\ ReaderFirst
  /\ ngxe_reader_stop
  /\ ngxe_writer_start(s.writer_timeout, s.writer_callback, stack)
  /\ UNCHANGED <<destroyed, s, owed>>

XS_writer_start(timeout) ==
  /\ Calls("ngxe_writer_start") /\ Created(s.writer_callback) /\ ReaderFirst
  /\ s' = [s EXCEPT !.writer_timeout = timeout]
  /\ ngxe_writer_start(timeout, s.writer_callback, stack)
  /\ UNCHANGED <<read, destroyed, owed>>

XS_writer_stop ==
  /\ Calls("ngxe_writer_stop") /\ NotMidway
  /\ ngxe_writer_stop
  /\ UNCHANGED <<read, destroyed, s, sock, stack, owed>>

XS_writer_stop_reader_start ==
  /\ Calls("ngxe_writer_stop_reader_start")
  /\ Created(s.reader_callback) /\ NotMidway
  /\ ngxe_writer_stop
  /\ ngxe_reader_start(s.reader_timeout, s.reader_callback, stack)
  /\ UNCHANGED <<destroyed, s, owed>>

(* Closing twice is harmless as long as the slot has no new owner. *)
XS_close ==
  /\ "ngxe_close" \in Api
  /\ stack # <<>> /\ Top.pc \in OkPcs
  /\ ngxe_close(stack)
  /\ UNCHANGED <<s, owed>>

(* What a reader or writer callback may do to its arguments: $_[3] = ...,  *)
(* $_[2] = '', undef $_[2], and, in a reader, $_[4] = ...                  *)
SetWriteBuffer(b) ==
  /\ Calls("$_[3]") /\ Created(s.writer_callback) /\ NotMidway
  /\ b.kind # "bad"
  /\ Top.pc \in {"reader_cb", "writer_cb"} /\ Answering
  /\ s' = [s EXCEPT !.writer_buffer = b]
  /\ owed' = b.size
  /\ UNCHANGED <<read, write, destroyed, sock, stack>>

ClearReadBuffer ==
  /\ Calls("$_[2]") /\ Top.pc \in {"reader_cb", "writer_cb"}
  /\ s' = [s EXCEPT !.cur = 0]
  /\ UNCHANGED <<read, write, destroyed, sock, stack, owed>>

UndefReadBuffer ==
  /\ Calls("undef $_[2]") /\ Top.pc = "reader_cb"
  /\ s' = [s EXCEPT !.len = 0]
  /\ UNCHANGED <<read, write, destroyed, sock, stack, owed>>

SetMinLen(n) ==
  /\ Calls("$_[4]") /\ Top.pc = "reader_cb"
  /\ s' = [s EXCEPT !.min_len[Top.cb] = n]
  /\ UNCHANGED <<read, write, destroyed, sock, stack, owed>>

-----------------------------------------------------------------------------
(* The kernel and the peer.  An edge puts the connection on the ready list *)
(* when the event it belongs to is registered.                             *)

Edge(on) == sock.rdl \/ on

Arrive(n) ==
  /\ sock.state = "open" /\ (Pipelined \/ sock.turn)
  /\ sock.inq + s.cur + n <= MaxIn
  /\ sock' = [sock EXCEPT !.inq = @ + n, !.turn = FALSE,
                          !.rdl = Edge(read.active)]
  /\ UNCHANGED <<read, write, destroyed, s, stack, owed>>

PeerClose ==
  /\ sock.state = "open" /\ (Pipelined \/ sock.turn)
  /\ sock' = [sock EXCEPT !.state = "half", !.rdl = Edge(read.active)]
  /\ UNCHANGED <<read, write, destroyed, s, stack, owed>>

PeerReset ==
  /\ sock.state \in {"open", "half"}
  /\ sock' = [sock EXCEPT !.state = "dead", !.inq = 0,
                          !.rdl = Edge(read.active \/ write.active)]
  /\ UNCHANGED <<read, write, destroyed, s, stack, owed>>

Drain ==
  /\ sock.state \in {"open", "half"} /\ sock.room < MaxRoom
  /\ sock' = [sock EXCEPT !.room = MaxRoom, !.nospace = FALSE,
                          !.rdl = Edge(sock.nospace /\ write.active)]
  /\ UNCHANGED <<read, write, destroyed, s, stack, owed>>

ConnectDone ==
  /\ sock.state = "connecting"
  /\ \E state \in {"open", "refused"} :
       sock' = [sock EXCEPT !.state = state, !.room = MaxRoom, !.rdl = TRUE]
  /\ UNCHANGED <<read, write, destroyed, s, stack, owed>>

-----------------------------------------------------------------------------
(* A connection that ngx_event_accept() hands to the server: it starts in  *)
(* the server's callback, the read event unregistered, the write event     *)
(* ready.                                                                  *)
Accepted ==
  /\ read = [handler |-> "dummy", active |-> FALSE, ready |-> FALSE,
             timer |-> FALSE, timedout |-> FALSE]
  /\ write = [handler |-> "dummy", active |-> FALSE, ready |-> TRUE,
              timer |-> FALSE, timedout |-> FALSE]
  /\ sock = [state |-> "open", inq |-> 0, room |-> MaxRoom,
             nospace |-> FALSE, rdl |-> FALSE, turn |-> TRUE]
  /\ stack = <<F("server_cb")>>

(* One for which ngx_event_connect_peer() returned NGX_AGAIN: both events  *)
(* are registered, and ngxe_client() has set the connect timer.            *)
Connecting ==
  /\ read = [handler |-> "client", active |-> TRUE, ready |-> FALSE,
             timer |-> FALSE, timedout |-> FALSE]
  /\ write = [handler |-> "client", active |-> TRUE, ready |-> FALSE,
              timer |-> TRUE, timedout |-> FALSE]
  /\ sock = [state |-> "connecting", inq |-> 0, room |-> 0,
             nospace |-> FALSE, rdl |-> FALSE, turn |-> TRUE]
  /\ stack = <<>>

(* ngxe_client() and ngxe_server_init_connection() allocate the session.   *)
Init ==
  /\ IF Role = "server" THEN Accepted ELSE Connecting
  /\ destroyed = FALSE
  /\ \E timeout \in Timeouts :
       s = [reader_callback |-> 0, reader_timeout |-> FALSE,
            cur |-> 0, len |-> BufLen,
            min_len |-> [cb \in 1 .. MaxCallbacks |-> 0],
            writer_callback |-> IF Role = "client" THEN ClientCb ELSE 0,
            writer_timeout |-> Role = "client" /\ timeout,
            writer_buffer |-> Empty("null", <<>>),
            writer_offset |-> 0, writer_index |-> 0]
  /\ owed = 0

Handler == \/ ReaderEntry \/ ReaderRecv \/ ReaderAfterCallback
           \/ WriterEntry \/ WriterSend \/ WriterAfterCallback
           \/ ClientInit \/ CloseAfterError \/ EpollOut

App == \/ \E start \in BOOLEAN, t \in Timeouts : ngxe_reader(start, t)
       \/ \E start \in BOOLEAN, t \in Timeouts, b \in Buffers :
            ngxe_writer(start, t, b)
       \/ \E b \in Buffers : ngxe_writer_put(b) \/ SetWriteBuffer(b)
       \/ \E t \in Timeouts : \/ ngxe_reader_timeout(t) \/ ngxe_writer_timeout(t)
                            \/ XS_reader_start(t) \/ XS_writer_start(t)
       \/ XS_reader_stop \/ XS_reader_stop_writer_start
       \/ XS_writer_stop \/ XS_writer_stop_reader_start
       \/ XS_close
       \/ ClearReadBuffer \/ UndefReadBuffer
       \/ \E n \in MinLens : SetMinLen(n)

Environment == \/ \E n \in 1 .. MaxIn : Arrive(n)
               \/ PeerClose \/ PeerReset \/ Drain \/ ConnectDone

Next == \/ Handler \/ EpollWait \/ ReadTimer \/ WriteTimer
        \/ AppCallback \/ App \/ Return \/ Environment

Spec == Init /\ [][Next]_vars

(* Handlers run to completion, callbacks return, every turn of the loop    *)
(* serves the ready list, and the peer reads what it is sent.              *)
FairSpec == Spec /\ WF_vars(Handler) /\ SF_vars(Return) /\ SF_vars(EpollWait)
                 /\ WF_vars(Drain)

-----------------------------------------------------------------------------
(* Properties. *)

Event == [handler : Handlers, active : BOOLEAN, ready : BOOLEAN,
          timer : BOOLEAN, timedout : BOOLEAN]

Session == [reader_callback : 0 .. MaxCallbacks, reader_timeout : BOOLEAN,
            cur : Nat, len : Nat, min_len : [1 .. MaxCallbacks -> MinLens],
            writer_callback : 0 .. ClientCb, writer_timeout : BOOLEAN,
            writer_buffer : Buffer, writer_offset : Nat, writer_index : Nat]

Socket == [state : {"connecting", "open", "half", "dead", "refused", "closed"},
           inq : Nat, room : 0 .. MaxRoom, nospace : BOOLEAN,
           rdl : BOOLEAN, turn : BOOLEAN]

(* Types of the connection's state: sizes, offsets and the socket's room   *)
(* never become negative, whatever the handlers subtract.                  *)
TypeOK ==
  /\ read \in Event /\ write \in Event
  /\ destroyed \in BOOLEAN
  /\ s \in Session
  /\ sock \in Socket
  /\ stack \in Seq(Frame)
  /\ owed \in Int

ReaderPcs == {"reader", "recv", "recvd"}

(* However callbacks and engine calls nest, ngxe_reader_handler never runs *)
(* inside itself on one connection: two activations would share svbuf.     *)
OneReader ==
  \A i, j \in DOMAIN stack :
    stack[i].pc \in ReaderPcs /\ stack[j].pc \in ReaderPcs => i = j

(* While ngxe_reader_handler is past RECVAGAIN, read->ready is set, so its *)
(* calls of ngx_handle_read_event cannot fail and its "not ready" branches *)
(* are not taken.                                                          *)
ReaderReady ==
  \A i \in DOMAIN stack :
    stack[i].pc \in {"recv", "recvd"} /\ ~destroyed => read.ready

(* After ngxe_close nothing of the connection is left in the timer tree or *)
(* in epoll, and the handlers still on the stack only return.              *)
ClosedIsQuiet ==
  destroyed =>
    /\ ~read.timer /\ ~write.timer /\ ~read.active /\ ~write.active
    /\ stack # <<>> => Top.pc \in OkPcs \cup {"recvd", "sent", "epollout"}

(* Once a connection is closed no callback of it is called any more.       *)
NoCallbackAfterClose ==
  [][destroyed => Len(stack') < Len(stack) \/ stack' = stack]_vars

(* The writer reports success exactly when every byte of the buffer that   *)
(* was installed last has been passed to send() once.                      *)
SentExactly ==
  [][(stack' # stack /\ Len(stack') >= Len(stack) /\ At("writer_cb")')
       => owed' = 0]_vars

(* send() is called on an open descriptor with at least one byte: a zero   *)
(* result would be taken for a write error.                                *)
SendsSomething == At("send") => ~destroyed /\ SendSize(Top.kind) > 0

(* recv() leaves room for the NUL that Perl keeps after a string.          *)
ReadBufferFits == s.cur < s.len

(* A timeout that fired has been reported when the loop waits again.       *)
TimeoutReported ==
  Idle /\ ~destroyed => ~read.timedout /\ ~write.timedout

(* "Operation timed out" is reported when a timer expires, never when the  *)
(* socket has become ready.                                                *)
TimeoutIsReal ==
  \/ At("reader") /\ read.timedout
  \/ At("writer") /\ write.timedout
  => Top.kind = "timer"

(* A reader with a timeout is never left waiting without its timer, nor is *)
(* a writer that has not sent everything.                                  *)
TimerArmed ==
  Idle /\ ~destroyed =>
    /\ read.handler = "reader" /\ s.reader_timeout => read.timer
    /\ write.handler = "writer" /\ s.writer_timeout /\ owed > 0 => write.timer

(* A stopped reader or writer has no timer running.                        *)
StoppedHasNoTimer ==
  /\ read.handler = "dummy" => ~read.timer
  /\ write.handler = "dummy" => ~write.timer

(* With epoll's edges: when the loop waits and a writer has bytes to send, *)
(* a writable socket is on epoll's ready list (or the edge is still to     *)
(* come).                                                                  *)
WriteWakeup ==
  Idle /\ ~destroyed /\ write.handler = "writer" /\ owed > 0 =>
    /\ write.active
    /\ Writable(sock) => sock.rdl

(* When the loop waits and a reader is running, data in the socket is on   *)
(* its way to the callback: the socket is on epoll's ready list.           *)
ReadWakeup ==
  Idle /\ ~destroyed /\ read.handler = "reader" =>
    /\ read.active
    /\ Readable(sock) => sock.rdl

(* The part of ReadWakeup that is about data.                              *)
DataWakeup ==
  Idle /\ ~destroyed /\ read.handler = "reader" /\ sock.inq > 0 => sock.rdl

(* The callback that is called is the one the connection has now: a reader *)
(* or a writer created later replaces the earlier one.                     *)
LatestCallback ==
  [][stack' # stack /\ Len(stack') >= Len(stack) =>
       /\ At("reader_cb")' => Top'.cb = s.reader_callback
       /\ At("writer_cb")' => Top'.cb = s.writer_callback]_vars

(* The callback of ngxe_client() is called without an error only for a     *)
(* connection that was established.                                        *)
ConnectErrorReported == At("client_cb") => sock.state # "refused"

(* A reader callback gets at least the $_[4] bytes it asked for.           *)
MinLenRespected ==
  [][stack' # stack /\ At("reader_cb")' /\ Len(stack') >= Len(stack)
       => s'.cur >= s.min_len[Top'.cb]]_vars

(* A buffer given to a running writer is sent, unless the writer is        *)
(* stopped or the connection closed.                                       *)
WriterProgress ==
  owed > 0 /\ write.handler = "writer"
    ~> owed <= 0 \/ write.handler # "writer" \/ destroyed

(* Data that arrives while a reader runs is read.                          *)
ReaderProgress ==
  sock.inq > 0 /\ read.handler = "reader"
    ~> sock.inq = 0 \/ read.handler # "reader" \/ destroyed

=============================================================================
