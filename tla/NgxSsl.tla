------------------------------- MODULE NgxSsl -------------------------------
(***************************************************************************)
(* A TLS connection (ngx_event_openssl.c): handshake, reading, buffered and *)
(* unbuffered writing, and shutdown over a socket whose events are          *)
(* edge-triggered.  The library may want to write in order to read and to   *)
(* read in order to write; a handler of the application is then put aside.  *)
(* The data to write are the numbers 1, 2, 3 and so on.                     *)
(***************************************************************************)
EXTENDS Naturals, FiniteSets, SequencesExt

CONSTANTS
    TlsChains,  \* chains the application writes: sequences of [size, flush]
    TlsTotal,   \* bound: bytes to write
    TlsBuf,     \* NGX_SSL_BUFSIZE
    TlsLimit,   \* the limit of a send
    TlsSize,    \* the size of a read
    TlsIn,      \* bound: bytes the peer sends
    TlsWants    \* bound: times the library wants the other direction, or fails

VARIABLES
    tls,        \* the connection: c, c->ssl, c->read and c->write
    peer,       \* the socket and the library
    tlsOut      \* bytes the library took

tlsvars == <<tls, peer, tlsOut>>

NoRetry == [from |-> 0, len |-> 0]

TlsInit ==
    /\ \E buffer \in BOOLEAN :
         tls = [phase |-> "handshake", buffer |-> buffer,
                rh |-> "handshake", wh |-> "handshake",     \* c->read->handler, c->write->handler
                savedR |-> "", savedW |-> "",               \* saved_read_handler, saved_write_handler
                ready |-> FALSE,                            \* c->read->ready
                last |-> "ok", told |-> FALSE,              \* c->ssl->last; end or error was returned
                call |-> "", bytes |-> 0, flush |-> FALSE, sent |-> 0,     \* the call in progress
                chain |-> <<>>,                             \* buffers [pos, last, flush]
                next |-> 0,                                 \* bytes the application wrote
                buf |-> <<>>, pos |-> 0,                    \* c->ssl->buf
                buffered |-> FALSE,                         \* c->buffered & NGX_SSL_BUFFERED
                nowait |-> FALSE, timer |-> FALSE,
                waitR |-> "no", waitW |-> "no"]             \* what the application's calls wait for
    /\ peer = [in |-> 0, sent |-> 0, closed |-> FALSE, edge |-> FALSE, full |-> FALSE,
               wants |-> 0, retry |-> NoRetry, kept |-> TRUE]
    /\ tlsOut = <<>>

MayWant == peer.wants < TlsWants
Wanted == [peer EXCEPT !.wants = @ + 1]
WantsWrite == [peer EXCEPT !.wants = @ + 1, !.full = TRUE]

-----------------------------------------------------------------------------
(* ngx_ssl_handshake and its handler: both events lead to it until it is done; *)
(* then c->ssl->handler gives both events to the application.                  *)
Handshake ==
    /\ tls.phase = "handshake"
    /\ \/ tls' = [tls EXCEPT !.phase = "open", !.rh = "app", !.wh = "app", !.ready = TRUE]
       \/ tls' = [tls EXCEPT !.phase = "end", !.nowait = TRUE]
    /\ UNCHANGED <<peer, tlsOut>>

-----------------------------------------------------------------------------
(* ngx_ssl_recv: what SSL_read says after some data is remembered in           *)
(* c->ssl->last and told by the next call.  The application reads only in its   *)
(* read handler and writes only in its write handler.                           *)
EndTold(t) == [t EXCEPT !.call = "", !.told = TRUE, !.waitR = "no",
                     !.ready = @ /\ t.last # "done"]
SslRecv ==
    /\ tls.phase = "open" /\ tls.call = "" /\ tls.rh = "app" /\ ~tls.told
    /\ tls.ready \/ tls.waitR = "posted"
    /\ tls' = IF tls.last \in {"error", "done"} THEN EndTold(tls)
              ELSE [tls EXCEPT !.call = "recv", !.bytes = 0, !.waitR = "no"]
    /\ UNCHANGED <<peer, tlsOut>>

(* The end of the loop, and ngx_ssl_recv_chain, which keeps the event ready. *)
FaultReturnBytes(t) == [t EXCEPT !.call = "", !.ready = FALSE]
ReturnBytes(t) == [t EXCEPT !.call = ""]
RecvEnds(t) ==
    IF t.bytes > 0 THEN ReturnBytes(t)
    ELSE IF t.last = "again" THEN [t EXCEPT !.call = ""] ELSE EndTold(t)

(* ngx_ssl_handle_recv.  With data, the write handler that was put aside is     *)
(* put back and posted.                                                         *)
RestoreW(t) ==
    IF t.savedW = "" THEN t
    ELSE [t EXCEPT !.wh = t.savedW, !.savedW = "", !.waitW = IF @ = "no" THEN @ ELSE "posted"]
ReadData ==
    /\ tls.call = "recv" /\ peer.in > 0
    /\ LET t == [RestoreW(tls) EXCEPT !.last = "ok", !.bytes = @ + 1]
       IN  tls' = IF t.bytes = TlsSize THEN ReturnBytes(t) ELSE t
    /\ peer' = [peer EXCEPT !.in = @ - 1]
    /\ UNCHANGED tlsOut
ReadWantsRead ==
    /\ tls.call = "recv" /\ peer.in = 0 /\ ~peer.closed
    /\ tls' = RecvEnds([tls EXCEPT !.ready = FALSE, !.last = "again", !.waitR = "read"])
    /\ UNCHANGED <<peer, tlsOut>>
ReadWantsWrite ==
    /\ tls.call = "recv" /\ MayWant
    /\ tls' = RecvEnds([tls EXCEPT !.last = "again", !.waitR = "write",
                                   !.savedW = IF @ = "" THEN tls.wh ELSE @,
                                   !.wh = "ssl_write_handler"])
    /\ peer' = WantsWrite
    /\ UNCHANGED tlsOut
ReadEnds ==
    /\ tls.call = "recv"
    /\ \/ /\ peer.in = 0 /\ peer.closed
          /\ tls' = RecvEnds([tls EXCEPT !.nowait = TRUE, !.last = "done"])
          /\ UNCHANGED peer
       \/ /\ MayWant
          /\ tls' = RecvEnds([tls EXCEPT !.nowait = TRUE, !.last = "error"])
          /\ peer' = Wanted
    /\ UNCHANGED tlsOut

-----------------------------------------------------------------------------
(* ngx_ssl_send_chain: called with new data, or to go on with the old. *)
Chain(bufs, at) ==
    [i \in 1..Len(bufs) |->
        LET from == at + FoldLeft(LAMBDA x, b : x + b.size, 0, SubSeq(bufs, 1, i - 1))
        IN  [pos |-> from, last |-> from + bufs[i].size, flush |-> bufs[i].flush]]
MaySend == tls.phase = "open" /\ tls.call = "" /\ tls.wh = "app"

SendChain ==
    /\ MaySend
    /\ \/ /\ tls.waitW = "no"
          /\ \E bufs \in TlsChains :
                LET size == FoldLeft(LAMBDA x, b : x + b.size, 0, bufs)
                IN  /\ tls.next + size <= TlsTotal
                    /\ tls' = [tls EXCEPT !.call = "send", !.next = @ + size, !.sent = 0,
                                          !.chain = @ \o Chain(bufs, tls.next), !.flush = FALSE]
       \/ /\ tls.waitW = "posted" \/ (tls.waitW = "no" /\ (tls.buffered \/ tls.chain # <<>>))
          /\ tls' = [tls EXCEPT !.call = "send", !.sent = 0, !.waitW = "no",
                                !.flush = tls.chain = <<>>]
    /\ UNCHANGED <<peer, tlsOut>>

(* The loop that fills c->ssl->buf from the chain: [chain, buf, flush, sent]. *)
Emptied(b) == b.pos = b.last
FillOne(x) ==
    LET b == Head(x.chain)
        room == TlsBuf - Len(x.buf)
        left == b.last - b.pos
        n1 == IF left > room THEN room ELSE left
        cut == x.sent + n1 > TlsLimit
        n == IF cut THEN TlsLimit - x.sent ELSE n1
        c == [b EXCEPT !.pos = @ + n]
    IN  [chain |-> IF Emptied(c) THEN Tail(x.chain) ELSE <<c>> \o Tail(x.chain),
         buf |-> x.buf \o [i \in 1..n |-> b.pos + i],
         flush |-> x.flush \/ b.flush \/ cut, sent |-> x.sent + n]
FillTurn(x, i) ==
    IF x.chain # <<>> /\ Len(x.buf) < TlsBuf /\ x.sent < TlsLimit THEN FillOne(x) ELSE x
Filled(t) ==
    FoldLeft(FillTurn, [chain |-> t.chain, buf |-> t.buf, flush |-> t.flush, sent |-> t.sent],
             [i \in 1..(Len(t.chain) + 1) |-> i])

(* What is given to SSL_write next. *)
Offered(t) ==
    IF t.buffer THEN SubSeq(t.buf, t.pos + 1, Len(t.buf))
    ELSE LET b == Head(t.chain) IN [i \in 1..(b.last - b.pos) |-> b.pos + i]

(* The end of a call: something is left in the buffer, or nothing. *)
SendEnds(t) == [t EXCEPT !.call = "", !.buffered = IF t.buffer THEN t.pos < Len(t.buf) ELSE @]
(* A buffer that is not full is kept unless it is to be flushed. *)
Keeps(t) == ~t.flush /\ Len(t.buf) < TlsBuf

SendFill ==
    /\ tls.call = "send"
    /\ tls' = IF tls.buffer
              THEN LET x == Filled(tls)
                       t == [tls EXCEPT !.chain = x.chain, !.buf = x.buf, !.flush = x.flush, !.sent = x.sent]
                   IN  IF Keeps(t) THEN SendEnds(t) ELSE [t EXCEPT !.call = "write"]
              ELSE IF tls.chain = <<>> THEN SendEnds(tls)
              ELSE IF Emptied(Head(tls.chain)) THEN [tls EXCEPT !.chain = Tail(@)]     \* special
              ELSE [tls EXCEPT !.call = "write"]
    /\ UNCHANGED <<peer, tlsOut>>

(* ngx_ssl_write.  The library insists that a write it could not do is          *)
(* repeated with the same data, and not less of it.                             *)
Repeats(data) ==
    \/ peer.retry = NoRetry
    \/ Len(data) >= peer.retry.len /\ data[1] = peer.retry.from
Tried(p, data) ==
    [p EXCEPT !.kept = @ /\ Repeats(data), !.retry = [from |-> data[1], len |-> Len(data)]]

RestoreR(t) ==          \* the read handler that was put aside is put back and posted
    IF t.savedR = "" THEN t
    ELSE [t EXCEPT !.rh = t.savedR, !.savedR = "", !.ready = TRUE]

FaultTookSome(t, n) == [t EXCEPT !.pos = 0, !.buf = <<>>]
TookSome(t, n) ==
    IF t.pos + n = Len(t.buf) THEN [t EXCEPT !.pos = 0, !.buf = <<>>] ELSE [t EXCEPT !.pos = @ + n]
Took(t, n) ==
    IF ~t.buffer
    THEN LET c == [Head(t.chain) EXCEPT !.pos = @ + n]
         IN  [t EXCEPT !.call = "send", !.chain = IF Emptied(c) THEN Tail(@) ELSE <<c>> \o Tail(@)]
    ELSE LET size == Len(t.buf) - t.pos
             u == TookSome(t, n)
         IN  IF n < size \/ t.chain = <<>> \/ t.sent = TlsLimit THEN SendEnds(u)
             ELSE [u EXCEPT !.call = "send"]

WriteTakes ==
    /\ tls.call = "write"
    /\ LET data == Offered(tls)
       IN  \E n \in {1, Len(data)} \cap (1..Len(data)) :
               /\ tls' = Took(RestoreR(tls), n)
               /\ peer' = [Tried(peer, data) EXCEPT !.retry = NoRetry]
               /\ tlsOut' = tlsOut \o SubSeq(data, 1, n)
WriteWants ==
    /\ tls.call = "write" /\ MayWant /\ Offered(tls) # <<>>
    /\ tls.last # "error"               \* else the library fails again
    /\ \/ /\ tls' = [tls EXCEPT !.call = "", !.buffered = TRUE, !.waitW = "write"]
          /\ peer' = Tried(WantsWrite, Offered(tls))
       \/ /\ ~peer.closed
          /\ tls' = [tls EXCEPT !.call = "", !.buffered = TRUE, !.waitW = "read", !.ready = FALSE,
                                !.savedR = IF @ = "" THEN tls.rh ELSE @,
                                !.rh = "ssl_read_handler"]
          /\ peer' = Tried(Wanted, Offered(tls))
    /\ UNCHANGED tlsOut
WriteFails ==           \* SSL_write of nothing always fails
    /\ tls.call = "write"
    /\ \/ MayWant /\ peer' = Wanted
       \/ Offered(tls) = <<>> /\ UNCHANGED peer
    /\ tls' = [tls EXCEPT !.call = "", !.phase = "end", !.nowait = TRUE]
    /\ UNCHANGED tlsOut

-----------------------------------------------------------------------------
(* ngx_ssl_shutdown and its handler: SSL_free once, and then the handler. *)
Shutdown ==
    /\ tls.phase \in {"open", "end", "shutdown"} /\ tls.call = ""
    /\ \/ tls' = [tls EXCEPT !.phase = "freed", !.timer = FALSE]
       \/ /\ tls.phase # "shutdown" /\ ~tls.nowait
          /\ tls' = [tls EXCEPT !.phase = "shutdown", !.rh = "shutdown", !.wh = "shutdown", !.timer = TRUE]
    /\ UNCHANGED <<peer, tlsOut>>

(* Events of the socket: ngx_ssl_read_handler calls the handler of writing,     *)
(* ngx_ssl_write_handler that of reading.                                       *)
Runs(t, h) ==
    CASE h = "app read" -> [t EXCEPT !.waitR = IF @ = "no" THEN @ ELSE "posted"]
      [] h = "app write" -> [t EXCEPT !.waitW = IF @ = "no" THEN @ ELSE "posted"]
      [] OTHER -> t
OnRead(t) == IF t.rh = "app" THEN "app read"
             ELSE IF t.rh = "ssl_read_handler" /\ t.wh = "app" THEN "app write" ELSE t.rh
OnWrite(t) == IF t.wh = "app" THEN "app write"
              ELSE IF t.wh = "ssl_write_handler" /\ t.rh = "app" THEN "app read" ELSE t.wh

ReadEvent ==
    /\ tls.phase = "open" /\ tls.call = "" /\ peer.edge
    /\ tls' = [Runs(tls, OnRead(tls)) EXCEPT !.ready = TRUE]
    /\ peer' = [peer EXCEPT !.edge = FALSE]
    /\ UNCHANGED tlsOut
WriteEvent ==
    /\ tls.phase = "open" /\ tls.call = "" /\ peer.full
    /\ tls' = Runs(tls, OnWrite(tls))
    /\ peer' = [peer EXCEPT !.full = FALSE]
    /\ UNCHANGED tlsOut
PeerSends ==
    /\ ~peer.closed /\ peer.sent < TlsIn
    /\ peer' = [peer EXCEPT !.in = @ + 1, !.sent = @ + 1, !.edge = TRUE]
    /\ UNCHANGED <<tls, tlsOut>>
PeerCloses ==
    /\ ~peer.closed
    /\ peer' = [peer EXCEPT !.closed = TRUE, !.edge = TRUE]
    /\ UNCHANGED <<tls, tlsOut>>

TlsNext ==
    \/ Handshake \/ SslRecv \/ ReadData \/ ReadWantsRead \/ ReadWantsWrite \/ ReadEnds
    \/ SendChain \/ SendFill \/ WriteTakes \/ WriteWants \/ WriteFails
    \/ Shutdown \/ ReadEvent \/ WriteEvent \/ PeerSends \/ PeerCloses

-----------------------------------------------------------------------------
(* The library gets the application's bytes in their order, a write that it     *)
(* could not do is repeated as it demands, and data that stay in the buffer are *)
(* announced in c->buffered.  An end or an error that ngx_ssl_recv keeps for     *)
(* the next call will be asked for: the event is ready, or an edge is to come.   *)
(* A call that waits for the other direction is the one that direction's event   *)
(* leads to.                                                                     *)
TlsKeepsFaith ==
    /\ \A i \in 1..Len(tlsOut) : tlsOut[i] = i
    /\ peer.kept
    /\ tls.phase = "open" /\ tls.call = "" =>
         /\ ~tls.buffered => tls.buf = <<>>
         /\ tls.last \in {"done", "error"} /\ ~tls.told =>
                tls.ready \/ peer.edge \/ tls.waitR = "posted"
         /\ tls.waitR = "write" => OnWrite(tls) = "app read"
         /\ tls.waitW = "read" => OnRead(tls) = "app write"
=============================================================================
