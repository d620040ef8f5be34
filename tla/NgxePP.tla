------------------------------- MODULE NgxePP -------------------------------
(***************************************************************************)
(* The pure-Perl engine (lib/Nginx/Engine/PP.pm): ngxe_loop around select(),  *)
(* which walks over %FDSET and calls back; the callbacks call the API, which  *)
(* may write and call back at once, close connections and open others, whose  *)
(* descriptor may be one that was just closed.                                *)
(***************************************************************************)
EXTENDS Integers, Sequences, FiniteSets

CONSTANTS
    PpFds,          \* descriptors, the listening socket's included
    PpListener,     \* the listening socket's, or 0
    PpMaxConns,     \* bound: connections made
    PpMaxPut,       \* bound: bytes in the write buffer
    PpMaxCalls,     \* bound: calls in a callback
    PpMaxDepth,     \* bound: callbacks inside callbacks
    PpApi           \* the calls the application makes in its callbacks

VARIABLE eng
ppvars == eng

(* A connection: its descriptor (0 when closed), its reader and its writer,   *)
(* the write buffer and how much of it is sent (CN_WOFF).                     *)
Conns == 1..PpMaxConns
NoSecond == [c |-> 0, fd |-> 0, wev |-> "none"]
NoConn == [fd |-> 0, rev |-> "none", wev |-> "none", wbuf |-> 0, woff |-> 0]

PpInit ==
    eng = [conn |-> [c \in Conns |-> IF c = 1 THEN [NoConn EXCEPT !.fd = PpListener, !.rev = "accept"]
                                    ELSE NoConn],
          made |-> 1,                                       \* connections made so far
          fdset |-> [f \in PpFds |-> IF f = PpListener THEN 1 ELSE 0],  \* %FDSET
          rin |-> {PpListener}, win |-> {}, rout |-> {}, wout |-> {},
          todo |-> {},              \* what "each %FDSET" has still to give
          second |-> NoSecond,      \* the rest of the loop's body
          stack |-> <<>>,           \* callbacks in progress
          died |-> FALSE]           \* ngxe_loop ended with die

TopCall == eng.stack[Len(eng.stack)]
Popped(st) == [st EXCEPT !.stack = SubSeq(@, 1, Len(@) - 1)]
Callback(st, c, after) == [st EXCEPT !.stack = Append(@, [c |-> c, after |-> after, calls |-> 0])]


(* die, out of ngxe_loop: nothing of the state matters any more. *)
Died == [conn |-> [c \in Conns |-> NoConn], made |-> 1, fdset |-> [f \in PpFds |-> 0],
         rin |-> {}, win |-> {}, rout |-> {}, wout |-> {}, todo |-> {}, second |-> NoSecond,
         stack |-> <<>>, died |-> TRUE]

-----------------------------------------------------------------------------
(* ngxe_close: the descriptor leaves the vectors and %FDSET. *)
Without(v, f) == v \ {f}
FaultLeft(st, f) == [st EXCEPT !.rin = Without(@, f), !.win = Without(@, f), !.wout = Without(@, f)]
CloseLeft(st, f) == [st EXCEPT !.rin = Without(@, f), !.win = Without(@, f),
                               !.rout = Without(@, f), !.wout = Without(@, f)]
NgxeClose(st, c) ==
    LET f == st.conn[c].fd IN
    IF f = 0 THEN st
    ELSE [CloseLeft(st, f) EXCEPT !.fdset[f] = 0, !.conn[c] = NoConn, !.todo = Without(@, f)]

(* The four that start and stop. *)
ReaderStart(st, c) ==
    LET f == st.conn[c].fd IN [st EXCEPT !.rin = @ \cup {f}, !.rout = Without(@, f)]
ReaderStop(st, c) ==
    LET f == st.conn[c].fd IN [st EXCEPT !.rin = Without(@, f), !.rout = Without(@, f)]
WriterStop(st, c) ==
    LET f == st.conn[c].fd IN [st EXCEPT !.win = Without(@, f), !.wout = Without(@, f)]
WriterStopReaderStart(st, c) == WriterStop(ReaderStart(st, c), c)

(* _write, for a write buffer that is a string: all of it and the callback,   *)
(* part of it, or an error and the callback.  A closed connection has none.   *)
WbufEmptied(st, c) == [st EXCEPT !.conn[c].wbuf = 0, !.conn[c].woff = 0]
Write1(st, c) ==
    IF st.conn[c].fd = 0 THEN {Died}
    ELSE {Callback(WbufEmptied(st, c), c, "sent"), Callback(WbufEmptied(st, c), c, "write error")}
           \cup {[st EXCEPT !.conn[c].woff = n] : n \in st.conn[c].woff..(st.conn[c].wbuf - 1)}
WriterStart(st, c) ==
    LET f == st.conn[c].fd IN
    Write1([st EXCEPT !.win = @ \cup {f}, !.wout = @ \cup {f}], c)

(* A new connection on the lowest free descriptor; a key that is added while  *)
(* %FDSET is walked over may be given by "each" or not.                       *)
FreeFds1(st) == {f \in PpFds : st.fdset[f] = 0}
NewConn(st, c, f) == [st EXCEPT !.conn[c] = [NoConn EXCEPT !.fd = f], !.made = c, !.fdset[f] = c]
Opened1(st) ==
    UNION {{NewConn(st, st.made + 1, f), [NewConn(st, st.made + 1, f) EXCEPT !.todo = @ \cup {f}]}
             : f \in {x \in FreeFds1(st) : st.made < PpMaxConns /\ \A y \in FreeFds1(st) : x <= y}}

(* _connect: still in progress, or done, and the callback. *)
Connect(st, c) ==
    {st} \cup {Callback([st EXCEPT !.win = Without(@, st.conn[c].fd)], c, a)
                 : a \in {"connected", "connect error"}}
NgxeClient(st) ==
    UNION {Connect([s EXCEPT !.conn[s.made].wev = "connect",
                             !.win = @ \cup {s.conn[s.made].fd},
                             !.wout = @ \cup {s.conn[s.made].fd}], s.made) : s \in Opened1(st)}

(* _accept: as long as there is one, its callback. *)
Accept1(st) ==
    {st} \cup (IF st.conn[1].fd = 0 THEN {} ELSE {Callback(s, s.made, "accepted") : s \in Opened1(st)})

(* _read: nothing; data; data and then an error or the end; these alone. *)
Read1(st, c) ==
    {st} \cup {Callback(st, c, a) : a \in {"data", "data, then error", "read error"}}

-----------------------------------------------------------------------------
(* What follows when a callback returns. *)
AfterData(st, c) ==
    LET f == st.conn[c].fd IN
    IF f = 0 \/ f \notin st.rin THEN {st}
    ELSE IF f \in st.rout /\ st.conn[c].wbuf > 0
    THEN WriterStart(ReaderStop([st EXCEPT !.conn[c].woff = 0], c), c)
    ELSE {st}
After(st, c, after) ==
    CASE after = "data" -> AfterData(st, c)
      [] after = "data, then error" ->
            IF st.conn[c].fd = 0 \/ st.conn[c].fd \notin st.rin THEN {st}
            ELSE {Callback(st, c, "read error")}
      [] after \in {"read error", "write error", "connect error", "timed out"} -> {NgxeClose(st, c)}
      [] after = "sent" -> IF st.conn[c].fd = 0 THEN {st} ELSE {WriterStopReaderStart(st, c)}
      [] after = "accepted" -> Accept1(st)
      [] after = "connected" -> {st}

CallbackReturns == eng.stack # <<>> /\ ~eng.died /\ eng' \in After(Popped(eng), TopCall.c, TopCall.after)

(* The API, on the connection of the callback or another open one.            *)
Made(st, c, e) == IF e = "read" THEN [st EXCEPT !.conn[c].rev = "read", !.conn[c].woff = 0]
                  ELSE [st EXCEPT !.conn[c].wev = "write", !.conn[c].woff = 0]
ApiCall(st, c, call) ==
    CASE call = "ngxe_close" -> {NgxeClose(st, c)}
      [] call = "ngxe_reader" -> {ReaderStart(Made(st, c, "read"), c)}
      [] call = "ngxe_writer" -> {[Made(st, c, "write") EXCEPT !.conn[c].wbuf = n] : n \in 0..PpMaxPut}
      [] call = "ngxe_writer, NXSTART" ->
            UNION {WriterStart([Made(st, c, "write") EXCEPT !.conn[c].wbuf = n], c) : n \in 0..PpMaxPut}
      [] call = "ngxe_reader_stop" -> {ReaderStop(st, c)}
      [] call = "ngxe_writer_stop" -> {WriterStop(st, c)}
      [] call = "$_[3]" -> {[st EXCEPT !.conn[c].wbuf = n] : n \in 0..PpMaxPut}
      [] call = "ngxe_writer_put" ->
            UNION {WriterStart([st EXCEPT !.conn[c].wbuf = n], c) : n \in 0..PpMaxPut}
      [] call = "ngxe_client" -> NgxeClient(st)
Sensible(c, call) ==
    /\ call = "ngxe_client" \/ eng.conn[c].fd # 0
    /\ call = "ngxe_reader_stop" => eng.conn[c].rev # "none"
    /\ call \in {"ngxe_writer_put", "ngxe_writer_stop"} => eng.conn[c].wev = "write"
    /\ call = "$_[3]" => c = TopCall.c /\ eng.conn[c].wev = "write" /\ TopCall.after \in {"data", "data, then error", "sent"}
    /\ call \in {"ngxe_reader", "ngxe_writer", "ngxe_writer, NXSTART"} => eng.conn[c].rev # "accept"
    /\ call = "ngxe_client" => c = TopCall.c
Api(call) ==
    /\ eng.stack # <<>> /\ ~eng.died /\ TopCall.calls < PpMaxCalls /\ Len(eng.stack) < PpMaxDepth
    /\ \E c \in Conns :
          /\ Sensible(c, call)
          /\ eng' \in ApiCall([eng EXCEPT !.stack[Len(eng.stack)].calls = @ + 1], c, call)

-----------------------------------------------------------------------------
(* ngxe_loop: select, then for each connection of %FDSET the read side, and   *)
(* the write side of the connection and the writer that were looked up first. *)
AtLoop == eng.stack = <<>> /\ ~eng.died
Select ==
    /\ AtLoop /\ eng.todo = {} /\ eng.second = NoSecond
    /\ \E r \in SUBSET eng.rin : \E w \in SUBSET eng.win :
          eng' = [eng EXCEPT !.rout = r, !.wout = w, !.todo = {f \in PpFds : eng.fdset[f] # 0}]
ReadSide(st, c, f) ==
    IF f \in st.rout /\ st.conn[c].rev # "none"
    THEN IF st.conn[c].rev = "accept" THEN Accept1(st) ELSE Read1(st, c)
    ELSE {st} \cup (IF f \in st.rin /\ st.conn[c].rev = "read"
                    THEN {[Callback(st, c, "timed out") EXCEPT !.second = NoSecond]} ELSE {})
EachConn ==
    /\ AtLoop /\ eng.second = NoSecond
    /\ \E f \in eng.todo :
          LET c == eng.fdset[f] IN
          eng' \in ReadSide([eng EXCEPT !.todo = Without(@, f),
                                      !.second = [c |-> c, fd |-> f, wev |-> eng.conn[c].wev]], c, f)
WriteSide ==
    /\ AtLoop /\ eng.second # NoSecond
    /\ LET s == eng.second
           st == [eng EXCEPT !.second = NoSecond] IN
       IF s.fd \in st.wout /\ s.wev # "none"
       THEN eng' \in (IF s.wev = "write" THEN Write1(st, s.c)
                     ELSE IF st.conn[s.c].fd = 0 THEN {Died} ELSE Connect(st, s.c))
       ELSE eng' \in {st} \cup (IF s.fd \in st.win /\ s.wev # "none"
                               THEN {Callback(st, s.c, "timed out")} ELSE {})

PpNext == CallbackReturns \/ (\E call \in PpApi : Api(call)) \/ Select \/ EachConn \/ WriteSide
PpSpec == PpInit /\ [][PpNext]_ppvars

-----------------------------------------------------------------------------
(* What select and the walk over %FDSET look at belongs to an open            *)
(* connection, and a callback begins for an open connection only, whatever    *)
(* the callbacks before it closed and opened.                                 *)
OnlyOpenWatched ==
    /\ \A f \in PpFds : eng.fdset[f] # 0 => eng.conn[eng.fdset[f]].fd = f
    /\ \A f \in eng.rin \cup eng.win \cup eng.rout \cup eng.wout \cup eng.todo : eng.fdset[f] # 0
    /\ AtLoop \/ eng.died \/ TopCall.calls > 0 \/ eng.conn[TopCall.c].fd # 0

(* "Destroys reader, writer, closes socket and removes connection from the    *)
(* loop" (Engine.pm on ngxe_close): the loop does not go on with a closed one. *)
RemovedFromLoop == ~eng.died

(* "You can modify it inside the callback and writer will send it again"      *)
(* (Engine.pm on the write buffer): what is in the buffer is being sent when  *)
(* the loop waits.                                                            *)
WriterSendsAgain ==
    AtLoop /\ eng.todo = {} /\ eng.second = NoSecond =>
        \A c \in Conns : eng.conn[c].wev = "write" /\ eng.conn[c].wbuf > 0 => eng.conn[c].fd \in eng.win
=============================================================================
