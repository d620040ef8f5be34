------------------------ MODULE NgxeConnectionProofs ------------------------
(***************************************************************************)
(* Safety of NgxeConnection for every value of its constants: every role,  *)
(* every set of calls and of liberties the application takes, every size   *)
(* of buffers and any depth of nesting.                                    *)
(***************************************************************************)
EXTENDS NgxeConnection, SequenceTheorems, WellFoundedInduction, TLAPS

-----------------------------------------------------------------------------
(* The inductive invariant. *)

(* Frames below which a call can be in progress without an error callback. *)
WaitingPcs == OkPcs \cup {"recvd", "sent", "epollout"}

WriterKinds == {"pv", "ref", "av"}

(* A frame of its own says what it is about. *)
FrameOK(f) == f.pc \in {"send", "sent"} => f.kind \in WriterKinds

Frames(stk) == {stk[i] : i \in 1 .. Len(stk)}

(* The shape of the stack.  Only waiting frames have something above them, *)
(* except that ngxe_close() waits for an error callback; the EPOLLOUT half *)
(* is at the bottom; the reader is called by the event loop only.          *)
StackOK(stk) ==
  /\ stk \in Seq(Frame)
  /\ \A i \in 1 .. Len(stk) :
       /\ FrameOK(stk[i])
       /\ i < Len(stk) => \/ stk[i].pc \in WaitingPcs
                          \/ /\ stk[i].pc = "close" /\ i = Len(stk) - 1
                             /\ stk[Len(stk)].pc \in ErrorPcs
       /\ stk[i].pc = "epollout" => i = 1
       /\ stk[i].pc \in ReaderPcs => \/ i = 1
                                     \/ i = 2 /\ stk[1].pc = "epollout"

(* The innermost call, if any, can be resumed or can call others. *)
Resumable(stk) == stk # <<>> => stk[Len(stk)].pc \in WaitingPcs

(* The innermost call is ngxe_close() after an error callback. *)
Interrupted(stk) == stk # <<>> /\ stk[Len(stk)].pc = "close"

BufferOK(b) ==
  b.kind \in {"pv", "ref"} => Len(b.segs) = 1 /\ b.segs[1] \in Nat

(* A frame about to call send(): what it sends is there. *)
SendOK ==
  At("send") =>
    /\ Top.kind = s.writer_buffer.kind
    /\ Top.kind = "av" => s.writer_index < Len(s.writer_buffer.segs)
    /\ SendSize(Top.kind) \in Nat \ {0}

(* While the SCALARREF writer waits for its callback, a nested writer      *)
(* leaves a nonzero offset only when the socket took no more.              *)
OffsetOK ==
  (\E f \in Frames(stack) : f.pc = "sent" /\ f.kind = "ref") /\ write.ready
    => s.writer_offset = 0

ReadyOK ==
  /\ At("reader") => read.ready \/ read.timedout
  /\ (\E f \in Frames(stack) : f.pc \in {"recv", "recvd"}) /\ ~destroyed
       => read.ready

ClosedOK ==
  destroyed => /\ ~read.timer /\ ~write.timer /\ ~read.active /\ ~write.active
               /\ sock.state = "closed" /\ ~sock.rdl
               /\ Resumable(stack)

IInv ==
  /\ TypeOK
  /\ read.handler # "writer" /\ write.handler # "reader"
  /\ BufferOK(s.writer_buffer)
  /\ StackOK(stack)
  /\ SendOK
  /\ OffsetOK
  /\ ReadyOK
  /\ ClosedOK

-----------------------------------------------------------------------------
(* Facts about the stack. *)

(* A nonempty set of naturals has a least element: NEXTBUF finds one. *)
LEMMA LeastNatural ==
  ASSUME NEW T \in SUBSET Nat, T # {}
  PROVE  \E j \in T : \A k \in T : j <= k
<1>1. IsWellFoundedOn(OpToRel(<, Nat), Nat)
  BY NatLessThanWellFounded, Zenon
<1>2. \E x \in T : \A y \in T : <<y, x>> \notin OpToRel(<, Nat)
  BY <1>1, WFMin, Zenon
<1>3. ASSUME NEW x \in Nat, NEW y \in Nat, y < x
      PROVE  <<y, x>> \in OpToRel(<, Nat)
  BY <1>3, Zenon DEF OpToRel
<1>4. \E x \in T : \A y \in T : ~(y < x)
  BY <1>2, <1>3, Zenon
<1> QED
  BY <1>4

(* Returning from a call: the caller's frames keep their shape, and unless *)
(* an error callback returned, the caller can be resumed.                  *)
LEMMA Pop ==
  ASSUME NEW stk, StackOK(stk), stk # <<>>
  PROVE  LET rest == SubSeq(stk, 1, Len(stk) - 1)
         IN /\ StackOK(rest)
            /\ Len(rest) = Len(stk) - 1
            /\ Frames(rest) \subseteq Frames(stk)
            /\ stk[Len(stk)].pc \notin ErrorPcs => Resumable(rest)
            /\ Resumable(rest) \/ Interrupted(rest)
            /\ stk[Len(stk)] \in Frame /\ FrameOK(stk[Len(stk)])
<1> DEFINE rest == SubSeq(stk, 1, Len(stk) - 1)
<1>1. stk \in Seq(Frame) /\ Len(stk) \in Nat \ {0}
  BY DEF StackOK
<1>2. /\ rest \in Seq(Frame)
      /\ Len(rest) = Len(stk) - 1
      /\ \A i \in 1 .. Len(rest) : rest[i] = stk[i]
  <2> DEFINE n == Len(stk) - 1
  <2>1. n \in Nat /\ \A i \in 1 .. n : stk[i] \in Frame
    BY <1>1
  <2>2. /\ SubSeq(stk, 1, n) \in Seq(Frame)
        /\ Len(SubSeq(stk, 1, n)) = IF 1 <= n THEN n - 1 + 1 ELSE 0
        /\ \A i \in 1 .. n - 1 + 1 : SubSeq(stk, 1, n)[i] = stk[1 + i - 1]
    <3> HIDE DEF n
    <3> QED
      BY <2>1, SubSeqProperties
  <2>3. rest = SubSeq(stk, 1, n) /\ n = Len(stk) - 1
    OBVIOUS
  <2> HIDE DEF rest, n
  <2>4. Len(rest) = n
    BY <2>1, <2>2, <2>3
  <2>5. ASSUME NEW i \in 1 .. Len(rest) PROVE rest[i] = stk[i]
    <3>1. i \in 1 .. n - 1 + 1 /\ 1 + i - 1 = i
      BY <2>1, <2>4
    <3> QED
      BY <2>2, <2>3, <3>1
  <2> QED
    BY <2>2, <2>3, <2>4, <2>5
<1>3. StackOK(rest)
  BY <1>1, <1>2 DEF StackOK, WaitingPcs, OkPcs, ErrorPcs, ReaderPcs
<1>4. Frames(rest) \subseteq Frames(stk)
  BY <1>1, <1>2 DEF Frames
<1>5. /\ stk[Len(stk)].pc \notin ErrorPcs => Resumable(rest)
      /\ Resumable(rest) \/ Interrupted(rest)
  <2> SUFFICES ASSUME rest # <<>>
               PROVE  \/ rest[Len(rest)].pc \in WaitingPcs
                      \/ /\ rest[Len(rest)].pc = "close"
                         /\ stk[Len(stk)].pc \in ErrorPcs
    BY DEF Resumable, Interrupted
  <2>1. Len(rest) \in 1 .. Len(stk) /\ Len(rest) < Len(stk)
    BY <1>1, <1>2
  <2> QED
    BY <1>1, <1>2, <2>1 DEF StackOK
<1>6. stk[Len(stk)] \in Frame /\ FrameOK(stk[Len(stk)])
  BY <1>1 DEF StackOK
<1> QED
  BY <1>2, <1>3, <1>4, <1>5, <1>6

(* new is old with some calls on top, the innermost of them is top, and    *)
(* the calls are among fs.                                                 *)
Pushes(new, old, top, fs) ==
  /\ StackOK(new)
  /\ new # <<>> /\ new[Len(new)] = top
  /\ Frames(new) = Frames(old) \cup fs

(* Everything on a stack that can be resumed is waiting. *)
LEMMA AllWaiting ==
  ASSUME NEW stk, StackOK(stk), Resumable(stk), NEW i \in 1 .. Len(stk)
  PROVE  stk[i].pc \in WaitingPcs
<1>1. stk \in Seq(Frame) /\ Len(stk) \in Nat /\ stk # <<>>
  BY DEF StackOK
<1>2. stk[Len(stk)].pc \in WaitingPcs /\ stk[Len(stk)].pc \notin ErrorPcs
  BY <1>1 DEF Resumable, WaitingPcs, OkPcs, ErrorPcs
<1> QED
  BY <1>1, <1>2 DEF StackOK

(* Calling something that is neither a reader nor the EPOLLOUT half. *)
LEMMA Push ==
  ASSUME NEW stk, StackOK(stk), Resumable(stk),
         NEW f \in Frame, FrameOK(f),
         f.pc \notin ReaderPcs \cup {"epollout"}
  PROVE  Pushes(Append(stk, f), stk, f, {f})
<1> DEFINE new == Append(stk, f)
<1>1. stk \in Seq(Frame) /\ Len(stk) \in Nat
  BY DEF StackOK
<1>2. /\ new \in Seq(Frame)
      /\ Len(new) = Len(stk) + 1
      /\ \A i \in 1 .. Len(stk) : new[i] = stk[i]
      /\ new[Len(new)] = f
  BY <1>1
<1>3. \A i \in 1 .. Len(stk) : stk[i].pc \in WaitingPcs
  BY AllWaiting
<1> HIDE DEF new
<1>4. StackOK(new)
  BY <1>1, <1>2, <1>3 DEF StackOK
<1>5. Frames(new) = Frames(stk) \cup {f}
  BY <1>1, <1>2 DEF Frames
<1> QED
  BY <1>1, <1>2, <1>4, <1>5 DEF new, Pushes

(* A handler that waits for a callback, or ngxe_close() for an error       *)
(* callback.                                                               *)
LEMMA PushCallback ==
  ASSUME NEW stk, StackOK(stk), Resumable(stk),
         NEW f \in Frame, FrameOK(f), NEW g \in Frame, FrameOK(g),
         \/ f.pc = "sent" /\ g.pc \in OkPcs
         \/ f.pc = "close" /\ g.pc \in ErrorPcs
  PROVE  Pushes(stk \o <<f, g>>, stk, g, {f, g})
<1> DEFINE new == stk \o <<f, g>>
<1>1. stk \in Seq(Frame) /\ Len(stk) \in Nat
  BY DEF StackOK
<1>2. /\ new \in Seq(Frame)
      /\ Len(new) = Len(stk) + 2
      /\ \A i \in 1 .. Len(stk) : new[i] = stk[i]
      /\ new[Len(stk) + 1] = f
      /\ new[Len(stk) + 2] = g
  BY <1>1
<1>3. \A i \in 1 .. Len(stk) : stk[i].pc \in WaitingPcs
  BY AllWaiting
<1> HIDE DEF new
<1>4. \A i \in 1 .. Len(new) : i \in 1 .. Len(stk) \/ i = Len(stk) + 1 \/ i = Len(stk) + 2
  BY <1>1, <1>2
<1>5. StackOK(new)
  BY <1>1, <1>2, <1>3, <1>4
     DEF StackOK, WaitingPcs, OkPcs, ErrorPcs, ReaderPcs
<1>6. Frames(new) = Frames(stk) \cup {f, g}
  BY <1>1, <1>2, <1>4 DEF Frames
<1> QED
  BY <1>1, <1>2, <1>5, <1>6 DEF new, Pushes

(* The reader runs at the bottom, or above the EPOLLOUT half of its event. *)
LEMMA ReaderPosition ==
  ASSUME NEW stk, StackOK(stk), stk # <<>>, stk[Len(stk)].pc \in ReaderPcs
  PROVE  \/ Len(stk) = 1
         \/ Len(stk) = 2 /\ stk[1].pc = "epollout"
<1>1. stk \in Seq(Frame) /\ Len(stk) \in 1 .. Len(stk)
  BY DEF StackOK
<1> QED
  BY <1>1 DEF StackOK

(* The reader handler going on, with or without a callback. *)
LEMMA ReaderGoesOn ==
  ASSUME NEW stk, StackOK(stk), stk # <<>>, stk[Len(stk)].pc \in ReaderPcs,
         NEW f \in Frame, f.pc \in {"recv", "recvd"},
         NEW g \in Frame, g.pc \in OkPcs
  PROVE  LET rest == SubSeq(stk, 1, Len(stk) - 1)
         IN /\ Pushes(Append(rest, f), rest, f, {f})
            /\ f.pc = "recvd" => Pushes(rest \o <<f, g>>, rest, g, {f, g})
<1> DEFINE rest == SubSeq(stk, 1, Len(stk) - 1)
           one == Append(rest, f)
           two == rest \o <<f, g>>
<1>1. stk \in Seq(Frame) /\ Len(stk) \in Nat \ {0}
  BY DEF StackOK
<1>2. StackOK(rest) /\ Resumable(rest) /\ Len(rest) = Len(stk) - 1
  BY Pop DEF ReaderPcs, ErrorPcs
<1>3. rest \in Seq(Frame) /\ Len(rest) \in Nat
  BY <1>2 DEF StackOK
<1>4. \A i \in 1 .. Len(rest) : rest[i].pc \in WaitingPcs
  BY <1>2, AllWaiting
<1>5. Len(rest) = 0 \/ (Len(rest) = 1 /\ rest[1].pc = "epollout")
  <2>1. Len(stk) = 1 \/ (Len(stk) = 2 /\ stk[1].pc = "epollout")
    BY ReaderPosition
  <2>2. Len(stk) = 2 => rest[1] = stk[1]
    BY <1>1
  <2> QED
    BY <1>1, <1>2, <2>1, <2>2
<1> HIDE DEF rest
<1>6. /\ one \in Seq(Frame) /\ Len(one) = Len(rest) + 1
      /\ \A i \in 1 .. Len(rest) : one[i] = rest[i]
      /\ one[Len(one)] = f
  BY <1>3
<1>7. /\ two \in Seq(Frame) /\ Len(two) = Len(rest) + 2
      /\ \A i \in 1 .. Len(rest) : two[i] = rest[i]
      /\ two[Len(rest) + 1] = f
      /\ two[Len(rest) + 2] = g
  BY <1>3
<1> HIDE DEF one, two
<1>8. FrameOK(f) /\ FrameOK(g) /\ f.pc \in ReaderPcs /\ f.pc # "epollout"
      /\ g.pc \notin ReaderPcs \cup {"epollout"}
      /\ (f.pc = "recvd" => f.pc \in WaitingPcs)
  BY DEF FrameOK, ReaderPcs, OkPcs, WaitingPcs
<1>9. Pushes(one, rest, f, {f})
  <2>1. StackOK(one)
    BY <1>2, <1>3, <1>4, <1>5, <1>6, <1>8 DEF StackOK
  <2> QED
    BY <1>3, <1>6, <2>1 DEF Pushes, Frames
<1>10. ASSUME f.pc = "recvd" PROVE Pushes(two, rest, g, {f, g})
  <2>1. \A i \in 1 .. Len(two) :
          i \in 1 .. Len(rest) \/ i = Len(rest) + 1 \/ i = Len(rest) + 2
    BY <1>3, <1>7
  <2>2. StackOK(two)
    BY <1>2, <1>3, <1>4, <1>5, <1>7, <1>8, <1>10, <2>1 DEF StackOK
  <2>3. Frames(two) = Frames(rest) \cup {f, g}
    BY <1>3, <1>7, <2>1 DEF Frames
  <2> QED
    BY <1>3, <1>7, <2>2, <2>3 DEF Pushes
<1> QED
  BY <1>9, <1>10 DEF rest, one, two

(* Under the reader handler nothing else of it runs. *)
LEMMA ReaderAlone ==
  ASSUME NEW stk, StackOK(stk), stk # <<>>, stk[Len(stk)].pc \in ReaderPcs
  PROVE  \A f \in Frames(SubSeq(stk, 1, Len(stk) - 1)) : f.pc \notin ReaderPcs
<1>1. stk \in Seq(Frame) /\ Len(stk) \in Nat \ {0}
  BY DEF StackOK
<1>2. Len(stk) = 1 \/ (Len(stk) = 2 /\ stk[1].pc = "epollout")
  BY ReaderPosition
<1>3. CASE Len(stk) = 1
  <2>1. Len(SubSeq(stk, 1, Len(stk) - 1)) = 0
    BY <1>3, Pop
  <2> QED
    BY <2>1 DEF Frames
<1>4. CASE Len(stk) = 2 /\ stk[1].pc = "epollout"
  <2>1. /\ Len(SubSeq(stk, 1, Len(stk) - 1)) = 1
        /\ SubSeq(stk, 1, Len(stk) - 1)[1] = stk[1]
    BY <1>1, <1>4
  <2> QED
    BY <1>4, <2>1 DEF Frames, ReaderPcs
<1> QED
  BY <1>2, <1>3, <1>4

-----------------------------------------------------------------------------
(* What the building blocks do. *)

(* new is old, or old with a call on top that is neither about to send nor *)
(* a reader, and no handler waits for a callback that did not wait before. *)
Extends(new, old) ==
  /\ StackOK(new)
  /\ \/ new = old
     \/ new # <<>> /\ new[Len(new)].pc \notin {"send", "reader"}
  /\ \A f \in Frames(new) :
       f \in Frames(old) \/ f.pc \notin {"recv", "recvd", "sent"}

(* The frames the handlers push have the types of frames. *)
LEMMA FrameTypes ==
  ASSUME NEW cb \in 0 .. ClientCb
  PROVE  /\ \A pc \in OkPcs \cup ErrorPcs \cup CodePcs :
              F(pc) \in Frame /\ CbF(pc, cb) \in Frame
         /\ \A pc \in {"send", "sent"}, kind \in WriterKinds :
              KindF(pc, cb, kind) \in Frame /\ FrameOK(KindF(pc, cb, kind))
         /\ \A pc \in OkPcs \cup ErrorPcs \cup {"close", "writer"} :
              FrameOK(F(pc)) /\ FrameOK(CbF(pc, cb))
  BY ConnectionAssumption
     DEF F, CbF, KindF, Frame, FrameOK, WriterKinds, ClientCb,
         OkPcs, ErrorPcs, CodePcs

(* A call that changes nothing above a stack extends it trivially. *)
LEMMA Same ==
  ASSUME NEW stk, StackOK(stk)
  PROVE  Extends(stk, stk)
  BY DEF Extends

(* Reporting an error. *)
LEMMA Reports ==
  ASSUME NEW stk, StackOK(stk), Resumable(stk),
         NEW pc \in ErrorPcs, NEW cb \in 0 .. ClientCb
  PROVE  Extends(stk \o Report(pc, cb), stk)
<1>1. /\ F("close") \in Frame /\ CbF(pc, cb) \in Frame
      /\ FrameOK(F("close")) /\ FrameOK(CbF(pc, cb))
  BY FrameTypes DEF CodePcs
<1>2. F("close").pc = "close" /\ CbF(pc, cb).pc = pc
  BY DEF F, CbF
<1>3. Pushes(stk \o Report(pc, cb), stk, CbF(pc, cb), {F("close"), CbF(pc, cb)})
  BY <1>1, <1>2, PushCallback DEF Report
<1> QED
  BY <1>2, <1>3 DEF Extends, Pushes, ErrorPcs

(* ngxe_writer_start() calling the handler. *)
LEMMA CallsWriter ==
  ASSUME NEW stk, StackOK(stk), Resumable(stk)
  PROVE  Extends(stk \o <<F("writer")>>, stk)
<1>1. F("writer") \in Frame /\ FrameOK(F("writer"))
  BY FrameTypes, ConnectionAssumption DEF CodePcs, ClientCb
<1>2. F("writer").pc = "writer"
  BY DEF F
<1>3. Pushes(Append(stk, F("writer")), stk, F("writer"), {F("writer")})
  BY <1>1, <1>2, Push DEF ReaderPcs
<1>4. Append(stk, F("writer")) = stk \o <<F("writer")>>
  BY <1>1 DEF StackOK
<1>5. Extends(Append(stk, F("writer")), stk)
  BY <1>2, <1>3 DEF Extends, Pushes
<1> QED
  BY <1>4, <1>5

(* Registering an event puts the socket on the ready list at most. *)
LEMMA RepollType ==
  ASSUME NEW k \in Socket, NEW r \in Event, NEW w \in Event
  PROVE  Repoll(k, r, w) \in Socket /\ Repoll(k, r, w).state = k.state
  BY DEF Repoll, Socket

(* A registered event is an event. *)
LEMMA AddedType ==
  ASSUME NEW ev \in Event
  PROVE  /\ Added(ev) \in Event
         /\ Added(ev).handler = ev.handler /\ Added(ev).ready = ev.ready
         /\ Added(ev).timer = ev.timer /\ Added(ev).timedout = ev.timedout
  BY DEF Added, Event

(* ngxe_reader_start() leaves a read event that the loop may call. *)
LEMMA ReaderStart ==
  ASSUME TypeOK, NEW t \in BOOLEAN, NEW cb \in 0 .. ClientCb,
         NEW stk, StackOK(stk), Resumable(stk),
         ngxe_reader_start(t, cb, stk)
  PROVE  /\ read' \in Event /\ read'.handler = "reader"
         /\ read'.ready = read.ready
         /\ sock' \in Socket
         /\ Extends(stack', stk)
<1> DEFINE ev == [read EXCEPT !.handler = "reader", !.timer = t]
<1>1. ev \in Event /\ ev.handler = "reader" /\ ev.ready = read.ready
  BY DEF TypeOK, Event, Handlers
<1>2. CASE /\ read' = Added(ev)
           /\ sock' = IF NeedsAdd(read) THEN Repoll(sock, read', write) ELSE sock
           /\ Continue(stk)
  <2> HIDE DEF ev
  <2>1. read' \in Event /\ read'.handler = "reader" /\ read'.ready = read.ready
    BY <1>1, <1>2, AddedType
  <2>2. sock' \in Socket
    BY <1>2, <2>1, RepollType DEF TypeOK
  <2> QED
    BY <1>2, <2>1, <2>2, Same DEF Continue
<1>3. CASE /\ read' = [read EXCEPT !.handler = "reader", !.timer = FALSE]
           /\ Continue(stk \o Report("reader_err", cb))
           /\ UNCHANGED sock
  <2>1. read' \in Event /\ read'.handler = "reader" /\ read'.ready = read.ready
    BY <1>3 DEF TypeOK, Event, Handlers
  <2> QED
    BY <1>3, <2>1, Reports DEF Continue, TypeOK, ErrorPcs
<1> QED
  BY <1>2, <1>3 DEF ngxe_reader_start

(* ngxe_writer_start() calls the write handler, or has an error reported. *)
LEMMA WriterStart ==
  ASSUME TypeOK, NEW t \in BOOLEAN, NEW cb \in 0 .. ClientCb,
         NEW stk, StackOK(stk), Resumable(stk),
         ngxe_writer_start(t, cb, stk)
  PROVE  /\ write' \in Event /\ write'.handler = "writer"
         /\ write'.ready = write.ready
         /\ sock' \in Socket
         /\ Extends(stack', stk)
<1> DEFINE ev == [write EXCEPT !.handler = "writer", !.timer = t]
<1>1. ev \in Event /\ ev.handler = "writer" /\ ev.ready = write.ready
  BY DEF TypeOK, Event, Handlers
<1>2. CASE /\ write' = Added(ev)
           /\ sock' = IF NeedsAdd(write) THEN Repoll(sock, read, write') ELSE sock
           /\ Continue(stk \o IF write.ready THEN <<F("writer")>> ELSE <<>>)
  <2> HIDE DEF ev
  <2>1. write' \in Event /\ write'.handler = "writer" /\ write'.ready = write.ready
    BY <1>1, <1>2, AddedType
  <2>2. sock' \in Socket
    BY <1>2, <2>1, RepollType DEF TypeOK
  <2>3. stk \o <<>> = stk
    BY DEF StackOK
  <2> QED
    BY <1>2, <2>1, <2>2, <2>3, Same, CallsWriter DEF Continue
<1>3. CASE /\ write' = [write EXCEPT !.handler = "writer", !.timer = FALSE]
           /\ Continue(stk \o Report("writer_err", cb))
           /\ UNCHANGED sock
  <2>1. write' \in Event /\ write'.handler = "writer" /\ write'.ready = write.ready
    BY <1>3 DEF TypeOK, Event, Handlers
  <2> QED
    BY <1>3, <2>1, Reports DEF Continue, TypeOK, ErrorPcs
<1> QED
  BY <1>2, <1>3 DEF ngxe_writer_start

-----------------------------------------------------------------------------
(* Preservation of the inductive invariant. *)

(* An open connection after a step that calls or resumes nothing but what  *)
(* Extends allows: what is left to show is about types and the events.     *)
LEMMA Preserve ==
  ASSUME IInv, TypeOK', ~destroyed', ~destroyed,
         NEW stk, Resumable(stk) \/ Interrupted(stk),
         Frames(stk) \subseteq Frames(stack), Extends(stack', stk),
         read'.handler # "writer", write'.handler # "reader",
         BufferOK(s'.writer_buffer),
         write'.ready => write.ready /\ s'.writer_offset \in {0, s.writer_offset},
         (\E f \in Frames(stk) : f.pc \in {"recv", "recvd"}) => read'.ready
  PROVE  IInv'
<1>1. stack' # <<>> => Top'.pc \notin {"send", "reader"}
  BY DEF Extends, Resumable, Interrupted, Top, WaitingPcs, OkPcs
<1>2. StackOK(stack')
  BY DEF Extends
<1>3. SendOK'
  BY <1>1 DEF SendOK, At
<1>4. OffsetOK'
  BY DEF OffsetOK, Extends, IInv
<1>5. ReadyOK'
  BY <1>1 DEF ReadyOK, At, Extends
<1>6. ClosedOK'
  BY DEF ClosedOK
<1> QED
  BY <1>2, <1>3, <1>4, <1>5, <1>6 DEF IInv

(* A step that leaves the session, the stack and the handlers alone. *)
LEMMA PreserveSame ==
  ASSUME IInv, TypeOK', UNCHANGED <<read, write, destroyed, s, stack>>,
         destroyed => UNCHANGED sock
  PROVE  IInv'
<1>1. SendOK'
  BY DEF IInv, SendOK, At, Top, SendSize, SvCUR
<1>2. OffsetOK' /\ ReadyOK' /\ ClosedOK'
  BY DEF IInv, OffsetOK, ReadyOK, ClosedOK, At, Top
<1> QED
  BY <1>1, <1>2 DEF IInv

(* What most steps need of the constants. *)
LEMMA Constants ==
  /\ MaxRoom \in Nat \ {0} /\ MaxIn \in Nat /\ MaxCallbacks \in Nat \ {0}
  /\ Grow \in Nat \ {0} /\ BufLen \in Nat \ {0, 1}
  /\ Timeouts \subseteq BOOLEAN /\ MinLens \subseteq Nat /\ 0 \in MinLens
  BY ConnectionAssumption

(* The peer and the kernel: only the socket changes, and not a closed one. *)
LEMMA EnvironmentStep ==
  ASSUME IInv, Environment
  PROVE  IInv'
<1>1. \/ \E n \in 1 .. MaxIn : Arrive(n)
      \/ PeerClose \/ PeerReset \/ Drain \/ ConnectDone
  BY DEF Environment
<1>2. sock \in Socket /\ read \in Event /\ write \in Event
  BY DEF IInv, TypeOK
<1>3. UNCHANGED <<read, write, destroyed, s, stack, owed>>
  BY <1>1 DEF Arrive, PeerClose, PeerReset, Drain, ConnectDone
<1>4. ~destroyed
  BY <1>1 DEF IInv, ClosedOK, Arrive, PeerClose, PeerReset, Drain, ConnectDone
<1>5. sock' \in Socket
  <2>1. CASE \E n \in 1 .. MaxIn : Arrive(n)
    <3>1. PICK n \in 1 .. MaxIn : Arrive(n)
      BY <2>1
    <3> DEFINE q == sock.inq + n
    <3>2. q \in Nat
      BY <1>2, Constants DEF Socket
    <3>3. sock' = [sock EXCEPT !.inq = q, !.turn = FALSE, !.rdl = Edge(read.active)]
      BY <3>1 DEF Arrive
    <3> HIDE DEF q
    <3> QED
      BY <1>2, <3>2, <3>3 DEF Edge, Socket, Event
  <2>2. CASE PeerClose
    BY <1>2, <2>2 DEF PeerClose, Edge, Socket, Event
  <2>3. CASE PeerReset
    BY <1>2, <2>3 DEF PeerReset, Edge, Socket, Event
  <2>4. CASE Drain
    <3>1. MaxRoom \in 0 .. MaxRoom
      BY Constants
    <3> QED
      BY <1>2, <2>4, <3>1 DEF Drain, Edge, Socket, Event
  <2>5. CASE ConnectDone
    <3>1. MaxRoom \in 0 .. MaxRoom
      BY Constants
    <3> QED
      BY <1>2, <2>5, <3>1 DEF ConnectDone, Socket
  <2> QED
    BY <1>1, <2>1, <2>2, <2>3, <2>4, <2>5
<1>6. TypeOK'
  BY <1>3, <1>5 DEF IInv, TypeOK
<1> QED
  BY <1>3, <1>4, <1>6, PreserveSame

(* A call of the application on an open connection, from a callback. *)
LEMMA FromCallback ==
  ASSUME IInv, NEW name, Calls(name)
  PROVE  /\ ~destroyed /\ stack # <<>> /\ Top.pc \in OkPcs
         /\ StackOK(stack) /\ Resumable(stack) /\ Extends(stack, stack)
         /\ (\E f \in Frames(stack) : f.pc \in {"recv", "recvd"}) => read.ready
  BY Same DEF IInv, Calls, Resumable, Top, WaitingPcs, ReadyOK

(* The application's buffers are what the writer handlers expect. *)
LEMMA BuffersOK ==
  ASSUME NEW b \in Buffers
  PROVE  b \in Buffer /\ BufferOK(b) /\ b.size \in Nat
  BY ConnectionAssumption DEF Buffer, BufferOK

(* ngxe_reader(), with or without starting the reader. *)
LEMMA AppReader ==
  ASSUME IInv, NEW start \in BOOLEAN, NEW t \in Timeouts, ngxe_reader(start, t)
  PROVE  IInv'
<1> USE Constants
<1>1. /\ ~destroyed /\ ~destroyed' /\ StackOK(stack) /\ Resumable(stack)
      /\ Extends(stack, stack) /\ t \in BOOLEAN /\ TypeOK
      /\ (\E f \in Frames(stack) : f.pc \in {"recv", "recvd"}) => read.ready
  BY FromCallback DEF ngxe_reader, IInv
<1>2. Empty("pv", <<0>>) \in Buffer /\ BufferOK(Empty("pv", <<0>>))
  BY DEF Empty, Buffer, BufferOK
<1>3. /\ s' \in Session /\ s'.writer_offset = s.writer_offset
      /\ BufferOK(s'.writer_buffer) /\ s'.reader_callback \in 0 .. ClientCb
  <2>1. s.writer_buffer \in Buffer /\ BufferOK(s.writer_buffer) /\ s \in Session
    BY DEF IInv, TypeOK, Session
  <2> DEFINE cb == s.reader_callback + 1
             b == IF s.writer_buffer.kind = "null" THEN Empty("pv", <<0>>)
                  ELSE s.writer_buffer
  <2>2. cb \in 0 .. MaxCallbacks /\ cb \in 0 .. ClientCb
    BY <2>1 DEF ngxe_reader, Session, ClientCb
  <2>3. b \in Buffer /\ BufferOK(b)
    BY <1>2, <2>1
  <2>4. s' = [s EXCEPT !.reader_callback = cb, !.reader_timeout = t,
                       !.writer_buffer = b]
    BY DEF ngxe_reader
  <2> HIDE DEF cb, b
  <2> QED
    BY <1>1, <2>1, <2>2, <2>3, <2>4 DEF Session
<1>4. /\ read' \in Event /\ read'.handler # "writer" /\ read'.ready = read.ready
      /\ sock' \in Socket /\ Extends(stack', stack)
  <2>1. CASE start
    BY <1>1, <1>3, <2>1, ReaderStart DEF ngxe_reader
  <2>2. CASE ~start
    BY <1>1, <2>2 DEF ngxe_reader, TypeOK, Event, Handlers
  <2> QED
    BY <2>1, <2>2
<1>5. TypeOK'
  BY <1>1, <1>3, <1>4 DEF TypeOK, ngxe_reader, Extends, StackOK
<1> QED
  BY <1>1, <1>3, <1>4, <1>5, Preserve DEF ngxe_reader, IInv

(* ngxe_writer(), with or without starting the writer. *)
LEMMA AppWriter ==
  ASSUME IInv, NEW start \in BOOLEAN, NEW t \in Timeouts, NEW b \in Buffers,
         ngxe_writer(start, t, b)
  PROVE  IInv'
<1> USE Constants
<1>1. /\ ~destroyed /\ ~destroyed' /\ StackOK(stack) /\ Resumable(stack)
      /\ Extends(stack, stack) /\ t \in BOOLEAN /\ TypeOK
      /\ (\E f \in Frames(stack) : f.pc \in {"recv", "recvd"}) => read.ready
  BY FromCallback DEF ngxe_writer, IInv
<1>2. /\ s' \in Session /\ s'.writer_offset = s.writer_offset
      /\ BufferOK(s'.writer_buffer) /\ s'.writer_callback \in 0 .. ClientCb
  <2> DEFINE cb == IF s.writer_callback = ClientCb THEN 1 ELSE s.writer_callback + 1
  <2>1. s \in Session /\ b \in Buffer /\ BufferOK(b)
    BY BuffersOK DEF IInv, TypeOK
  <2>2. cb \in 0 .. ClientCb
    BY <2>1 DEF ngxe_writer, Session, ClientCb
  <2>3. s' = [s EXCEPT !.writer_callback = cb, !.writer_timeout = t,
                       !.writer_buffer = b]
    BY DEF ngxe_writer
  <2> HIDE DEF cb
  <2> QED
    BY <1>1, <2>1, <2>2, <2>3 DEF Session
<1>3. /\ write' \in Event /\ write'.handler # "reader" /\ write'.ready = write.ready
      /\ sock' \in Socket /\ Extends(stack', stack)
  <2>1. CASE start
    BY <1>1, <1>2, <2>1, WriterStart DEF ngxe_writer
  <2>2. CASE ~start
    BY <1>1, <2>2 DEF ngxe_writer, TypeOK, Event, Handlers
  <2> QED
    BY <2>1, <2>2
<1>4. TypeOK'
  BY <1>1, <1>2, <1>3, BuffersOK DEF TypeOK, ngxe_writer, Extends, StackOK
<1> QED
  BY <1>1, <1>2, <1>3, <1>4, Preserve DEF ngxe_writer, IInv

(* ngxe_writer_put() from any callback. *)
LEMMA AppPut ==
  ASSUME IInv, NEW b \in Buffers, ngxe_writer_put(b)
  PROVE  IInv'
<1>1. /\ ~destroyed /\ ~destroyed' /\ StackOK(stack) /\ Resumable(stack) /\ TypeOK
      /\ (\E f \in Frames(stack) : f.pc \in {"recv", "recvd"}) => read.ready
  BY FromCallback DEF ngxe_writer_put, IInv
<1>2. /\ s' \in Session /\ s'.writer_offset \in {0, s.writer_offset}
      /\ BufferOK(s'.writer_buffer)
  <2>1. s \in Session /\ b \in Buffer /\ BufferOK(b)
    BY BuffersOK DEF IInv, TypeOK
  <2> QED
    BY <2>1 DEF ngxe_writer_put, Session
<1>3. s.writer_timeout \in BOOLEAN /\ s.writer_callback \in 0 .. ClientCb
  BY <1>1 DEF TypeOK, Session
<1>4. /\ write' \in Event /\ write'.handler # "reader" /\ write'.ready = write.ready
      /\ sock' \in Socket /\ Extends(stack', stack)
  BY <1>1, <1>3, WriterStart DEF ngxe_writer_put
<1>5. TypeOK'
  BY <1>1, <1>2, <1>4, BuffersOK DEF TypeOK, ngxe_writer_put, Extends, StackOK
<1> QED
  BY <1>1, <1>2, <1>4, <1>5, Preserve DEF ngxe_writer_put, IInv

(* The calls that change the session alone. *)
LEMMA AppSession ==
  ASSUME IInv,
         \/ \E t \in Timeouts : ngxe_reader_timeout(t) \/ ngxe_writer_timeout(t)
         \/ \E b \in Buffers : SetWriteBuffer(b)
         \/ ClearReadBuffer \/ UndefReadBuffer
         \/ \E n \in MinLens : SetMinLen(n)
  PROVE  IInv'
<1> USE Constants
<1>1. /\ ~destroyed /\ StackOK(stack) /\ Resumable(stack) /\ Extends(stack, stack)
      /\ (\E f \in Frames(stack) : f.pc \in {"recv", "recvd"}) => read.ready
  BY FromCallback DEF ngxe_reader_timeout, ngxe_writer_timeout, SetWriteBuffer,
     ClearReadBuffer, UndefReadBuffer, SetMinLen
<1>2. s \in Session /\ BufferOK(s.writer_buffer)
  BY DEF IInv, TypeOK
<1>3. /\ s' \in Session /\ s'.writer_offset = s.writer_offset
      /\ BufferOK(s'.writer_buffer)
      /\ UNCHANGED <<read, write, destroyed, sock, stack>> /\ owed' \in Int
  <2>1. CASE \E t \in Timeouts : ngxe_reader_timeout(t) \/ ngxe_writer_timeout(t)
    BY <1>2, <2>1 DEF ngxe_reader_timeout, ngxe_writer_timeout, Session, IInv, TypeOK
  <2>2. CASE \E b \in Buffers : SetWriteBuffer(b)
    <3>1. PICK b \in Buffers : SetWriteBuffer(b)
      BY <2>2
    <3>2. b \in Buffer /\ BufferOK(b) /\ owed' \in Int
      BY <3>1, BuffersOK DEF SetWriteBuffer
    <3> QED
      BY <1>2, <3>1, <3>2 DEF SetWriteBuffer, Session
  <2>3. CASE ClearReadBuffer \/ UndefReadBuffer
    BY <1>2, <2>3 DEF ClearReadBuffer, UndefReadBuffer, Session, IInv, TypeOK
  <2>4. CASE \E n \in MinLens : SetMinLen(n)
    <3>1. PICK n \in MinLens : SetMinLen(n)
      BY <2>4
    <3> DEFINE m == [s.min_len EXCEPT ![Top.cb] = n]
    <3>2. m \in [1 .. MaxCallbacks -> MinLens]
      BY <1>2 DEF Session
    <3>3. s' = [s EXCEPT !.min_len = m]
      BY <3>1 DEF SetMinLen
    <3> HIDE DEF m
    <3> QED
      BY <1>2, <3>1, <3>2, <3>3 DEF SetMinLen, Session, IInv, TypeOK
  <2> QED
    BY <2>1, <2>2, <2>3, <2>4
<1>4. TypeOK'
  BY <1>3 DEF IInv, TypeOK
<1> QED
  BY <1>1, <1>3, <1>4, Preserve DEF IInv

(* Starting and stopping. *)
LEMMA AppStartStop ==
  ASSUME IInv,
         \/ \E t \in Timeouts : XS_reader_start(t) \/ XS_writer_start(t)
         \/ XS_reader_stop \/ XS_reader_stop_writer_start
         \/ XS_writer_stop \/ XS_writer_stop_reader_start
  PROVE  IInv'
<1> USE Constants
<1>1. /\ ~destroyed /\ StackOK(stack) /\ Resumable(stack) /\ Extends(stack, stack)
      /\ (\E f \in Frames(stack) : f.pc \in {"recv", "recvd"}) => read.ready
  BY FromCallback DEF XS_reader_start, XS_writer_start, XS_reader_stop,
     XS_reader_stop_writer_start, XS_writer_stop, XS_writer_stop_reader_start
<1>2. /\ s \in Session /\ BufferOK(s.writer_buffer) /\ TypeOK
      /\ read.handler # "writer" /\ write.handler # "reader"
      /\ s.reader_callback \in 0 .. ClientCb /\ s.writer_callback \in 0 .. ClientCb
      /\ s.reader_timeout \in BOOLEAN /\ s.writer_timeout \in BOOLEAN
  BY DEF IInv, TypeOK, Session, ClientCb
<1>3. UNCHANGED <<destroyed, owed>>
  BY DEF XS_reader_start, XS_writer_start, XS_reader_stop,
     XS_reader_stop_writer_start, XS_writer_stop, XS_writer_stop_reader_start
<1>4. /\ s' \in Session /\ s'.writer_offset = s.writer_offset
      /\ s'.writer_buffer = s.writer_buffer
  BY <1>2 DEF XS_reader_start, XS_writer_start, XS_reader_stop, Session,
     XS_reader_stop_writer_start, XS_writer_stop, XS_writer_stop_reader_start
<1>5. /\ read' \in Event /\ read'.handler # "writer" /\ read'.ready = read.ready
      /\ write' \in Event /\ write'.handler # "reader" /\ write'.ready = write.ready
      /\ sock' \in Socket /\ Extends(stack', stack)
  <2>1. ASSUME ngxe_reader_stop
        PROVE  read' \in Event /\ read'.handler # "writer" /\ read'.ready = read.ready
    BY <1>2, <2>1 DEF ngxe_reader_stop, TypeOK, Event, Handlers
  <2>2. ASSUME ngxe_writer_stop
        PROVE  write' \in Event /\ write'.handler # "reader" /\ write'.ready = write.ready
    BY <1>2, <2>2 DEF ngxe_writer_stop, TypeOK, Event, Handlers
  <2>3. CASE \E t \in Timeouts : XS_reader_start(t)
    BY <1>1, <1>2, <2>3, ReaderStart DEF XS_reader_start, TypeOK
  <2>4. CASE \E t \in Timeouts : XS_writer_start(t)
    BY <1>1, <1>2, <2>4, WriterStart DEF XS_writer_start, TypeOK
  <2>5. CASE XS_reader_stop \/ XS_writer_stop
    BY <1>1, <1>2, <2>1, <2>2, <2>5 DEF XS_reader_stop, XS_writer_stop, TypeOK
  <2>6. CASE XS_reader_stop_writer_start
    BY <1>1, <1>2, <2>1, <2>6, WriterStart DEF XS_reader_stop_writer_start
  <2>7. CASE XS_writer_stop_reader_start
    BY <1>1, <1>2, <2>2, <2>7, ReaderStart DEF XS_writer_stop_reader_start
  <2> QED
    BY <2>3, <2>4, <2>5, <2>6, <2>7
<1>6. TypeOK'
  BY <1>2, <1>3, <1>4, <1>5 DEF TypeOK, Extends, StackOK
<1> QED
  BY <1>1, <1>2, <1>3, <1>4, <1>5, <1>6, Preserve

(* Returning to the caller and doing nothing else. *)
LEMMA Returns ==
  ASSUME IInv, stack # <<>>, stack' = Rest,
         UNCHANGED <<read, write, destroyed, s, sock, owed>>
  PROVE  IInv'
<1>1. /\ StackOK(Rest) /\ Frames(Rest) \subseteq Frames(stack)
      /\ Top.pc \notin ErrorPcs => Resumable(Rest)
      /\ Resumable(Rest) \/ Interrupted(Rest)
  BY Pop DEF IInv, Rest, Top
<1>2. TypeOK'
  BY <1>1 DEF IInv, TypeOK, StackOK
<1>3. CASE ~destroyed
  <2>1. Extends(stack', Rest)
    BY <1>1, Same
  <2>2. (\E f \in Frames(Rest) : f.pc \in {"recv", "recvd"}) => read'.ready
    BY <1>1, <1>3 DEF IInv, ReadyOK
  <2> QED
    BY <1>1, <1>2, <1>3, <2>1, <2>2, Preserve DEF IInv
<1>4. CASE destroyed
  <2>1. Resumable(stack')
    BY <1>1, <1>4 DEF IInv, ClosedOK, Resumable, Top, WaitingPcs, OkPcs, ErrorPcs
  <2>2. SendOK' /\ ReadyOK'
    BY <1>4, <2>1 DEF SendOK, ReadyOK, At, Top, Resumable, WaitingPcs, OkPcs
  <2>3. OffsetOK'
    BY <1>1 DEF IInv, OffsetOK
  <2>4. ClosedOK'
    BY <2>1 DEF IInv, ClosedOK
  <2> QED
    BY <1>1, <1>2, <2>2, <2>3, <2>4 DEF IInv
<1> QED
  BY <1>3, <1>4

(* Closing the connection, by the application or after an error. *)
LEMMA Closes ==
  ASSUME IInv, NEW stk, StackOK(stk), Resumable(stk),
         Frames(stk) \subseteq Frames(stack),
         ngxe_close(stk), UNCHANGED <<s, owed>>
  PROVE  IInv'
<1>1. stack' = stk /\ destroyed'
  BY DEF ngxe_close, Continue
<1>2. Gone \in Socket /\ Gone.state = "closed" /\ ~Gone.rdl
  BY Constants DEF Gone, Socket
<1>3. /\ read' \in Event /\ write' \in Event /\ sock' \in Socket
      /\ read'.handler = read.handler /\ write'.handler = write.handler
      /\ write'.ready = write.ready
      /\ ~read'.timer /\ ~write'.timer /\ ~read'.active /\ ~write'.active
      /\ sock'.state = "closed" /\ ~sock'.rdl
  <2>1. CASE destroyed
    BY <2>1 DEF IInv, TypeOK, ClosedOK, ngxe_close
  <2>2. CASE ~destroyed
    BY <1>2, <2>2 DEF IInv, TypeOK, Event, ngxe_close
  <2> QED
    BY <2>1, <2>2
<1>4. TypeOK'
  BY <1>1, <1>3 DEF IInv, TypeOK, StackOK
<1>5. SendOK' /\ ReadyOK'
  BY <1>1 DEF SendOK, ReadyOK, At, Top, Resumable, WaitingPcs, OkPcs
<1>6. OffsetOK'
  BY <1>1, <1>3 DEF IInv, OffsetOK
<1>7. ClosedOK'
  BY <1>1, <1>3 DEF ClosedOK
<1> QED
  BY <1>1, <1>3, <1>4, <1>5, <1>6, <1>7 DEF IInv

(* ngxe_close() called by the application. *)
LEMMA AppClose ==
  ASSUME IInv, XS_close
  PROVE  IInv'
<1>1. StackOK(stack) /\ Resumable(stack)
  BY DEF IInv, XS_close, Resumable, Top, WaitingPcs
<1> QED
  BY <1>1, Closes DEF XS_close

(* ngxe_close() after an error callback. *)
LEMMA CloseAfterErrorStep ==
  ASSUME IInv, CloseAfterError
  PROVE  IInv'
<1>1. StackOK(Rest) /\ Resumable(Rest) /\ Frames(Rest) \subseteq Frames(stack)
  BY Pop DEF IInv, CloseAfterError, At, Top, Rest, ErrorPcs
<1> QED
  BY <1>1, Closes DEF CloseAfterError

(* The stacks that the event loop starts with. *)
LEMMA LoopStacks ==
  ASSUME NEW f \in Frame, f.pc \in {"reader", "writer", "client", "app_cb", "server_cb"}
  PROVE  /\ StackOK(<<>>) /\ Frames(<<>>) = {}
         /\ StackOK(<<f>>) /\ Frames(<<f>>) = {f}
         /\ F("epollout") \in Frame /\ StackOK(<<F("epollout")>>)
         /\ Frames(<<F("epollout")>>) = {F("epollout")}
         /\ StackOK(<<F("epollout"), f>>)
         /\ Frames(<<F("epollout"), f>>) = {F("epollout"), f}
<1> DEFINE e == F("epollout")
<1>1. e \in Frame /\ e.pc = "epollout"
  BY Constants DEF F, Frame, CodePcs, ClientCb
<1> HIDE DEF e
<1>2. FrameOK(f) /\ FrameOK(e) /\ f.pc # "epollout"
  BY <1>1 DEF FrameOK
<1>3. StackOK(<<>>) /\ Frames(<<>>) = {}
  BY DEF StackOK, Frames
<1>4. ASSUME NEW g \in {e, f}
      PROVE  StackOK(<<g>>) /\ Frames(<<g>>) = {g}
  BY <1>1, <1>2 DEF StackOK, Frames
<1>5. StackOK(<<e, f>>) /\ Frames(<<e, f>>) = {e, f}
  <2> DEFINE stk == <<e, f>>
  <2>1. stk \in Seq(Frame) /\ Len(stk) = 2 /\ stk[1] = e /\ stk[2] = f
    BY <1>1
  <2>2. 1 .. Len(stk) = {1, 2}
    BY <2>1
  <2> HIDE DEF stk
  <2>3. StackOK(stk)
    BY <1>1, <1>2, <2>1, <2>2 DEF StackOK, WaitingPcs
  <2>4. Frames(stk) = {e, f}
    BY <2>1, <2>2 DEF Frames
  <2> QED
    BY <2>3, <2>4 DEF stk
<1> QED
  BY <1>1, <1>3, <1>4, <1>5 DEF e

(* Calling the handler of an event from the loop. *)
LEMMA CallFrames ==
  ASSUME NEW ev \in Event, NEW side \in {"in", "out", "timer"}
  PROVE  \/ ev.handler = "dummy" /\ Call(ev, side) = <<>>
         \/ \E f \in Frame : /\ f.pc = ev.handler
                             /\ f.pc \in {"reader", "writer", "client"}
                             /\ Call(ev, side) = <<f>>
<1>1. CASE ev.handler = "dummy"
  BY <1>1 DEF Call
<1>2. CASE ev.handler # "dummy"
  <2>1. ev.handler \in {"reader", "writer", "client"}
    BY <1>2 DEF Event, Handlers
  <2>2. KindF(ev.handler, 0, side) \in Frame /\ KindF(ev.handler, 0, side).pc = ev.handler
    BY <2>1, Constants DEF KindF, Frame, CodePcs, ClientCb
  <2> QED
    BY <1>2, <2>1, <2>2 DEF Call
<1> QED
  BY <1>1, <1>2

(* A step of the loop that calls at most one handler of an open connection.*)
LEMMA LoopStep ==
  ASSUME IInv, TypeOK', ~destroyed', UNCHANGED s,
         read'.handler # "writer", write'.handler # "reader",
         StackOK(stack'),
         stack' # <<>> => Top'.pc # "send",
         At("reader")' => read'.ready \/ read'.timedout,
         \A f \in Frames(stack') : f.pc \notin {"recv", "recvd", "sent"}
  PROVE  IInv'
<1>1. SendOK'
  BY DEF SendOK, At
<1>2. OffsetOK' /\ ReadyOK' /\ ClosedOK'
  BY DEF OffsetOK, ReadyOK, ClosedOK
<1>3. BufferOK(s'.writer_buffer)
  BY DEF IInv
<1> QED
  BY <1>1, <1>2, <1>3 DEF IInv

(* A timer expires and the handler of its event is called. *)
LEMMA TimerSteps ==
  ASSUME IInv, ReadTimer \/ WriteTimer
  PROVE  IInv'
<1>1. ~destroyed /\ UNCHANGED <<destroyed, s, sock, owed>>
  BY DEF IInv, ClosedOK, ReadTimer, WriteTimer
<1>2. read \in Event /\ write \in Event
  BY DEF IInv, TypeOK
<1>3. /\ read' \in Event /\ read'.handler = read.handler
      /\ write' \in Event /\ write'.handler = write.handler
      /\ ReadTimer => read'.timedout
  BY <1>2 DEF ReadTimer, WriteTimer, Event
<1>4. PICK f \in Frame :
        /\ f.pc \in {"reader", "writer", "client"}
        /\ f.pc = "reader" => ReadTimer
        /\ stack' = <<>> \/ stack' = <<f>>
  <2>1. F("writer") \in Frame /\ F("writer").pc = "writer"
    BY Constants DEF F, Frame, CodePcs, ClientCb
  <2>2. CASE ReadTimer
    BY <1>2, <2>1, <2>2, CallFrames DEF ReadTimer, Continue
  <2>3. CASE WriteTimer
    BY <1>2, <2>1, <2>3, CallFrames DEF WriteTimer, Continue, IInv
  <2> QED
    BY <2>2, <2>3
<1>5. /\ StackOK(stack') /\ Frames(stack') \subseteq {f}
      /\ stack' # <<>> => Top' = f
  <2>1. /\ StackOK(<<>>) /\ Frames(<<>>) = {}
        /\ StackOK(<<f>>) /\ Frames(<<f>>) = {f}
    BY <1>4, LoopStacks
  <2>2. <<f>>[Len(<<f>>)] = f
    OBVIOUS
  <2>3. CASE stack' = <<>>
    BY <2>1, <2>3
  <2>4. CASE stack' = <<f>>
    BY <2>1, <2>2, <2>4 DEF Top
  <2> QED
    BY <1>4, <2>3, <2>4
<1>6. TypeOK'
  BY <1>1, <1>3, <1>5 DEF IInv, TypeOK, StackOK
<1> QED
  BY <1>1, <1>3, <1>4, <1>5, <1>6, LoopStep DEF IInv, At

(* epoll_wait() returns the connection. *)
LEMMA EpollWaitStep ==
  ASSUME IInv, EpollWait
  PROVE  IInv'
<1>1. ~destroyed /\ UNCHANGED <<write, destroyed, s, owed>>
  BY DEF IInv, ClosedOK, EpollWait
<1>2. read \in Event /\ write \in Event /\ sock \in Socket
  BY DEF IInv, TypeOK
<1> DEFINE in == "in" \in Polled(sock, read, write)
           e == F("epollout")
<1>3. /\ read' \in Event /\ read'.handler = read.handler
      /\ in => read'.ready
      /\ sock' \in Socket
  BY <1>2 DEF EpollWait, Event, Socket
<1>4. PICK f \in Frame :
        /\ f.pc \in {"reader", "client"}
        /\ \/ stack' \in {<<>>, <<e>>}
           \/ in /\ stack' \in {<<f>>, <<e, f>>}
  <2> DEFINE out == IF "out" \in Polled(sock, read, write) THEN <<e>> ELSE <<>>
  <2>1. F("reader") \in Frame /\ F("reader").pc = "reader" /\ e \in Frame
    BY Constants DEF F, Frame, CodePcs, ClientCb
  <2>2. stack' = out \o IF in THEN Call(read, "in") ELSE <<>>
    BY DEF EpollWait, Continue
  <2>3. out \in {<<>>, <<e>>}
    OBVIOUS
  <2>4. \/ Call(read, "in") = <<>>
        \/ \E f \in Frame : f.pc \in {"reader", "client"} /\ Call(read, "in") = <<f>>
    BY <1>2, CallFrames DEF IInv
  <2> HIDE DEF out, in, e
  <2>5. /\ <<>> \o <<>> = <<>> /\ <<e>> \o <<>> = <<e>>
        /\ \A f \in Frame : <<>> \o <<f>> = <<f>> /\ <<e>> \o <<f>> = <<e, f>>
    <3>1. <<>> \in Seq(Frame) /\ <<e>> \in Seq(Frame)
      BY <2>1
    <3>2. ASSUME NEW f \in Frame PROVE <<e>> \o <<f>> = <<e, f>>
      <4> DEFINE ef == <<e>> \o <<f>>
      <4>1. <<f>> \in Seq(Frame) /\ <<e, f>> \in Seq(Frame)
        BY <2>1
      <4>2. /\ ef \in Seq(Frame) /\ Len(ef) = 2 /\ ef[1] = e /\ ef[2] = f
        BY <2>1, <4>1
      <4>3. Len(<<e, f>>) = 2 /\ <<e, f>>[1] = e /\ <<e, f>>[2] = f
        OBVIOUS
      <4>4. 1 .. 2 = {1, 2}
        OBVIOUS
      <4> HIDE DEF ef
      <4>5. ef = <<e, f>>
        BY <4>1, <4>2, <4>3, <4>4, SeqEqual
      <4> QED
        BY <4>5 DEF ef
    <3>3. \A f \in Frame : <<>> \o <<f>> = <<f>>
      BY <3>1, ConcatEmptySeq
    <3> QED
      BY <3>1, <3>2, <3>3, ConcatEmptySeq
  <2>6. CASE ~in \/ Call(read, "in") = <<>>
    BY <2>1, <2>2, <2>3, <2>5, <2>6
  <2>7. CASE in /\ \E f \in Frame : f.pc \in {"reader", "client"} /\ Call(read, "in") = <<f>>
    BY <2>1, <2>2, <2>3, <2>5, <2>7
  <2> QED
    BY <2>4, <2>6, <2>7
<1>5. e.pc = "epollout" /\ e \in Frame
  BY LoopStacks, <1>4 DEF F
<1> HIDE DEF e
<1>6. /\ StackOK(stack') /\ Frames(stack') \subseteq {e, f}
      /\ stack' # <<>> => Top' \in {e, f}
  <2>1. /\ <<e>>[Len(<<e>>)] = e /\ <<f>>[Len(<<f>>)] = f
        /\ <<e, f>>[Len(<<e, f>>)] = f
    BY <1>5
  <2>2. /\ StackOK(<<>>) /\ Frames(<<>>) = {}
        /\ StackOK(<<f>>) /\ Frames(<<f>>) = {f}
        /\ StackOK(<<e>>) /\ Frames(<<e>>) = {e}
        /\ StackOK(<<e, f>>) /\ Frames(<<e, f>>) = {e, f}
    BY <1>4, LoopStacks DEF e
  <2>3. CASE stack' = <<>>
    BY <2>2, <2>3
  <2>4. CASE stack' \in {<<e>>, <<f>>, <<e, f>>}
    BY <2>1, <2>2, <2>4 DEF Top
  <2> QED
    BY <1>4, <2>3, <2>4
<1>7. TypeOK'
  BY <1>1, <1>2, <1>3, <1>6 DEF IInv, TypeOK, StackOK
<1>8. At("reader")' => read'.ready
  <2>1. CASE in
    BY <1>3, <2>1
  <2>2. CASE ~in
    <3>1. stack' = <<>> \/ stack' = <<e>>
      BY <1>4, <2>2
    <3> QED
      BY <1>5, <3>1 DEF At, Top
  <2> QED
    BY <2>1, <2>2
<1> QED
  BY <1>1, <1>3, <1>4, <1>5, <1>6, <1>7, <1>8, LoopStep DEF IInv

(* The EPOLLOUT half of an event, after the EPOLLIN half. *)
LEMMA EpollOutStep ==
  ASSUME IInv, EpollOut
  PROVE  IInv'
<1>1. stack # <<>> /\ Top.pc = "epollout" /\ UNCHANGED <<read, destroyed, s, sock, owed>>
  BY DEF EpollOut, At
<1>2. read \in Event /\ write \in Event /\ stack \in Seq(Frame)
  BY DEF IInv, TypeOK
<1>3. CASE ~write.active
  BY <1>1, <1>3, Returns DEF EpollOut, Continue
<1>4. CASE write.active
  <2>1. ~destroyed
    BY <1>4 DEF IInv, ClosedOK
  <2>2. Rest = <<>>
    <3>1. Len(stack) \in 1 .. Len(stack)
      BY <1>1, <1>2
    <3>2. Len(stack) = 1
      BY <1>1, <3>1 DEF IInv, StackOK, Top
    <3> QED
      BY <3>2, SubSeqEmpty DEF Rest
  <2>3. <<>> \o Call(write, "out") = Call(write, "out")
    <3>1. Call(write, "out") \in Seq(Frame)
      <4>1. \A f \in Frame : <<f>> \in Seq(Frame)
        OBVIOUS
      <4>2. <<>> \in Seq(Frame)
        OBVIOUS
      <4>3. \/ Call(write, "out") = <<>>
            \/ \E f \in Frame : Call(write, "out") = <<f>>
        BY <1>2, CallFrames
      <4> QED
        BY <4>1, <4>2, <4>3, Zenon
    <3> QED
      BY <3>1, ConcatEmptySeq
  <2>4. write' \in Event /\ write'.handler = write.handler
    BY <1>2, <1>4 DEF EpollOut, Event
  <2>5. PICK f \in Frame :
          /\ f.pc \in {"writer", "client"}
          /\ stack' = <<>> \/ stack' = <<f>>
    <3>1. F("writer") \in Frame /\ F("writer").pc = "writer"
      BY Constants DEF F, Frame, CodePcs, ClientCb
    <3>2. stack' = Call(write, "out")
      BY <1>4, <2>2, <2>3 DEF EpollOut, Continue
    <3> QED
      BY <1>2, <3>1, <3>2, CallFrames DEF IInv
  <2>6. /\ StackOK(stack') /\ Frames(stack') \subseteq {f}
        /\ stack' # <<>> => Top' = f
    <3>1. /\ StackOK(<<>>) /\ Frames(<<>>) = {}
          /\ StackOK(<<f>>) /\ Frames(<<f>>) = {f}
      BY <2>5, LoopStacks
    <3>2. <<f>>[Len(<<f>>)] = f
      OBVIOUS
    <3>3. CASE stack' = <<>>
      BY <3>1, <3>3
    <3>4. CASE stack' = <<f>>
      BY <3>1, <3>2, <3>4 DEF Top
    <3> QED
      BY <2>5, <3>3, <3>4
  <2>7. TypeOK'
    BY <1>1, <2>4, <2>6 DEF IInv, TypeOK, StackOK
  <2> QED
    BY <1>1, <2>1, <2>4, <2>5, <2>6, <2>7, LoopStep DEF IInv, At
<1> QED
  BY <1>3, <1>4

(* A callback of another connection or timer. *)
LEMMA AppCallbackStep ==
  ASSUME IInv, AppCallback
  PROVE  IInv'
<1> DEFINE f == F("app_cb")
<1>1. f \in Frame /\ f.pc = "app_cb"
  BY Constants DEF F, Frame, OkPcs, ClientCb
<1>2. /\ ~destroyed /\ stack' = <<f>>
      /\ UNCHANGED <<read, write, destroyed, s, sock, owed>>
  BY DEF AppCallback, Continue
<1> HIDE DEF f
<1>3. StackOK(stack') /\ Frames(stack') = {f} /\ Top' = f
  <2>1. StackOK(<<f>>) /\ Frames(<<f>>) = {f} /\ <<f>>[Len(<<f>>)] = f
    BY <1>1, LoopStacks
  <2> QED
    BY <1>2, <2>1 DEF Top
<1>4. TypeOK'
  BY <1>2, <1>3 DEF IInv, TypeOK, StackOK
<1> QED
  BY <1>1, <1>2, <1>3, <1>4, LoopStep DEF IInv, At

(* A handler that has the processor: the connection is open, what it       *)
(* returns to can be resumed.                                              *)
LEMMA Running ==
  ASSUME IInv, NEW pc \in {"reader", "recv", "writer", "send", "client"}, At(pc)
  PROVE  /\ ~destroyed /\ stack # <<>> /\ Top \in Frame /\ FrameOK(Top)
         /\ StackOK(Rest) /\ Resumable(Rest)
         /\ Frames(Rest) \subseteq Frames(stack) /\ Extends(Rest, Rest)
<1>1. stack # <<>> /\ Top.pc = pc /\ StackOK(stack)
  BY DEF At, IInv
<1>2. Top.pc \notin WaitingPcs \cup ErrorPcs
  BY <1>1 DEF WaitingPcs, OkPcs, ErrorPcs
<1>3. ~destroyed
  BY <1>1, <1>2 DEF IInv, ClosedOK, Resumable, Top
<1> QED
  BY <1>1, <1>2, <1>3, Pop, Same DEF Rest, Top

(* ngxe_client_init_connection(). *)
LEMMA ClientInitStep ==
  ASSUME IInv, ClientInit
  PROVE  IInv'
<1>1. /\ ~destroyed /\ StackOK(Rest) /\ Resumable(Rest)
      /\ Frames(Rest) \subseteq Frames(stack)
      /\ UNCHANGED <<destroyed, s, sock, owed>>
  BY Running DEF ClientInit
<1>2. /\ read \in Event /\ write \in Event /\ s.writer_callback \in 0 .. ClientCb
      /\ (\E f \in Frames(Rest) : f.pc \in {"recv", "recvd"}) => read.ready
  BY <1>1 DEF IInv, TypeOK, Session, ReadyOK
<1>3. /\ read' \in Event /\ read'.handler = "dummy" /\ read'.ready = read.ready
      /\ write' \in Event /\ write'.handler = "dummy" /\ write'.ready = write.ready
  BY <1>2 DEF ClientInit, Event, Handlers
<1>4. Extends(stack', Rest)
  <2> DEFINE f == CbF("client_cb", s.writer_callback)
  <2>1. f \in Frame /\ FrameOK(f) /\ f.pc = "client_cb"
    BY <1>2, FrameTypes DEF OkPcs, CbF
  <2>2. \/ stack' = Rest \o Report("client_timedout", s.writer_callback)
        \/ stack' = Append(Rest, f)
    BY DEF ClientInit, Continue
  <2> HIDE DEF f
  <2>3. Pushes(Append(Rest, f), Rest, f, {f})
    BY <1>1, <2>1, Push DEF ReaderPcs
  <2>4. Extends(Append(Rest, f), Rest)
    BY <2>1, <2>3 DEF Pushes, Extends
  <2>5. Extends(Rest \o Report("client_timedout", s.writer_callback), Rest)
    BY <1>1, <1>2, Reports DEF ErrorPcs
  <2> QED
    BY <2>2, <2>4, <2>5
<1>5. TypeOK'
  BY <1>1, <1>3, <1>4 DEF IInv, TypeOK, Extends, StackOK
<1> QED
  BY <1>1, <1>2, <1>3, <1>4, <1>5, Preserve DEF IInv

(* ngxe_reader_handler() up to RECVAGAIN. *)
LEMMA ReaderEntryStep ==
  ASSUME IInv, ReaderEntry
  PROVE  IInv'
<1>1. /\ ~destroyed /\ StackOK(Rest) /\ Resumable(Rest) /\ stack # <<>>
      /\ Frames(Rest) \subseteq Frames(stack) /\ Top.pc = "reader"
      /\ UNCHANGED <<write, destroyed, s, sock, owed>>
  BY Running DEF ReaderEntry, At
<1>2. /\ read \in Event /\ s.reader_callback \in 0 .. ClientCb
      /\ read.ready \/ read.timedout
  BY <1>1, Constants DEF IInv, TypeOK, Session, ClientCb, ReadyOK, At
<1>3. \A f \in Frames(Rest) : f.pc \notin ReaderPcs
  BY <1>1, ReaderAlone DEF IInv, Rest, Top, ReaderPcs
<1>4. CASE s.reader_callback = 0 /\ Continue(Rest) /\ UNCHANGED read
  BY <1>1, <1>4, Returns DEF Continue
<1>5. CASE /\ Continue(Rest \o Report("reader_timedout", s.reader_callback))
           /\ UNCHANGED read
  <2>1. Extends(stack', Rest)
    BY <1>1, <1>2, <1>5, Reports DEF Continue, ErrorPcs
  <2>2. TypeOK'
    BY <1>1, <1>5, <2>1 DEF IInv, TypeOK, Extends, StackOK
  <2> QED
    BY <1>1, <1>3, <1>5, <2>1, <2>2, Preserve DEF IInv, ReaderPcs
<1>6. CASE /\ s.reader_callback # 0 /\ ~read.timedout
           /\ read' = [read EXCEPT !.timer = FALSE]
           /\ Continue(Append(Rest, CbF("recv", s.reader_callback)))
  <2> DEFINE f == CbF("recv", s.reader_callback)
  <2>1. /\ read' \in Event /\ read'.handler = read.handler /\ read'.ready
    BY <1>2, <1>6 DEF Event
  <2>2. f \in Frame /\ f.pc = "recv"
    BY <1>2, FrameTypes DEF CodePcs, CbF
  <2>3. CbF("reader_cb", 0) \in Frame /\ CbF("reader_cb", 0).pc \in OkPcs
    BY FrameTypes, Constants DEF OkPcs, CbF, ClientCb
  <2>4. stack' = Append(Rest, f)
    BY <1>6 DEF Continue
  <2> HIDE DEF f
  <2>5. Pushes(stack', Rest, f, {f})
    BY <1>1, <2>2, <2>3, <2>4, ReaderGoesOn DEF IInv, Rest, Top, ReaderPcs
  <2>6. TypeOK'
    BY <1>1, <2>1, <2>5 DEF IInv, TypeOK, Pushes, StackOK
  <2>7. SendOK' /\ ReadyOK' /\ ClosedOK'
    BY <1>1, <2>1, <2>2, <2>5 DEF SendOK, ReadyOK, ClosedOK, At, Top, Pushes
  <2>8. OffsetOK'
    BY <1>1, <2>2, <2>5 DEF IInv, OffsetOK, Pushes
  <2> QED
    BY <1>1, <2>1, <2>5, <2>6, <2>7, <2>8 DEF IInv, Pushes
<1> QED
  BY <1>4, <1>5, <1>6 DEF ReaderEntry

(* The reader handler calls its callback, or goes back to RECVAGAIN. *)
LEMMA ReaderContinues ==
  ASSUME IInv, TypeOK', ~destroyed', read'.ready,
         stack # <<>>, Top.pc \in {"recv", "recvd"},
         NEW f \in Frame, f.pc \in {"recv", "recvd"},
         NEW g \in Frame, g.pc \in OkPcs,
         \/ stack' = Append(Rest, f)
         \/ f.pc = "recvd" /\ stack' = Rest \o <<f, g>>,
         read'.handler = read.handler, UNCHANGED write,
         s'.writer_buffer = s.writer_buffer, s'.writer_offset = s.writer_offset
  PROVE  IInv'
<1>1. Frames(Rest) \subseteq Frames(stack)
  BY Pop DEF IInv, Rest
<1>2. \E h \in {f, g} : Pushes(stack', Rest, h, {f, h})
  <2>1. /\ Pushes(Append(Rest, f), Rest, f, {f})
        /\ f.pc = "recvd" => Pushes(Rest \o <<f, g>>, Rest, g, {f, g})
    BY ReaderGoesOn DEF IInv, Rest, Top, ReaderPcs
  <2>2. {f, f} = {f}
    OBVIOUS
  <2> QED
    BY <2>1, <2>2
<1>3. PICK h \in {f, g} : Pushes(stack', Rest, h, {f, h})
  BY <1>2
<1>4. SendOK' /\ ReadyOK' /\ ClosedOK'
  BY <1>3 DEF SendOK, ReadyOK, ClosedOK, At, Top, Pushes, OkPcs
<1>5. OffsetOK'
  BY <1>1, <1>3 DEF IInv, OffsetOK, Pushes, OkPcs
<1> QED
  BY <1>3, <1>4, <1>5 DEF IInv, Pushes

(* RECVAGAIN: what recv() returned, and what the handler did with it. *)
LEMMA ReaderRecvStep ==
  ASSUME IInv, ReaderRecv
  PROVE  IInv'
<1> DEFINE cb == Top.cb
           len == IF s.len = s.cur + 1 THEN s.len + Grow ELSE s.len
           n == IF sock.inq < RecvSize(len) THEN sock.inq ELSE RecvSize(len)
           f == CbF("recvd", cb)
           g == CbF("reader_cb", cb)
           Callback == stack' = Rest \o <<f, g>>
           KeepTimer == read.timer \/ s.reader_timeout
<1>1. /\ ~destroyed /\ StackOK(Rest) /\ Resumable(Rest) /\ stack # <<>>
      /\ Frames(Rest) \subseteq Frames(stack) /\ Top.pc = "recv" /\ Top \in Frame
      /\ UNCHANGED <<write, destroyed, owed>>
  BY Running DEF ReaderRecv, At
<1>2. /\ TypeOK /\ read \in Event /\ s \in Session /\ sock \in Socket
      /\ cb \in 0 .. ClientCb /\ KeepTimer \in BOOLEAN
  BY <1>1 DEF IInv, TypeOK, Frame, Event, Session
<1>3. read.ready
  <2>1. Top \in Frames(stack)
    BY <1>1, <1>2 DEF Frames, Top, TypeOK
  <2> QED
    BY <1>1, <2>1 DEF IInv, ReadyOK
<1>4. len \in Nat /\ s.cur \in Nat /\ sock.inq \in Nat
  BY <1>2, Constants DEF Session, Socket
<1>5. n > 0 => n \in Nat /\ s.cur + n \in Nat /\ sock.inq - n \in Nat
  BY <1>4 DEF RecvSize
<1>6. f \in Frame /\ f.pc = "recvd" /\ g \in Frame /\ g.pc \in OkPcs
  BY <1>2, FrameTypes DEF CodePcs, OkPcs, CbF
<1>7. \A r \in Frames(Rest) : r.pc \notin ReaderPcs
  BY <1>1, ReaderAlone DEF IInv, Rest, Top, ReaderPcs
<1>8. \/ Callback /\ UNCHANGED <<read, s, sock>>
      \/ /\ n > 0
         /\ s' = [s EXCEPT !.cur = s.cur + n, !.len = len]
         /\ sock' = [sock EXCEPT !.inq = sock.inq - n]
         /\ read' = [read EXCEPT !.timer = KeepTimer]
         /\ UNCHANGED stack \/ Callback
      \/ /\ s' = [s EXCEPT !.len = len]
         /\ \/ /\ read' = [read EXCEPT !.ready = FALSE]
               /\ stack' = Rest \o Report("reader_err", cb)
            \/ /\ read' = [read EXCEPT !.ready = FALSE, !.timer = KeepTimer]
               /\ stack' = Rest
         /\ UNCHANGED sock
  BY DEF ReaderRecv, Continue
<1> DEFINE cur == s.cur + n
           inq == sock.inq - n
<1> HIDE DEF cb, len, f, g, KeepTimer
<1>9. CASE Callback /\ UNCHANGED <<read, s, sock>>
  <2>1. StackOK(stack')
    BY <1>1, <1>6, <1>9, ReaderGoesOn DEF IInv, Rest, Top, ReaderPcs, Pushes
  <2>2. TypeOK'
    BY <1>1, <1>2, <1>9, <2>1 DEF TypeOK, StackOK
  <2> QED
    BY <1>1, <1>3, <1>6, <1>9, <2>2, ReaderContinues
<1>10. CASE /\ n > 0
            /\ s' = [s EXCEPT !.cur = cur, !.len = len]
            /\ sock' = [sock EXCEPT !.inq = inq]
            /\ read' = [read EXCEPT !.timer = KeepTimer]
            /\ UNCHANGED stack \/ Callback
  <2>1. cur \in Nat /\ inq \in Nat /\ len \in Nat
    BY <1>4, <1>5, <1>10
  <2> HIDE DEF cur, inq, n
  <2>2. /\ s' \in Session /\ s'.writer_buffer = s.writer_buffer
        /\ s'.writer_offset = s.writer_offset /\ s'.writer_index = s.writer_index
    BY <1>2, <1>10, <2>1 DEF Session
  <2>3. sock' \in Socket
    BY <1>2, <1>10, <2>1 DEF Socket
  <2>4. read' \in Event /\ read'.handler = read.handler /\ read'.ready
    BY <1>2, <1>3, <1>10 DEF Event
  <2>5. CASE UNCHANGED stack
    <3>1. TypeOK'
      BY <1>1, <1>2, <2>2, <2>3, <2>4, <2>5 DEF TypeOK
    <3>2. SendOK' /\ ReadyOK' /\ ClosedOK'
      BY <1>1, <2>4, <2>5 DEF SendOK, ReadyOK, ClosedOK, At, Top
    <3>3. OffsetOK'
      BY <1>1, <2>2, <2>5 DEF IInv, OffsetOK
    <3> QED
      BY <1>1, <2>2, <2>4, <2>5, <3>1, <3>2, <3>3 DEF IInv
  <2>6. CASE Callback
    <3>1. StackOK(stack')
      BY <1>1, <1>6, <2>6, ReaderGoesOn DEF IInv, Rest, Top, ReaderPcs, Pushes
    <3>2. TypeOK'
      BY <1>1, <1>2, <2>2, <2>3, <2>4, <3>1 DEF TypeOK, StackOK
    <3> QED
      BY <1>1, <1>6, <2>2, <2>4, <2>6, <3>2, ReaderContinues
  <2> QED
    BY <1>10, <2>5, <2>6
<1>11. CASE /\ s' = [s EXCEPT !.len = len]
            /\ \/ /\ read' = [read EXCEPT !.ready = FALSE]
                  /\ stack' = Rest \o Report("reader_err", cb)
               \/ /\ read' = [read EXCEPT !.ready = FALSE, !.timer = KeepTimer]
                  /\ stack' = Rest
            /\ UNCHANGED sock
  <2>1. /\ s' \in Session /\ s'.writer_buffer = s.writer_buffer
        /\ s'.writer_offset = s.writer_offset
    BY <1>2, <1>4, <1>11 DEF Session
  <2>2. read' \in Event /\ read'.handler = read.handler
    BY <1>2, <1>11 DEF Event
  <2>3. Extends(stack', Rest)
    BY <1>1, <1>2, <1>11, Reports, Same DEF ErrorPcs
  <2>4. TypeOK'
    BY <1>1, <1>2, <1>11, <2>1, <2>2, <2>3 DEF TypeOK, Extends, StackOK
  <2> QED
    BY <1>1, <1>7, <2>1, <2>2, <2>3, <2>4, Preserve DEF IInv, ReaderPcs
<1> QED
  BY <1>8, <1>9, <1>10, <1>11

(* CALLBACK returned. *)
LEMMA ReaderAfterCallbackStep ==
  ASSUME IInv, ReaderAfterCallback
  PROVE  IInv'
<1>1. /\ StackOK(stack) /\ stack # <<>> /\ Top.pc = "recvd" /\ Top \in Frame
      /\ StackOK(Rest) /\ Resumable(Rest) /\ Frames(Rest) \subseteq Frames(stack)
      /\ UNCHANGED <<destroyed, owed>>
  BY Pop DEF IInv, ReaderAfterCallback, At, Rest, Top, ErrorPcs
<1>2. TypeOK /\ s \in Session /\ read \in Event /\ write \in Event
  BY DEF IInv, TypeOK
<1>3. CASE ReaderDone
  BY <1>1, <1>3, Returns DEF ReaderAfterCallback, Continue
<1>4. CASE /\ ~ReaderDone /\ s.writer_callback # 0 /\ HasData(s.writer_buffer)
           /\ s' = [s EXCEPT !.writer_offset = 0, !.writer_index = 0]
           /\ ngxe_reader_stop
           /\ ngxe_writer_start(s.writer_timeout, s.writer_callback, Rest)
  <2>1. ~destroyed
    BY <1>4 DEF ReaderDone
  <2>2. \A f \in Frames(Rest) : f.pc \notin ReaderPcs
    BY <1>1, ReaderAlone DEF Rest, Top, ReaderPcs
  <2>3. /\ s' \in Session /\ s'.writer_offset = 0
        /\ s'.writer_buffer = s.writer_buffer
    BY <1>2, <1>4 DEF Session
  <2>4. read' \in Event /\ read'.handler = "dummy"
    BY <1>2, <1>4 DEF ngxe_reader_stop, Event, Handlers
  <2>5. s.writer_timeout \in BOOLEAN /\ s.writer_callback \in 0 .. ClientCb
    BY <1>2 DEF Session
  <2>6. /\ write' \in Event /\ write'.handler = "writer"
        /\ write'.ready = write.ready
        /\ sock' \in Socket /\ Extends(stack', Rest)
    BY <1>1, <1>2, <1>4, <2>5, WriterStart
  <2>7. TypeOK'
    BY <1>1, <1>2, <2>3, <2>4, <2>6 DEF TypeOK, Extends, StackOK
  <2> QED
    BY <1>1, <2>1, <2>2, <2>3, <2>4, <2>6, <2>7, Preserve DEF IInv, ReaderPcs
<1>5. CASE /\ ~ReaderDone
           /\ Continue(Append(Rest, CbF("recv", Top.cb)))
           /\ UNCHANGED <<read, write, s, sock>>
  <2> DEFINE f == CbF("recv", Top.cb)
             g == CbF("reader_cb", Top.cb)
  <2>1. f \in Frame /\ f.pc = "recv" /\ g \in Frame /\ g.pc \in OkPcs
    BY <1>1, FrameTypes DEF CodePcs, OkPcs, CbF, Frame
  <2>2. stack' = Append(Rest, f) /\ ~destroyed
    BY <1>5 DEF Continue, ReaderDone
  <2>3. read.ready
    <3>1. Top \in Frames(stack)
      BY <1>1, <1>2 DEF Frames, Top, TypeOK
    <3> QED
      BY <1>1, <2>2, <3>1 DEF IInv, ReadyOK
  <2> HIDE DEF f, g
  <2>4. StackOK(stack')
    BY <1>1, <2>1, <2>2, ReaderGoesOn DEF Rest, Top, ReaderPcs, Pushes
  <2>5. TypeOK'
    BY <1>1, <1>2, <1>5, <2>4 DEF TypeOK, StackOK
  <2> QED
    BY <1>1, <1>5, <2>1, <2>2, <2>3, <2>5, ReaderContinues
<1> QED
  BY <1>3, <1>4, <1>5 DEF ReaderAfterCallback

-----------------------------------------------------------------------------
(* The writers. *)

(* NEXTBUF stops at an element with something to send, or past the end. *)
LEMMA NextBufStops ==
  ASSUME NEW segs \in Seq(Nat \cup {NotRef}), NEW i \in Nat, NEW off \in Nat
  PROVE  LET j == NextBuf(segs, i, off)
         IN /\ j \in Nat
            /\ j < Len(segs) =>
                 \/ segs[j + 1] = NotRef
                 \/ /\ segs[j + 1] \in Nat
                    /\ segs[j + 1] > (IF j = i THEN off ELSE 0)
<1> DEFINE stop == {j \in i .. Len(segs) - 1 :
                      \/ segs[j + 1] = NotRef
                      \/ segs[j + 1] > (IF j = i THEN off ELSE 0)}
           j0 == CHOOSE j \in stop : \A k \in stop : j <= k
<1>1. Len(segs) \in Nat
  OBVIOUS
<1>2. CASE stop = {}
  BY <1>1, <1>2 DEF NextBuf
<1>3. CASE stop # {}
  <2>1. stop \in SUBSET Nat
    BY <1>1
  <2>2. NextBuf(segs, i, off) = j0
    BY <1>3 DEF NextBuf
  <2>3. \E j \in stop : \A k \in stop : j <= k
    <3> HIDE DEF stop
    <3> QED
      BY <1>3, <2>1, LeastNatural
  <2>4. j0 \in stop
    <3> HIDE DEF stop
    <3> QED
      BY <2>3
  <2> HIDE DEF j0
  <2>5. /\ j0 \in i .. Len(segs) - 1
        /\ segs[j0 + 1] = NotRef \/ segs[j0 + 1] > (IF j0 = i THEN off ELSE 0)
    BY <2>4
  <2>6. segs[j0 + 1] \in Nat \cup {NotRef}
    <3>1. j0 + 1 \in 1 .. Len(segs)
      BY <1>1, <2>5
    <3> QED
      BY <3>1
  <2> QED
    BY <1>1, <2>2, <2>5, <2>6
<1> QED
  BY <1>2, <1>3

(* A writer handler calls its callback, or goes to SENDAGAIN with data. *)
LEMMA WriterContinues ==
  ASSUME IInv, ~destroyed, UNCHANGED <<read, destroyed>>,
         NEW stk, StackOK(stk), Resumable(stk), Frames(stk) \subseteq Frames(stack),
         NEW kind \in WriterKinds, NEW cb \in 0 .. ClientCb,
         write' \in Event, s' \in Session, sock' \in Socket, owed' \in Int,
         write'.handler # "reader", BufferOK(s'.writer_buffer),
         write'.ready => write.ready /\ s'.writer_offset \in {0, s.writer_offset},
         \/ /\ stack' = stk \o WriterCallback(kind, cb)
            /\ kind = "ref" => s'.writer_offset = 0
         \/ /\ stack' = Append(stk, KindF("send", cb, kind))
            /\ kind = s'.writer_buffer.kind
            /\ kind = "av" => s'.writer_index < Len(s'.writer_buffer.segs)
            /\ SendSize(kind)' \in Nat \ {0}
  PROVE  IInv'
<1> DEFINE sent == KindF("sent", cb, kind)
           call == CbF("writer_cb", cb)
           send == KindF("send", cb, kind)
<1>1. /\ sent \in Frame /\ FrameOK(sent) /\ sent.pc = "sent" /\ sent.kind = kind
      /\ send \in Frame /\ FrameOK(send) /\ send.pc = "send" /\ send.kind = kind
      /\ call \in Frame /\ FrameOK(call) /\ call.pc = "writer_cb"
  BY FrameTypes DEF OkPcs, KindF, CbF
<1>2. (\E f \in Frames(stk) : f.pc \in {"recv", "recvd"}) => read'.ready
  BY DEF IInv, ReadyOK
<1>3. CASE /\ stack' = stk \o WriterCallback(kind, cb)
           /\ kind = "ref" => s'.writer_offset = 0
  <2>1. stack' = stk \o <<sent, call>>
    BY <1>3 DEF WriterCallback
  <2> HIDE DEF sent, call, send
  <2>2. Pushes(stack', stk, call, {sent, call})
    BY <1>1, <2>1, PushCallback DEF OkPcs
  <2>3. TypeOK'
    BY <2>2 DEF IInv, TypeOK, Pushes, StackOK
  <2>4. SendOK' /\ ReadyOK' /\ ClosedOK'
    BY <1>1, <1>2, <2>2 DEF SendOK, ReadyOK, ClosedOK, At, Top, Pushes
  <2>5. OffsetOK'
    BY <1>1, <1>3, <2>2 DEF IInv, OffsetOK, Pushes
  <2> QED
    BY <2>2, <2>3, <2>4, <2>5 DEF IInv, Pushes
<1>4. CASE /\ stack' = Append(stk, send)
           /\ kind = s'.writer_buffer.kind
           /\ kind = "av" => s'.writer_index < Len(s'.writer_buffer.segs)
           /\ SendSize(kind)' \in Nat \ {0}
  <2> HIDE DEF sent, call, send
  <2>1. Pushes(stack', stk, send, {send})
    BY <1>1, <1>4, Push DEF ReaderPcs
  <2>2. TypeOK'
    BY <2>1 DEF IInv, TypeOK, Pushes, StackOK
  <2>3. Top' = send
    BY <2>1 DEF Pushes, Top
  <2>4. SendOK'
    BY <1>1, <1>4, <2>3 DEF SendOK
  <2>5. ReadyOK' /\ ClosedOK'
    BY <1>1, <1>2, <2>1, <2>3 DEF ReadyOK, ClosedOK, At, Pushes
  <2>6. OffsetOK'
    BY <1>1, <2>1 DEF IInv, OffsetOK, Pushes
  <2> QED
    BY <2>1, <2>2, <2>4, <2>5, <2>6 DEF IInv, Pushes
<1> QED
  BY <1>3, <1>4

(* A writer handler returns or reports an error, and so may put the offset *)
(* back or leave one that the event's readiness does not matter for.       *)
LEMMA WriterLeaves ==
  ASSUME IInv, ~destroyed, UNCHANGED <<read, destroyed>>,
         NEW stk, Resumable(stk), Frames(stk) \subseteq Frames(stack),
         Extends(stack', stk),
         write' \in Event, s' \in Session, sock' \in Socket, owed' \in Int,
         write'.handler # "reader", BufferOK(s'.writer_buffer),
         write'.ready => write.ready /\ s'.writer_offset \in {0, s.writer_offset}
  PROVE  IInv'
<1>1. TypeOK'
  BY DEF IInv, TypeOK, Extends, StackOK
<1>2. (\E f \in Frames(stk) : f.pc \in {"recv", "recvd"}) => read'.ready
  BY DEF IInv, ReadyOK
<1> QED
  BY <1>1, <1>2, Preserve DEF IInv

(* NEXTBUF in the ARRAYREF writer. *)
LEMMA AvNextBufStep ==
  ASSUME IInv, ~destroyed, UNCHANGED <<read, destroyed>>,
         NEW stk, StackOK(stk), Resumable(stk), Frames(stk) \subseteq Frames(stack),
         NEW cb \in 0 .. ClientCb, NEW i \in Nat, NEW off \in {0, s.writer_offset},
         s.writer_buffer.kind = "av", AvNextBuf(i, off, cb, stk),
         write' \in Event, sock' \in Socket, owed' \in Int,
         write'.handler = write.handler, write'.ready = write.ready
  PROVE  IInv'
<1> DEFINE segs == s.writer_buffer.segs
           j == NextBuf(segs, i, off)
           rest == IF j = i THEN off ELSE 0
<1>1. /\ s \in Session /\ segs \in Seq(Nat \cup {NotRef}) /\ off \in Nat
      /\ BufferOK(s.writer_buffer) /\ write.handler # "reader"
  BY DEF IInv, TypeOK, Session, Buffer
<1>2. /\ j \in Nat
      /\ j < Len(segs) =>
           \/ segs[j + 1] = NotRef
           \/ segs[j + 1] \in Nat /\ segs[j + 1] > rest
  <2> HIDE DEF segs
  <2> QED
    BY <1>1, NextBufStops
<1>3. rest \in Nat /\ rest \in {0, s.writer_offset} /\ Len(segs) \in Nat
  BY <1>1
<1> HIDE DEF j, rest
<1>4. CASE j >= Len(segs)
  <2>1. /\ s' = [s EXCEPT !.writer_buffer = Empty("undef", <<>>),
                          !.writer_index = j, !.writer_offset = rest]
        /\ stack' = stk \o WriterCallback("av", cb)
    BY <1>4 DEF AvNextBuf, Continue, j, rest
  <2>2. Empty("undef", <<>>) \in Buffer /\ BufferOK(Empty("undef", <<>>))
    BY DEF Empty, Buffer, BufferOK
  <2>3. /\ s' \in Session /\ BufferOK(s'.writer_buffer)
        /\ s'.writer_offset \in {0, s.writer_offset}
    BY <1>1, <1>2, <1>3, <2>1, <2>2 DEF Session
  <2> QED
    BY <1>1, <2>1, <2>3, WriterContinues DEF WriterKinds
<1>5. CASE j < Len(segs) /\ segs[j + 1] = NotRef
  <2>1. /\ s' = [s EXCEPT !.writer_index = 0, !.writer_offset = 0]
        /\ stack' = stk \o Report("writer_err", cb)
    BY <1>2, <1>3, <1>5 DEF AvNextBuf, Continue, j, rest
  <2>2. /\ s' \in Session /\ BufferOK(s'.writer_buffer)
        /\ s'.writer_offset = 0
    BY <1>1, <2>1 DEF Session
  <2>3. Extends(stack', stk)
    BY <2>1, Reports DEF ErrorPcs
  <2> QED
    BY <1>1, <2>2, <2>3, WriterLeaves
<1>6. CASE j < Len(segs) /\ segs[j + 1] # NotRef
  <2>1. /\ s' = [s EXCEPT !.writer_index = j, !.writer_offset = rest]
        /\ stack' = Append(stk, KindF("send", cb, "av"))
    BY <1>2, <1>3, <1>6 DEF AvNextBuf, Continue, j, rest
  <2>2. /\ s' \in Session /\ s'.writer_buffer = s.writer_buffer
        /\ s'.writer_offset = rest /\ s'.writer_index = j
    BY <1>1, <1>2, <1>3, <2>1 DEF Session
  <2>3. SendSize("av")' \in Nat \ {0}
    BY <1>2, <1>3, <1>6, <2>2 DEF SendSize
  <2> QED
    BY <1>1, <1>3, <1>6, <2>1, <2>2, <2>3, WriterContinues DEF WriterKinds
<1> QED
  BY <1>2, <1>3, <1>4, <1>5, <1>6

(* The writer handlers up to SENDAGAIN or NEXTBUF. *)
LEMMA WriterEntryStep ==
  ASSUME IInv, WriterEntry
  PROVE  IInv'
<1> DEFINE cb == s.writer_callback
           b == s.writer_buffer
           off == s.writer_offset
<1>1. /\ ~destroyed /\ StackOK(Rest) /\ Resumable(Rest) /\ stack # <<>>
      /\ Frames(Rest) \subseteq Frames(stack)
      /\ UNCHANGED <<read, destroyed, sock, owed>>
  BY Running DEF WriterEntry
<1>2. /\ write \in Event /\ s \in Session /\ sock \in Socket /\ owed \in Int
      /\ write.handler # "reader" /\ BufferOK(b)
      /\ cb \in 0 .. ClientCb /\ b \in Buffer /\ off \in Nat
      /\ s.writer_index \in Nat
  BY DEF IInv, TypeOK, Session
<1>3. CASE (cb = 0 \/ b.kind = "null") /\ Continue(Rest) /\ UNCHANGED <<write, s>>
  BY <1>1, <1>3, Returns DEF Continue
<1>4. ASSUME NEW pc \in {"writer_err", "writer_timedout"},
             Continue(Rest \o Report(pc, cb)), UNCHANGED <<write, s>>
      PROVE  IInv'
  <2>1. Extends(stack', Rest)
    BY <1>1, <1>2, <1>4, Reports DEF Continue, ErrorPcs
  <2> QED
    BY <1>1, <1>2, <1>4, <2>1, WriterLeaves
<1>5. ASSUME write' = [write EXCEPT !.timer = FALSE]
      PROVE  write' \in Event /\ write'.handler = write.handler /\ write'.ready = write.ready
  BY <1>2, <1>5 DEF Event
<1>6. CASE /\ b.kind \in {"pv", "undef"} /\ UNCHANGED s
           /\ write' = [write EXCEPT !.timer = FALSE]
           /\ Continue(IF SvCUR(b) = 0 THEN Rest \o WriterCallback("pv", cb)
                       ELSE Append(Rest, KindF("send", cb, "pv")))
  <2>1. CASE SvCUR(b) = 0
    BY <1>1, <1>2, <1>5, <1>6, <2>1, WriterContinues DEF Continue, WriterKinds
  <2>2. CASE SvCUR(b) # 0
    <3>1. b.kind = "pv" /\ SvCUR(b) \in Nat \ {0}
      BY <1>2, <1>6, <2>2 DEF SvCUR, BufferOK
    <3>2. SendSize("pv")' \in Nat \ {0}
      BY <1>6, <3>1 DEF SendSize
    <3> QED
      BY <1>1, <1>2, <1>5, <1>6, <2>2, <3>1, <3>2, WriterContinues
         DEF Continue, WriterKinds
  <2> QED
    BY <2>1, <2>2
<1>7. CASE /\ b.kind = "ref"
           /\ write' = [write EXCEPT !.timer = FALSE]
           /\ IF b.segs[1] <= off
              THEN /\ Continue(Rest \o WriterCallback("ref", cb))
                   /\ s' = [s EXCEPT !.writer_offset = 0]
              ELSE Continue(Append(Rest, KindF("send", cb, "ref"))) /\ UNCHANGED s
  <2>1. b.segs[1] \in Nat
    BY <1>2, <1>7 DEF BufferOK
  <2>2. CASE b.segs[1] <= off
    <3>1. /\ s' \in Session /\ s'.writer_offset = 0
          /\ s'.writer_buffer = s.writer_buffer
      BY <1>2, <1>7, <2>2 DEF Session
    <3> QED
      BY <1>1, <1>2, <1>5, <1>7, <2>2, <3>1, WriterContinues
         DEF Continue, WriterKinds
  <2>3. CASE b.segs[1] > off
    <3>1. UNCHANGED s /\ stack' = Append(Rest, KindF("send", cb, "ref"))
      BY <1>2, <1>7, <2>1, <2>3 DEF Continue
    <3>2. b.segs[1] - off \in Nat \ {0}
      BY <1>2, <2>1, <2>3
    <3>3. SendSize("ref")' \in Nat \ {0}
      BY <3>1, <3>2 DEF SendSize
    <3> QED
      BY <1>1, <1>2, <1>5, <1>7, <3>1, <3>3, WriterContinues DEF WriterKinds
  <2> QED
    BY <1>2, <2>1, <2>2, <2>3
<1>8. CASE /\ b.kind = "av"
           /\ write' = [write EXCEPT !.timer = FALSE]
           /\ AvNextBuf(s.writer_index, off, cb, Rest)
  BY <1>1, <1>2, <1>5, <1>8, AvNextBufStep
<1> QED
  BY <1>3, <1>4, <1>6, <1>7, <1>8 DEF WriterEntry, RefEntry

(* Waiting for the socket to become writable. *)
LEMMA WaitWritableStep ==
  ASSUME IInv, ~destroyed, UNCHANGED <<read, destroyed>>, owed' \in Int,
         NEW stk, StackOK(stk), Resumable(stk), Frames(stk) \subseteq Frames(stack),
         NEW cb \in 0 .. ClientCb, NEW kind,
         NEW w \in Event, ~w.ready, w.handler # "reader",
         NEW k \in Socket, NEW s1 \in Session, BufferOK(s1.writer_buffer),
         WaitWritable(w, k, s1, kind, cb, stk)
  PROVE  IInv'
<1> DEFINE ev == [w EXCEPT !.timer = w.timer \/ s1.writer_timeout]
<1>1. ev \in Event /\ ev.handler = w.handler /\ ev.ready = w.ready
  BY DEF Event
<1>2. CASE /\ write' = Added(ev)
           /\ sock' = IF NeedsAdd(w) THEN Repoll(k, read, write') ELSE k
           /\ s' = s1
           /\ Continue(stk)
  <2> HIDE DEF ev
  <2>1. write' \in Event /\ write'.handler = w.handler /\ ~write'.ready
    BY <1>1, <1>2, AddedType
  <2>2. sock' \in Socket
    BY <1>2, <2>1, RepollType DEF IInv, TypeOK
  <2>3. Extends(stack', stk)
    BY <1>2, Same DEF Continue
  <2> QED
    BY <1>2, <2>1, <2>2, <2>3, WriterLeaves
<1>3. CASE /\ write' = w
           /\ sock' = k
           /\ s' = IF kind = "pv" THEN s1 ELSE [s1 EXCEPT !.writer_offset = 0]
           /\ Continue(stk \o Report("writer_err", cb))
  <2>1. s' \in Session /\ s'.writer_buffer = s1.writer_buffer
    BY <1>3 DEF Session
  <2>2. Extends(stack', stk)
    BY <1>3, Reports DEF Continue, ErrorPcs
  <2> QED
    BY <1>3, <2>1, <2>2, WriterLeaves
<1> QED
  BY <1>2, <1>3 DEF WaitWritable

(* AFTERCALLBACK and DONE. *)
LEMMA WriterAfterCallbackStep ==
  ASSUME IInv, WriterAfterCallback
  PROVE  IInv'
<1> DEFINE cb == Top.cb
           kind == Top.kind
           b == s.writer_buffer
           more == CASE kind = "pv" -> SvCUR(b) > 0
                     [] kind = "ref" -> b.kind = "ref" /\ b.segs[1] > 0
                     [] kind = "av" -> b.kind = "av"
           s1 == IF kind = "av"
                 THEN [s EXCEPT !.writer_offset = 0, !.writer_index = 0]
                 ELSE s
           running == ~destroyed /\ write.handler # "dummy"
<1>1. /\ stack # <<>> /\ Top.pc = "sent" /\ Top \in Frame /\ FrameOK(Top)
      /\ StackOK(Rest) /\ Resumable(Rest) /\ Frames(Rest) \subseteq Frames(stack)
      /\ UNCHANGED <<destroyed, owed>>
  BY Pop DEF IInv, WriterAfterCallback, At, Rest, Top, ErrorPcs
<1>2. /\ TypeOK /\ read \in Event /\ write \in Event /\ s \in Session
      /\ sock \in Socket /\ owed \in Int
      /\ write.handler # "reader" /\ read.handler # "writer" /\ BufferOK(b)
      /\ b \in Buffer /\ s.writer_offset \in Nat
      /\ cb \in 0 .. ClientCb /\ kind \in WriterKinds
  BY <1>1 DEF IInv, TypeOK, Session, Frame, FrameOK
<1>3. s1 \in Session /\ s1.writer_buffer = b
  BY <1>2 DEF Session
<1>4. \/ Continue(Rest) /\ UNCHANGED <<read, write, s, sock>>
      \/ /\ running /\ more /\ write.ready
         /\ IF kind = "av" THEN AvNextBuf(0, 0, cb, Rest)
            ELSE Continue(Append(Rest, KindF("send", cb, kind))) /\ s' = s
         /\ UNCHANGED <<read, write, sock>>
      \/ /\ running /\ ~write.ready
         /\ WaitWritable(write, sock, s1, kind, cb, Rest)
         /\ UNCHANGED read
      \/ /\ running /\ ngxe_writer_stop
         /\ ngxe_reader_start(s.reader_timeout, s.reader_callback, Rest)
         /\ UNCHANGED s
  BY DEF WriterAfterCallback, More, Rewound
<1> HIDE DEF s1
<1>5. CASE Continue(Rest) /\ UNCHANGED <<read, write, s, sock>>
  BY <1>1, <1>5, Returns DEF Continue
<1>6. CASE /\ running /\ more /\ write.ready
           /\ IF kind = "av" THEN AvNextBuf(0, 0, cb, Rest)
              ELSE Continue(Append(Rest, KindF("send", cb, kind))) /\ s' = s
           /\ UNCHANGED <<read, write, sock>>
  <2>1. CASE kind = "av"
    BY <1>1, <1>2, <1>6, <2>1, AvNextBufStep
  <2>2. CASE kind # "av"
    <3>1. s' = s /\ stack' = Append(Rest, KindF("send", cb, kind))
      BY <1>6, <2>2 DEF Continue
    <3>2. kind = "pv" => b.kind = "pv" /\ SvCUR(b) \in Nat \ {0}
      BY <1>2, <1>6 DEF SvCUR, BufferOK
    <3>3. kind = "ref" => b.kind = "ref" /\ b.segs[1] \in Nat \ {0}
      BY <1>2, <1>6 DEF BufferOK
    <3>4. kind = "ref" => s.writer_offset = 0
      <4>1. Top \in Frames(stack)
        BY <1>1, <1>2 DEF Frames, Top, TypeOK
      <4> QED
        BY <1>1, <1>6, <4>1 DEF IInv, OffsetOK
    <3>5. kind = "pv" \/ kind = "ref"
      BY <1>2, <2>2 DEF WriterKinds
    <3>6. kind = b.kind
      BY <3>2, <3>3, <3>5
    <3>7. ASSUME NEW q \in {"pv", "ref"}, q = kind PROVE SendSize(q)' \in Nat \ {0}
      BY <3>1, <3>2, <3>3, <3>4, <3>7 DEF SendSize
    <3>8. PICK q \in {"pv", "ref"} : q = kind
      BY <3>5
    <3> QED
      BY <1>1, <1>2, <1>6, <3>1, <3>6, <3>7, <3>8, WriterContinues DEF WriterKinds
  <2> QED
    BY <2>1, <2>2
<1>7. CASE /\ running /\ ~write.ready
           /\ WaitWritable(write, sock, s1, kind, cb, Rest)
           /\ UNCHANGED read
  BY <1>1, <1>2, <1>3, <1>7, WaitWritableStep
<1>8. CASE /\ running /\ ngxe_writer_stop
           /\ ngxe_reader_start(s.reader_timeout, s.reader_callback, Rest)
           /\ UNCHANGED s
  <2>1. s.reader_timeout \in BOOLEAN /\ s.reader_callback \in 0 .. ClientCb
    BY <1>2, Constants DEF Session, ClientCb
  <2>2. /\ read' \in Event /\ read'.handler = "reader" /\ read'.ready = read.ready
        /\ sock' \in Socket /\ Extends(stack', Rest)
    BY <1>1, <1>2, <1>8, <2>1, ReaderStart
  <2>3. write' \in Event /\ write'.handler = "dummy" /\ write'.ready = write.ready
    BY <1>2, <1>8 DEF ngxe_writer_stop, Event, Handlers
  <2>4. TypeOK'
    BY <1>1, <1>2, <1>8, <2>2, <2>3 DEF TypeOK, Extends, StackOK
  <2>5. (\E f \in Frames(Rest) : f.pc \in {"recv", "recvd"}) => read'.ready
    BY <1>1, <1>8, <2>2 DEF IInv, ReadyOK
  <2> QED
    BY <1>1, <1>2, <1>8, <2>2, <2>3, <2>4, <2>5, Preserve
<1> QED
  BY <1>4, <1>5, <1>6, <1>7, <1>8

(* SENDAGAIN: what send() returned, and what the handlers did with it. *)
LEMMA WriterSendStep ==
  ASSUME IInv, WriterSend
  PROVE  IInv'
<1> DEFINE cb == Top.cb
           kind == Top.kind
           cur == SendSize(kind)
           n == IF cur < sock.room THEN cur ELSE sock.room
           room == sock.room - n
           k == [sock EXCEPT !.room = room]
           timer == IF kind = "av" /\ n > 0 THEN FALSE ELSE write.timer
<1>1. /\ ~destroyed /\ StackOK(Rest) /\ Resumable(Rest) /\ stack # <<>>
      /\ Frames(Rest) \subseteq Frames(stack) /\ Top \in Frame /\ FrameOK(Top)
      /\ Top.pc = "send" /\ UNCHANGED <<read, destroyed>>
  BY Running DEF WriterSend, At
<1>2. /\ write \in Event /\ s \in Session /\ sock \in Socket /\ owed \in Int
      /\ write.handler # "reader" /\ BufferOK(s.writer_buffer)
      /\ s.writer_buffer \in Buffer /\ s.writer_offset \in Nat
      /\ s.writer_index \in Nat /\ cb \in 0 .. ClientCb /\ kind \in WriterKinds
  BY <1>1 DEF IInv, TypeOK, Session, Frame, FrameOK
<1>3. cur \in Nat \ {0} /\ kind = s.writer_buffer.kind
  BY <1>1 DEF IInv, SendOK, At
<1>4. /\ n \in Nat /\ n <= cur /\ room \in 0 .. MaxRoom /\ owed - n \in Int
      /\ timer \in BOOLEAN
  <2>1. sock.room \in 0 .. MaxRoom /\ MaxRoom \in Nat /\ write.timer \in BOOLEAN
    BY <1>2, Constants DEF Socket, Event
  <2>2. timer \in BOOLEAN
    BY <2>1
  <2> HIDE DEF cur, timer
  <2> QED
    BY <1>2, <1>3, <2>1, <2>2
<1> HIDE DEF cur, room, timer
<1>5. k \in Socket
  BY <1>2, <1>4 DEF Socket
<1>6. \/ /\ sock.state \in {"dead", "refused"}
         /\ s' = CASE kind = "pv" -> s
                   [] kind = "ref" -> [s EXCEPT !.writer_offset = 0]
                   [] kind = "av" -> [s EXCEPT !.writer_offset = 0, !.writer_index = 0]
         /\ Continue(Rest \o Report("writer_err", cb))
         /\ UNCHANGED <<write, sock, owed>>
      \/ /\ owed' = owed - n
         /\ sock' = [k EXCEPT !.turn = k.turn \/ owed' = 0]
         /\ write' = [write EXCEPT !.timer = timer]
         /\ \/ /\ kind = "pv"
               /\ s' = [s EXCEPT !.writer_buffer = Empty("pv", <<0>>)]
               /\ Continue(Rest \o WriterCallback(kind, cb))
            \/ /\ kind = "ref"
               /\ s' = [s EXCEPT !.writer_buffer = Empty("undef", <<>>),
                                !.writer_offset = 0]
               /\ Continue(Rest \o WriterCallback(kind, cb))
            \/ /\ kind = "av"
               /\ AvNextBuf(s.writer_index + 1, 0, cb, Rest)
      \/ /\ owed' = owed - n
         /\ LET s1 == IF kind = "pv"
                      THEN [s EXCEPT !.writer_buffer.segs = <<cur - n>>]
                      ELSE [s EXCEPT !.writer_offset = s.writer_offset + n]
            IN WaitWritable([write EXCEPT !.ready = FALSE, !.timer = timer],
                            [k EXCEPT !.nospace = TRUE], s1, kind, cb, Rest)
  BY DEF WriterSend, cur, room, timer
<1> HIDE DEF n, k
<1>7. CASE /\ s' = CASE kind = "pv" -> s
                     [] kind = "ref" -> [s EXCEPT !.writer_offset = 0]
                     [] kind = "av" -> [s EXCEPT !.writer_offset = 0, !.writer_index = 0]
           /\ Continue(Rest \o Report("writer_err", cb))
           /\ UNCHANGED <<write, sock, owed>>
  <2>1. /\ s' \in Session /\ s'.writer_buffer = s.writer_buffer
        /\ s'.writer_offset \in {0, s.writer_offset}
    BY <1>2, <1>7 DEF Session, WriterKinds
  <2>2. Extends(stack', Rest)
    BY <1>1, <1>2, <1>7, Reports DEF Continue, ErrorPcs
  <2> QED
    BY <1>1, <1>2, <1>7, <2>1, <2>2, WriterLeaves
<1>8. CASE /\ owed' = owed - n
           /\ sock' = [k EXCEPT !.turn = k.turn \/ owed' = 0]
           /\ write' = [write EXCEPT !.timer = timer]
           /\ \/ /\ kind = "pv"
                 /\ s' = [s EXCEPT !.writer_buffer = Empty("pv", <<0>>)]
                 /\ Continue(Rest \o WriterCallback(kind, cb))
              \/ /\ kind = "ref"
                 /\ s' = [s EXCEPT !.writer_buffer = Empty("undef", <<>>),
                                  !.writer_offset = 0]
                 /\ Continue(Rest \o WriterCallback(kind, cb))
              \/ /\ kind = "av"
                 /\ AvNextBuf(s.writer_index + 1, 0, cb, Rest)
  <2>1. owed' \in Int
    BY <1>4, <1>8
  <2>2. sock' \in Socket
    <3> DEFINE turn == k.turn \/ owed' = 0
    <3>1. turn \in BOOLEAN /\ sock' = [k EXCEPT !.turn = turn]
      BY <1>5, <1>8 DEF Socket
    <3> HIDE DEF turn
    <3> QED
      BY <1>5, <3>1 DEF Socket
  <2>3. write' \in Event /\ write'.handler = write.handler /\ write'.ready = write.ready
    BY <1>2, <1>4, <1>8 DEF Event
  <2>4. /\ Empty("undef", <<>>) \in Buffer /\ BufferOK(Empty("undef", <<>>))
        /\ Empty("pv", <<0>>) \in Buffer /\ BufferOK(Empty("pv", <<0>>))
    BY DEF Empty, Buffer, BufferOK
  <2>5. CASE kind # "av"
    <3>1. /\ s' \in Session /\ BufferOK(s'.writer_buffer)
          /\ s'.writer_offset \in {0, s.writer_offset}
          /\ kind = "ref" => s'.writer_offset = 0
          /\ stack' = Rest \o WriterCallback(kind, cb)
      <4>1. CASE kind = "pv"
        <5>1. s' = [s EXCEPT !.writer_buffer = Empty("pv", <<0>>)]
          BY <1>8, <4>1
        <5> QED
          BY <1>2, <1>8, <2>4, <2>5, <4>1, <5>1 DEF Session, Continue
      <4>2. CASE kind = "ref"
        <5>1. s' = [s EXCEPT !.writer_buffer = Empty("undef", <<>>),
                             !.writer_offset = 0]
          BY <1>8, <4>2
        <5> QED
          BY <1>2, <1>8, <2>4, <2>5, <4>2, <5>1 DEF Session, Continue
      <4> QED
        BY <1>2, <2>5, <4>1, <4>2 DEF WriterKinds
    <3> QED
      BY <1>1, <1>2, <2>1, <2>2, <2>3, <3>1, WriterContinues
  <2>6. CASE kind = "av"
    <3>1. AvNextBuf(s.writer_index + 1, 0, cb, Rest) /\ s.writer_index + 1 \in Nat
      BY <1>2, <1>8, <2>6
    <3> QED
      BY <1>1, <1>2, <1>3, <2>1, <2>2, <2>3, <2>6, <3>1, AvNextBufStep
  <2> QED
    BY <2>5, <2>6
<1>9. CASE /\ owed' = owed - n
           /\ LET s1 == IF kind = "pv"
                        THEN [s EXCEPT !.writer_buffer.segs = <<cur - n>>]
                        ELSE [s EXCEPT !.writer_offset = s.writer_offset + n]
              IN WaitWritable([write EXCEPT !.ready = FALSE, !.timer = timer],
                              [k EXCEPT !.nospace = TRUE], s1, kind, cb, Rest)
  <2> DEFINE left == cur - n
             off == s.writer_offset + n
             b == [s.writer_buffer EXCEPT !.segs = <<left>>]
             s1 == IF kind = "pv" THEN [s EXCEPT !.writer_buffer = b]
                   ELSE [s EXCEPT !.writer_offset = off]
             w == [write EXCEPT !.ready = FALSE, !.timer = timer]
             nospace == [k EXCEPT !.nospace = TRUE]
  <2>1. left \in Nat /\ off \in Nat /\ owed' \in Int
    BY <1>2, <1>3, <1>4, <1>9
  <2>2. [s EXCEPT !.writer_buffer.segs = <<left>>] = [s EXCEPT !.writer_buffer = b]
    BY <1>2 DEF Session
  <2>3. WaitWritable(w, nospace, s1, kind, cb, Rest)
    BY <1>9, <2>2
  <2> HIDE DEF left, off
  <2>4. b \in Buffer /\ BufferOK(b)
    <3> DEFINE segs == <<left>>
    <3>1. segs \in Seq(Nat \cup {NotRef}) /\ Len(segs) = 1 /\ segs[1] \in Nat
      BY <2>1
    <3> HIDE DEF segs
    <3>2. b \in Buffer /\ b.segs = segs
      BY <1>2, <3>1 DEF Buffer, segs
    <3> QED
      BY <3>1, <3>2 DEF BufferOK
  <2> HIDE DEF b
  <2>5. s1 \in Session /\ BufferOK(s1.writer_buffer)
    BY <1>2, <2>1, <2>4 DEF Session
  <2>6. w \in Event /\ ~w.ready /\ w.handler = write.handler
    BY <1>2, <1>4 DEF Event
  <2>7. nospace \in Socket
    BY <1>5 DEF Socket
  <2> HIDE DEF s1, w, nospace
  <2> QED
    BY <1>1, <1>2, <2>1, <2>3, <2>5, <2>6, <2>7, WaitWritableStep
<1> QED
  BY <1>6, <1>7, <1>8, <1>9

-----------------------------------------------------------------------------
(* The theorems. *)

(* A connection just accepted, or just created by ngxe_client(). *)
LEMMA InitIInv ==
  ASSUME Init
  PROVE  IInv
<1> DEFINE f == F("server_cb")
<1>1. f \in Frame /\ f.pc = "server_cb"
  BY Constants DEF F, Frame, OkPcs, ClientCb
<1>2. stack = <<>> \/ stack = <<f>>
  BY DEF Init, Accepted, Connecting
<1> HIDE DEF f
<1>3. /\ StackOK(stack) /\ Frames(stack) \subseteq {f}
      /\ stack # <<>> => Top = f
  <2>1. /\ StackOK(<<>>) /\ Frames(<<>>) = {}
        /\ StackOK(<<f>>) /\ Frames(<<f>>) = {f} /\ <<f>>[Len(<<f>>)] = f
    BY <1>1, LoopStacks
  <2>2. CASE stack = <<>>
    BY <2>1, <2>2
  <2>3. CASE stack = <<f>>
    BY <2>1, <2>3 DEF Top
  <2> QED
    BY <1>2, <2>2, <2>3
<1>4. read \in Event /\ write \in Event /\ read.handler # "writer" /\ write.handler # "reader"
  <2>1. CASE Accepted
    BY <2>1 DEF Accepted, Event, Handlers
  <2>2. CASE Connecting
    BY <2>2 DEF Connecting, Event, Handlers
  <2> QED
    BY <2>1, <2>2 DEF Init
<1>5. s \in Session /\ BufferOK(s.writer_buffer)
  <2> DEFINE b == Empty("null", <<>>)
             cb == IF Role = "client" THEN ClientCb ELSE 0
             m == [c \in 1 .. MaxCallbacks |-> 0]
  <2>1. b \in Buffer /\ BufferOK(b)
    BY DEF Empty, Buffer, BufferOK
  <2>2. /\ cb \in 0 .. ClientCb /\ 0 \in 0 .. MaxCallbacks /\ BufLen \in Nat
        /\ m \in [1 .. MaxCallbacks -> MinLens]
    BY Constants DEF ClientCb
  <2>3. PICK timeout \in Timeouts :
          s = [reader_callback |-> 0, reader_timeout |-> FALSE,
               cur |-> 0, len |-> BufLen, min_len |-> m,
               writer_callback |-> cb, writer_timeout |-> Role = "client" /\ timeout,
               writer_buffer |-> b, writer_offset |-> 0, writer_index |-> 0]
    BY DEF Init
  <2> HIDE DEF b, cb, m
  <2> QED
    BY <2>1, <2>2, <2>3, Constants DEF Session
<1>6. sock \in Socket
  <2>1. MaxRoom \in 0 .. MaxRoom /\ 0 \in 0 .. MaxRoom /\ 0 \in Nat
    BY Constants
  <2>2. CASE Accepted
    BY <2>1, <2>2 DEF Accepted, Socket
  <2>3. CASE Connecting
    BY <2>1, <2>3 DEF Connecting, Socket
  <2> QED
    BY <2>2, <2>3 DEF Init
<1>7. ~destroyed /\ destroyed \in BOOLEAN /\ owed \in Int
  <2>1. destroyed = FALSE
    BY DEF Init
  <2>2. owed = 0
    BY DEF Init
  <2>3. ~destroyed /\ destroyed \in BOOLEAN
    BY <2>1, Zenon
  <2>4. owed \in Int
    BY <2>2
  <2> QED
    BY <2>3, <2>4
<1>8. TypeOK
  BY <1>3, <1>4, <1>5, <1>6, <1>7 DEF TypeOK, StackOK
<1>9. SendOK /\ OffsetOK /\ ReadyOK /\ ClosedOK
  BY <1>1, <1>3, <1>7 DEF SendOK, OffsetOK, ReadyOK, ClosedOK, At
<1> QED
  BY <1>3, <1>4, <1>5, <1>8, <1>9 DEF IInv

(* Every step preserves the inductive invariant. *)
LEMMA NextIInv ==
  ASSUME IInv, [Next]_vars
  PROVE  IInv'
<1>1. CASE UNCHANGED vars
  <2>1. TypeOK'
    BY <1>1 DEF IInv, TypeOK, vars
  <2> QED
    BY <1>1, <2>1, PreserveSame DEF vars
<1>2. CASE Handler
  BY <1>2, ReaderEntryStep, ReaderRecvStep, ReaderAfterCallbackStep,
     WriterEntryStep, WriterSendStep, WriterAfterCallbackStep,
     ClientInitStep, CloseAfterErrorStep, EpollOutStep DEF Handler
<1>3. CASE EpollWait \/ ReadTimer \/ WriteTimer
  BY <1>3, EpollWaitStep, TimerSteps
<1>4. CASE AppCallback
  BY <1>4, AppCallbackStep
<1>5. CASE App
  BY <1>5, AppReader, AppWriter, AppPut, AppSession, AppStartStop, AppClose DEF App
<1>6. CASE Return
  BY <1>6, Returns DEF Return, Continue
<1>7. CASE Environment
  BY <1>7, EnvironmentStep
<1> QED
  BY <1>1, <1>2, <1>3, <1>4, <1>5, <1>6, <1>7 DEF Next

(* The inductive invariant holds in every reachable state of a connection, *)
(* whatever the application calls from the engine's callbacks.             *)
THEOREM Invariance == Spec => []IInv
<1>1. Init => IInv
  BY InitIInv
<1>2. IInv /\ [Next]_vars => IInv'
  BY NextIInv
<1> QED
  BY <1>1, <1>2, PTL DEF Spec

(* The state keeps its types: no size, offset or count that the handlers   *)
(* compute by subtraction becomes negative.                                *)
THEOREM TypeCorrect == Spec => []TypeOK
<1>1. IInv => TypeOK
  BY DEF IInv
<1> QED
  BY <1>1, Invariance, PTL

(* ngxe_reader_handler never runs inside itself, whatever a callback does. *)
THEOREM OneReaderAtATime == Spec => []OneReader
<1>1. ASSUME IInv PROVE OneReader
  <2> SUFFICES ASSUME NEW i \in DOMAIN stack, NEW j \in DOMAIN stack,
                      stack[i].pc \in ReaderPcs, stack[j].pc \in ReaderPcs
               PROVE  i = j
    BY DEF OneReader
  <2>1. i \in 1 .. Len(stack) /\ j \in 1 .. Len(stack)
    BY <1>1 DEF IInv, TypeOK
  <2> QED
    BY <1>1, <2>1 DEF IInv, StackOK, ReaderPcs
<1> QED
  BY <1>1, Invariance, PTL

(* In the handler after RECVAGAIN read->ready is set, so that its calls of *)
(* ngx_handle_read_event cannot fail.                                      *)
THEOREM ReaderStaysReady == Spec => []ReaderReady
<1>1. ASSUME IInv PROVE ReaderReady
  <2> SUFFICES ASSUME NEW i \in DOMAIN stack,
                      stack[i].pc \in {"recv", "recvd"}, ~destroyed
               PROVE  read.ready
    BY DEF ReaderReady
  <2>1. stack[i] \in Frames(stack)
    BY <1>1 DEF IInv, TypeOK, Frames
  <2> QED
    BY <1>1, <2>1 DEF IInv, ReadyOK
<1> QED
  BY <1>1, Invariance, PTL

(* send() is called with at least one byte, on an open descriptor, by each *)
(* of the three writer handlers.                                           *)
THEOREM AlwaysSendsSomething == Spec => []SendsSomething
<1>1. ASSUME IInv PROVE SendsSomething
  <2> SUFFICES ASSUME At("send") PROVE ~destroyed /\ SendSize(Top.kind) > 0
    BY DEF SendsSomething
  <2>1. ~destroyed
    BY <1>1, Running
  <2>2. SendSize(Top.kind) \in Nat \ {0}
    BY <1>1 DEF IInv, SendOK
  <2> QED
    BY <2>1, <2>2
<1> QED
  BY <1>1, Invariance, PTL

(* After ngxe_close() the connection has no timer and no registered event, *)
(* and the handlers that are still on the stack are between a callback and *)
(* their return.                                                           *)
THEOREM ClosedStaysQuiet == Spec => []ClosedIsQuiet
<1>1. IInv => ClosedIsQuiet
  BY DEF IInv, ClosedOK, ClosedIsQuiet, Resumable, Top, WaitingPcs
<1> QED
  BY <1>1, Invariance, PTL

(* A step on a closed connection returns from a call or leaves the stack   *)
(* alone: no callback of it is called any more.                            *)
THEOREM NoCallbackOnceClosed == Spec => NoCallbackAfterClose
<1> DEFINE Quiet == destroyed => Len(stack') < Len(stack) \/ stack' = stack
<1>1. ASSUME IInv, [Next]_vars PROVE Quiet \/ UNCHANGED vars
  <2> SUFFICES ASSUME destroyed, Next
               PROVE  (stack # <<>> /\ stack' = Rest) \/ stack' = stack
    <3>1. stack # <<>> => Len(Rest) < Len(stack)
      BY <1>1, Pop DEF IInv, Rest, StackOK
    <3> QED
      BY <1>1, <3>1
  <2>1. /\ Resumable(stack) /\ ~sock.rdl /\ sock.state = "closed"
        /\ ~read.timer /\ ~write.timer /\ ~write.active
    BY <1>1 DEF IInv, ClosedOK
  <2>2. CASE Handler
    <3>1. ~(ReaderEntry \/ ReaderRecv \/ WriterEntry \/ WriterSend \/ ClientInit
            \/ CloseAfterError)
      BY <2>1 DEF ReaderEntry, ReaderRecv, WriterEntry, WriterSend, ClientInit,
         CloseAfterError, At, Top, Resumable, WaitingPcs, OkPcs
    <3>2. CASE ReaderAfterCallback
      BY <3>2 DEF ReaderAfterCallback, ReaderDone, Continue, At
    <3>3. CASE WriterAfterCallback
      BY <3>3 DEF WriterAfterCallback, Continue, At
    <3>4. CASE EpollOut
      BY <2>1, <3>4 DEF EpollOut, Continue, At
    <3> QED
      BY <2>2, <3>1, <3>2, <3>3, <3>4 DEF Handler
  <2>3. CASE EpollWait \/ ReadTimer \/ WriteTimer \/ AppCallback
    BY <2>1, <2>3 DEF EpollWait, ReadTimer, WriteTimer, AppCallback
  <2>4. CASE App
    BY <2>4 DEF App, ngxe_reader, ngxe_writer, ngxe_writer_put, SetWriteBuffer,
       ngxe_reader_timeout, ngxe_writer_timeout, XS_reader_start, XS_writer_start,
       XS_reader_stop, XS_reader_stop_writer_start, XS_writer_stop,
       XS_writer_stop_reader_start, XS_close, ClearReadBuffer, UndefReadBuffer,
       SetMinLen, Calls, ngxe_close, Continue
  <2>5. CASE Return
    BY <2>5 DEF Return, Continue
  <2>6. CASE Environment
    BY <2>6 DEF Environment, Arrive, PeerClose, PeerReset, Drain, ConnectDone
  <2> QED
    BY <2>2, <2>3, <2>4, <2>5, <2>6 DEF Next
<1>2. ASSUME IInv, [Next]_vars PROVE [Quiet]_vars
  BY <1>1, <1>2
<1> QED
  BY <1>2, Invariance, PTL DEF Spec, NoCallbackAfterClose

(* What NEXTBUF, waiting and stopping do to the session, they do to its    *)
(* writer: the read buffer stays as it is.                                 *)
KeepsRead == s'.cur = s.cur /\ s'.len = s.len

(* NEXTBUF leaves the read buffer alone. *)
LEMMA NextBufKeepsRead ==
  ASSUME s \in Session, NEW i, NEW off, NEW cb, NEW stk, AvNextBuf(i, off, cb, stk)
  PROVE  KeepsRead
<1> DEFINE j == NextBuf(s.writer_buffer.segs, i, off)
           rest == IF j = i THEN off ELSE 0
           e == Empty("undef", <<>>)
<1>1. \/ s' = [s EXCEPT !.writer_buffer = e, !.writer_index = j, !.writer_offset = rest]
      \/ s' = [s EXCEPT !.writer_index = 0, !.writer_offset = 0]
      \/ s' = [s EXCEPT !.writer_index = j, !.writer_offset = rest]
  BY DEF AvNextBuf
<1> HIDE DEF j, rest, e
<1> QED
  BY <1>1 DEF Session, KeepsRead

(* So does waiting for the socket, after whatever the writer noted. *)
LEMMA WaitingKeepsRead ==
  ASSUME NEW w, NEW k, NEW s1, NEW kind, NEW cb, NEW stk,
         WaitWritable(w, k, s1, kind, cb, stk)
  PROVE  s' = s1 \/ (kind # "pv" /\ s' = [s1 EXCEPT !.writer_offset = 0])
BY DEF WaitWritable

(* The writer's handlers leave the read buffer alone. *)
LEMMA WriterKeepsRead ==
  ASSUME IInv, WriterEntry \/ WriterSend \/ WriterAfterCallback
  PROVE  KeepsRead
<1> s \in Session
  BY DEF IInv, TypeOK
<1>1. CASE WriterEntry
  <2>1. \/ s' = s \/ s' = [s EXCEPT !.writer_offset = 0]
        \/ AvNextBuf(s.writer_index, s.writer_offset, s.writer_callback, Rest)
    BY <1>1 DEF WriterEntry, RefEntry
  <2> QED
    BY <2>1, NextBufKeepsRead DEF Session, KeepsRead
<1>2. CASE WriterSend
  <2> DEFINE cur == SendSize(Top.kind)
             n == IF cur < sock.room THEN cur ELSE sock.room
             s1 == IF Top.kind = "pv"
                   THEN [s EXCEPT !.writer_buffer.segs = <<cur - n>>]
                   ELSE [s EXCEPT !.writer_offset = @ + n]
             e == Empty("undef", <<>>)
             d == Empty("pv", <<0>>)
  <2>1. \/ s' = CASE Top.kind = "pv" -> s
                  [] Top.kind = "ref" -> [s EXCEPT !.writer_offset = 0]
                  [] Top.kind = "av" -> [s EXCEPT !.writer_offset = 0, !.writer_index = 0]
        \/ s' = [s EXCEPT !.writer_buffer = d]
        \/ s' = [s EXCEPT !.writer_buffer = e, !.writer_offset = 0]
        \/ AvNextBuf(s.writer_index + 1, 0, Top.cb, Rest)
        \/ s' = s1 \/ (Top.kind # "pv" /\ s' = [s1 EXCEPT !.writer_offset = 0])
    BY <1>2, WaitingKeepsRead DEF WriterSend
  <2> HIDE DEF cur, n, e, d
  <2>2. CASE s' = s1 \/ (Top.kind # "pv" /\ s' = [s1 EXCEPT !.writer_offset = 0])
    BY <2>2 DEF Session, KeepsRead
  <2>3. CASE s' = CASE Top.kind = "pv" -> s
                  [] Top.kind = "ref" -> [s EXCEPT !.writer_offset = 0]
                  [] Top.kind = "av" -> [s EXCEPT !.writer_offset = 0, !.writer_index = 0]
    <3>1. Top.kind \in WriterKinds
      <4>1. At("send") /\ FrameOK(Top) /\ Top.pc = "send"
        BY <1>2, Running DEF WriterSend, At
      <4> QED
        BY <4>1 DEF FrameOK
    <3> QED
      BY <2>3, <3>1 DEF WriterKinds, Session, KeepsRead
  <2>4. CASE AvNextBuf(s.writer_index + 1, 0, Top.cb, Rest)
    BY <2>4, NextBufKeepsRead
  <2> QED
    BY <2>1, <2>2, <2>3, <2>4 DEF Session, KeepsRead
<1>3. CASE WriterAfterCallback
  <2> DEFINE s1 == IF Top.kind = "av"
                   THEN [s EXCEPT !.writer_offset = 0, !.writer_index = 0]
                   ELSE s
  <2>1. \/ s' = s \/ s' = s1 \/ s' = [s1 EXCEPT !.writer_offset = 0]
        \/ AvNextBuf(0, 0, Top.cb, Rest)
    BY <1>3, WaitingKeepsRead DEF WriterAfterCallback, Rewound
  <2>2. CASE AvNextBuf(0, 0, Top.cb, Rest)
    BY <2>2, NextBufKeepsRead
  <2> QED
    BY <2>1, <2>2 DEF Session, KeepsRead
<1> QED
  BY <1>1, <1>2, <1>3

(* An application that empties the read buffer, and never frees it. *)
NeverUndef == "undef $_[2]" \notin Api

(* Only recv() and the application change the size of the read buffer. *)
LEMMA ReadBufferStep ==
  ASSUME IInv, ReadBufferFits, Next, NeverUndef
  PROVE  ReadBufferFits'
<1>1. s \in Session /\ s.cur \in Nat /\ s.len \in Nat /\ s.cur < s.len
  BY DEF IInv, TypeOK, Session, ReadBufferFits
<1>2. CASE ReaderRecv
  <2> DEFINE len == IF s.len = s.cur + 1 THEN s.len + Grow ELSE s.len
             size == RecvSize(len)
             n == IF sock.inq < size THEN sock.inq ELSE size
  <2>1. sock.inq \in Nat
    BY DEF IInv, TypeOK, Socket
  <2>2. len \in Nat /\ s.cur < len
    BY <1>1, Constants
  <2>3. \/ s' = s
        \/ s' = [s EXCEPT !.cur = @ + n, !.len = len]
        \/ s' = [s EXCEPT !.len = len]
    BY <1>2 DEF ReaderRecv
  <2> HIDE DEF len
  <2>4. size \in Nat /\ s.cur + size < len
    BY <1>1, <2>2 DEF RecvSize
  <2> HIDE DEF size
  <2>5. n \in Nat /\ n <= size
    BY <2>1, <2>4
  <2> HIDE DEF n
  <2>6. CASE s' = s
    BY <1>1, <2>6 DEF ReadBufferFits
  <2>7. CASE s' = [s EXCEPT !.cur = @ + n, !.len = len]
    <3>1. s'.cur = s.cur + n /\ s'.len = len
      BY <1>1, <2>7 DEF Session
    <3>2. s.cur + n < len
      BY <1>1, <2>2, <2>4, <2>5
    <3> QED
      BY <3>1, <3>2 DEF ReadBufferFits
  <2>8. CASE s' = [s EXCEPT !.len = len]
    <3>1. s'.cur = s.cur /\ s'.len = len
      BY <1>1, <2>8 DEF Session
    <3> QED
      BY <2>2, <3>1 DEF ReadBufferFits
  <2> QED
    BY <2>3, <2>6, <2>7, <2>8
<1>3. CASE ClearReadBuffer
  <2>1. s'.cur = 0 /\ s'.len = s.len
    BY <1>1, <1>3 DEF ClearReadBuffer, Session
  <2>2. 0 < s.len
    BY <1>1
  <2> QED
    BY <2>1, <2>2 DEF ReadBufferFits
<1>4. CASE Handler /\ ~ReaderRecv
  <2>1. CASE ReaderEntry \/ ReaderAfterCallback \/ ClientInit \/ CloseAfterError \/ EpollOut
    <3>1. KeepsRead
      BY <1>1, <2>1 DEF Session, ReaderEntry, ReaderAfterCallback, ClientInit,
         CloseAfterError, EpollOut, KeepsRead
    <3> QED
      BY <1>1, <3>1 DEF ReadBufferFits, KeepsRead
  <2>2. CASE WriterEntry \/ WriterSend \/ WriterAfterCallback
    BY <1>1, <2>2, WriterKeepsRead DEF ReadBufferFits, KeepsRead
  <2> QED
    BY <1>4, <2>1, <2>2 DEF Handler
<1>5. CASE App /\ ~ClearReadBuffer
  <2>1. ~UndefReadBuffer
    BY Zenon DEF UndefReadBuffer, Calls, NeverUndef
  <2>2. KeepsRead
    BY <1>1, <1>5, <2>1 DEF Session, App, ngxe_reader, ngxe_writer, ngxe_writer_put,
       SetWriteBuffer, ngxe_reader_timeout, ngxe_writer_timeout, XS_reader_start,
       XS_writer_start, XS_reader_stop, XS_reader_stop_writer_start, XS_writer_stop,
       XS_writer_stop_reader_start, XS_close, SetMinLen, KeepsRead
  <2> QED
    BY <1>1, <2>2 DEF ReadBufferFits, KeepsRead
<1>6. CASE \/ EpollWait \/ ReadTimer \/ WriteTimer \/ AppCallback \/ Return \/ Environment
  <2>1. s' = s
    BY <1>6 DEF EpollWait, ReadTimer, WriteTimer, AppCallback, Return, Environment,
       Arrive, PeerClose, PeerReset, Drain, ConnectDone
  <2> QED
    BY <1>1, <2>1 DEF ReadBufferFits
<1> QED
  BY <1>2, <1>3, <1>4, <1>5, <1>6 DEF Next

(* recv() always leaves the byte that Perl keeps for the NUL, however far  *)
(* the buffer grew, as long as no reader callback frees the buffer (the    *)
(* run v_undef is about one that does).                                    *)
THEOREM ReadBufferAlwaysFits ==
  ASSUME NeverUndef
  PROVE  Spec => []ReadBufferFits
<1>1. ASSUME Init PROVE ReadBufferFits
  <2>1. s.cur = 0 /\ s.len = BufLen
    BY <1>1 DEF Init
  <2> QED
    BY <2>1, Constants DEF ReadBufferFits
<1>2. IInv /\ ReadBufferFits /\ [Next]_vars => ReadBufferFits'
  BY ReadBufferStep DEF vars, ReadBufferFits
<1> QED
  BY <1>1, <1>2, Invariance, PTL DEF Spec

=============================================================================
