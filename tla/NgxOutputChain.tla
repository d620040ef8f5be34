-------------------------- MODULE NgxOutputChain ----------------------------
(***************************************************************************)
(* The way of output (ngx_output_chain.c, ngx_buf.c and the send_chain      *)
(* functions of os/unix): buffers in memory or in a file are passed on or   *)
(* copied into a few buffers of its own by ngx_output_chain, queued by      *)
(* ngx_chain_writer and gathered, as far as the system call of the platform *)
(* allows, into what the socket takes a part of.  The data are the numbers  *)
(* 1, 2, 3 and so on.                                                       *)
(***************************************************************************)
EXTENDS Naturals, FiniteSets, SequencesExt

CONSTANTS
    ChTotal,    \* bytes in all
    ChBufs,     \* bound: buffers the caller hands over in all
    ChSizes,    \* sizes of the caller's buffers
    ChKinds,    \* kinds of the caller's buffers: "memory", "temp", "file", "both", "flush"
    ChIov,      \* IOV_MAX
    ChPage,     \* ngx_pagesize
    ChLimit,    \* the largest limit of a send_chain function
    ChModes     \* records [method, sendfile, inmemory, intemp, directio, num, size]

VARIABLES ch, chSock

chvars == <<ch, chSock>>

(* A buffer.  Memory m = 0 is the callers': address a holds byte a + 1; files  *)
(* hold byte (o % Far) + 1 at offset o.                                        *)
Far == 100
NoBuf == [mem |-> FALSE, ro |-> FALSE, m |-> 0, pos |-> 0, last |-> 0,
          file |-> FALSE, fpos |-> 0, flast |-> 0, own |-> FALSE]
Special(b) == ~b.mem /\ ~b.file                         \* ngx_buf_special
InMemoryOnly(b) == b.mem /\ ~b.file                     \* ngx_buf_in_memory_only
BufSize1(b) == IF b.mem THEN b.last - b.pos ELSE b.flast - b.fpos        \* ngx_buf_size
Lesser(x, y) == IF x < y THEN x ELSE y

MemBytes(s, b, n) ==
    [i \in 1..n |-> IF b.m = 0 THEN b.pos + i ELSE s.memory[b.m][b.pos + i]]
FileBytes(o, n) == [i \in 1..n |-> ((o + i - 1) % Far) + 1]

ChInit ==
    /\ \E mode \in ChModes :
         ch = [mode |-> mode, pc |-> "idle", given |-> 0, next |-> 0, ready |-> TRUE,
               b |-> <<>>,              \* buffers; chains are sequences of indices
               memory |-> <<>>,         \* memory of the buffers ngx_output_chain allocates
               in |-> <<>>, busy |-> <<>>, free |-> <<>>, out |-> <<>>, buf |-> 0,
               allocated |-> 0, last |-> "none", direct |-> FALSE,
               wout |-> <<>>,           \* the chain of ngx_chain_writer
               send |-> 0, complete |-> FALSE]
    /\ chSock = <<>>

-----------------------------------------------------------------------------
(* ngx_output_chain_as_is, and the flag it clears on the way. *)
AsIs(s, b) ==
    \/ Special(b)
    \/ /\ ~(b.file /\ s.mode.directio)
       /\ ~s.mode.sendfile => b.mem
       /\ s.mode.inmemory => b.mem
       /\ ~(s.mode.intemp /\ b.ro)
Asked(s, i) ==
    IF ~s.mode.sendfile /\ s.b[i].mem /\ ~(s.b[i].file /\ s.mode.directio)
    THEN [s EXCEPT !.b[i].file = FALSE] ELSE s

(* ngx_output_chain is called with new buffers, or with none to go on. *)
NewBuf(kind, at, n, far) ==
    CASE kind = "flush" -> NoBuf
      [] kind = "memory" -> [NoBuf EXCEPT !.mem = TRUE, !.ro = TRUE, !.pos = at, !.last = at + n]
      [] kind = "temp" -> [NoBuf EXCEPT !.mem = TRUE, !.pos = at, !.last = at + n]
      [] kind = "file" -> [NoBuf EXCEPT !.file = TRUE, !.fpos = far + at, !.flast = far + at + n]
      [] kind = "both" -> [NoBuf EXCEPT !.mem = TRUE, !.ro = TRUE, !.pos = at, !.last = at + n,
                                        !.file = TRUE, !.fpos = far + at, !.flast = far + at + n]

Entered(s, new) ==
    IF s.in = <<>> /\ s.busy = <<>> /\ (new = <<>> \/ (Len(new) = 1 /\ AsIs(s, s.b[new[1]])))
    THEN LET t == IF new = <<>> THEN s ELSE Asked(s, new[1])
         IN  [t EXCEPT !.out = new, !.direct = TRUE, !.pc = "filter"]
    ELSE [s EXCEPT !.in = @ \o new, !.direct = FALSE, !.last = "none", !.pc = "copy"]

OutputChain ==
    /\ ch.pc = "idle" /\ ch.next < ChTotal
    /\ \E kinds \in {<<k>> : k \in ChKinds} \cup (ChKinds \X ChKinds), size \in ChSizes, far \in {0, Far} :
         LET total == ch.next + Len(SelectSeq(kinds, LAMBDA k : k # "flush")) * size
             at(i) == ch.next + Len(SelectSeq(SubSeq(kinds, 1, i - 1), LAMBDA k : k # "flush")) * size
             new == [i \in 1..Len(kinds) |-> NewBuf(kinds[i], at(i), size, IF i = 1 THEN 0 ELSE far)]
         IN  /\ total <= ChTotal /\ ch.given + Len(kinds) <= ChBufs
             /\ ch' = Entered([ch EXCEPT !.b = @ \o new, !.next = total, !.given = @ + Len(kinds)],
                              [i \in 1..Len(kinds) |-> Len(ch.b) + i])
    /\ UNCHANGED chSock

OutputMore ==
    /\ ch.pc = "idle" /\ ch.ready /\ (ch.in # <<>> \/ ch.busy # <<>> \/ ch.wout # <<>>)
    /\ ch' = Entered(ch, <<>>)
    /\ UNCHANGED chSock

-----------------------------------------------------------------------------
(* ngx_output_chain_align_file_buf: a buffer of its own for the part of a       *)
(* directio file before the next aligned offset, or for a short rest.           *)
AlignedSize(s, b) ==
    LET over == b.fpos % ChPage
        size == BufSize1(b)
    IN  IF ~b.file \/ ~s.mode.directio THEN 0
        ELSE IF over = 0 THEN (IF size >= s.mode.size THEN 0 ELSE size)
        ELSE Lesser(ChPage - over, size)

NewMemory(s, n, own) ==
    [s EXCEPT !.b = Append(@, [NoBuf EXCEPT !.mem = TRUE, !.m = Len(s.memory) + 1, !.own = own]),
              !.memory = Append(@, [i \in 1..n |-> 0]),
              !.buf = Len(s.b) + 1]

(* ngx_output_chain_get_buf: at most bufs.num of them. *)
GetBuf(s) == [NewMemory(s, s.mode.size, TRUE) EXCEPT !.allocated = @ + 1]

BufFor(s) ==
    LET n == AlignedSize(s, s.b[Head(s.in)])
    IN  IF s.buf # 0 THEN {s}
        ELSE IF n > 0 THEN {NewMemory(s, n, FALSE)}
        ELSE IF s.free # <<>> THEN {[s EXCEPT !.buf = Head(s.free), !.free = Tail(s.free)]}
        ELSE IF s.out # <<>> \/ s.allocated = s.mode.num THEN {}
        ELSE {GetBuf(s)}

(* ngx_output_chain_copy_buf. *)
FaultAdvanced(b, n) == [b EXCEPT !.pos = IF b.mem THEN @ + n ELSE @]
Advanced(b, n) == [b EXCEPT !.pos = IF b.mem THEN @ + n ELSE @, !.fpos = IF b.file THEN @ + n ELSE @]
CopyBuf(s) ==
    LET i == Head(s.in)
        src == s.b[i]
        dst == s.b[s.buf]
        n == Lesser(BufSize1(src), Len(s.memory[dst.m]) - dst.pos)
        data == IF src.mem THEN MemBytes(s, src, n) ELSE FileBytes(src.fpos, n)
        both == src.file /\ s.mode.sendfile /\ ~s.mode.directio
    IN  [s EXCEPT !.memory[dst.m] = [k \in DOMAIN @ |-> IF k \in dst.pos + 1..dst.pos + n THEN data[k - dst.pos]
                                                        ELSE @[k]],
                  !.b = [@ EXCEPT ![i] = Advanced(src, n),
                                  ![s.buf] = [dst EXCEPT !.last = @ + n, !.file = both,
                                                         !.fpos = IF both THEN src.fpos ELSE 0,
                                                         !.flast = IF both THEN src.fpos + n ELSE 0]]]

(* One turn of the loop over ctx->in: a buffer is dropped, moved to the output  *)
(* chain or copied; or the loop ends, and with it the call if nothing is to be  *)
(* sent.                                                                        *)
Copied(s) ==
    {[t EXCEPT !.out = Append(@, t.buf), !.buf = 0,
               !.in = IF BufSize1(t.b[Head(t.in)]) = 0 THEN Tail(@) ELSE @]
     : t \in {CopyBuf(r) : r \in BufFor(s)}}
LoopEnds(s) ==
    IF s.out = <<>> /\ s.last # "none" THEN [s EXCEPT !.pc = "idle"] ELSE [s EXCEPT !.pc = "filter"]

CopyStep ==
    /\ ch.pc = "copy"
    /\ ch' \in IF ch.in = <<>> THEN {LoopEnds(ch)}
               ELSE LET i == Head(ch.in) IN
                    IF BufSize1(ch.b[i]) = 0 /\ ~Special(ch.b[i]) THEN {[ch EXCEPT !.in = Tail(@)]}
                    ELSE IF AsIs(ch, ch.b[i])
                         THEN {[Asked(ch, i) EXCEPT !.in = Tail(@), !.out = Append(@, i)]}
                    ELSE IF BufFor(ch) = {} THEN {LoopEnds(ch)}
                    ELSE Copied(ch)
    /\ UNCHANGED chSock

(* The file cannot be read, or has become shorter: NGX_ERROR. *)
CopyFails ==
    /\ ch.pc = "copy" /\ ch.in # <<>>
    /\ LET b == ch.b[Head(ch.in)]
       IN  ~b.mem /\ BufSize1(b) > 0 /\ ~AsIs(ch, b) /\ BufFor(ch) # {}
    /\ ch' = [ch EXCEPT !.pc = "error"]
    /\ UNCHANGED chSock

-----------------------------------------------------------------------------
(* ngx_chain_writer. *)
Returned(s, rc) ==          \* to ngx_output_chain: ngx_chain_update_chains follows
    IF s.direct THEN {[s EXCEPT !.pc = "idle", !.out = <<>>]}
    ELSE LET chain == s.busy \o s.out
             full == {i \in 1..Len(chain) : BufSize1(s.b[chain[i]]) # 0}
             n == IF full = {} THEN Len(chain) ELSE (CHOOSE i \in full : \A j \in full : i <= j) - 1
             done == SelectSeq(SubSeq(chain, 1, n), LAMBDA i : s.b[i].own)
         IN  {[s EXCEPT !.busy = SubSeq(chain, n + 1, Len(chain)),
                        !.free = Reverse(done) \o @,
                        !.b = [i \in DOMAIN s.b |-> IF i \in Range(done)
                                                    THEN [s.b[i] EXCEPT !.pos = 0, !.last = 0] ELSE s.b[i]],
                        !.out = <<>>, !.last = rc, !.pc = "copy"]}

ChainWriter ==
    /\ ch.pc = "filter"
    /\ LET chain == ch.wout \o ch.out
           empty == \A i \in Range(chain) : BufSize1(ch.b[i]) = 0
       IN  ch' \in IF empty THEN Returned([ch EXCEPT !.wout = chain], "ok")
                   ELSE IF ~ch.ready THEN Returned([ch EXCEPT !.wout = chain], "again")
                   ELSE {[ch EXCEPT !.wout = chain, !.pc = "send", !.send = 0, !.complete = FALSE]}
    /\ UNCHANGED chSock

-----------------------------------------------------------------------------
(* What a send_chain function gathers: g.k links of the chain, g.data.  The     *)
(* buffers in memory first; adjacent ones share an element of the iovec.        *)
NoGather(send) == [k |-> 0, go |-> TRUE, n |-> 0, prev |-> <<-1, 0>>, send |-> send, data |-> <<>>, odd |-> FALSE]
Skips(s, b) == IF s.mode.method = "writev" THEN FALSE ELSE ~InMemoryOnly(b)

MemLink(s, g, b) ==
    LET size == Lesser(b.last - b.pos, ChLimit - g.send)
    IN  IF ~g.go \/ g.n >= ChIov \/ g.send >= ChLimit THEN [g EXCEPT !.go = FALSE]
        ELSE IF Special(b) THEN [g EXCEPT !.k = @ + 1]
        ELSE IF Skips(s, b) THEN [g EXCEPT !.go = FALSE]
        ELSE [g EXCEPT !.k = @ + 1, !.n = IF g.prev = <<b.m, b.pos>> THEN @ ELSE @ + 1,
                       !.prev = <<b.m, b.pos + size>>, !.send = @ + size,
                       !.data = @ \o MemBytes(s, b, size)]
GatherMem(s, chain, g) == FoldLeft(LAMBDA x, i : MemLink(s, x, s.b[i]), g, chain)

(* Then a run of neighbouring buffers of the file, cut at a page if the limit   *)
(* falls into it.  A run of no bytes (g.odd), where the first turn was           *)
(* interrupted, is an error on Linux; elsewhere it means "until the end of the   *)
(* file", and the model says no more about the connection.                       *)
FileSize(b, send) ==
    LET size == b.flast - b.fpos
        cut == ChLimit - send
        aligned == ((b.fpos + cut + ChPage - 1) \div ChPage) * ChPage
    IN  IF size <= cut THEN size
        ELSE IF aligned <= b.flast THEN aligned - b.fpos ELSE cut

FaultAdjoins(g, b) == b.file
Adjoins(g, b) == b.file /\ g.fprev = b.fpos

FileLink(g, b, first) ==
    LET size == FileSize(b, g.send)
    IN  IF ~g.go \/ ~(first \/ (g.send < ChLimit /\ Adjoins(g, b))) THEN [g EXCEPT !.go = FALSE]
        ELSE [g EXCEPT !.k = @ + 1, !.send = @ + size, !.size = @ + size, !.fprev = b.fpos + size]
GatherFile(s, chain, send) ==
    FoldLeft(LAMBDA x, i : FileLink(x, s.b[i], x.k = 0),
             [k |-> 0, go |-> TRUE, size |-> 0, send |-> send, fprev |-> 0], chain)

Behind(chain, k) == SubSeq(chain, k + 1, Len(chain))
WithFile(s, g) ==
    LET rest == Behind(s.wout, g.k)
        f == GatherFile(s, rest, g.send)
    IN  IF rest = <<>> \/ ~s.b[rest[1]].file \/ g.send >= ChLimit THEN g
        ELSE [g EXCEPT !.k = @ + f.k, !.send = f.send, !.odd = f.size = 0,
                       !.data = @ \o FileBytes(s.b[rest[1]].fpos, f.size)]

(* ngx_linux_sendfile_chain: the memory, or the file. *)
LinuxGather(s) ==
    LET g == GatherMem(s, s.wout, NoGather(s.send)) IN IF g.n > 0 THEN g ELSE WithFile(s, g)
(* ngx_freebsd_sendfile_chain and ngx_darwin_sendfile_chain: header, file and   *)
(* trailer in one call; in Darwin no trailer if there is a header.              *)
Trailer(s, g) ==
    GatherMem(s, Behind(s.wout, g.k), [g EXCEPT !.go = TRUE, !.prev = <<-1, 0>>])
BsdGather(s) ==
    LET h == GatherMem(s, s.wout, NoGather(s.send))
        f == WithFile(s, h)
    IN  IF f.k = h.k \/ (s.mode.method = "darwin" /\ h.n > 0) THEN f ELSE Trailer(s, [f EXCEPT !.n = h.n])
(* ngx_solaris_sendfilev_chain: any mixture. *)
SolarisLink(s, g, b) ==
    IF ~g.go \/ g.n >= ChIov \/ g.send >= ChLimit THEN [g EXCEPT !.go = FALSE]
    ELSE IF InMemoryOnly(b) \/ Special(b) THEN MemLink(s, g, b)
    ELSE LET size == FileSize(b, g.send)
         IN  [g EXCEPT !.k = @ + 1, !.prev = <<-1, b.fpos + size>>, !.send = @ + size,
                       !.n = IF g.prev = <<-1, b.fpos>> THEN @ ELSE @ + 1,
                       !.data = @ \o FileBytes(b.fpos, size)]
SolarisGather(s) ==
    FoldLeft(LAMBDA x, i : SolarisLink(s, x, s.b[i]), [NoGather(s.send) EXCEPT !.prev = <<-2, 0>>], s.wout)

Gathered(s) ==
    CASE s.mode.method = "writev" -> GatherMem(s, s.wout, NoGather(s.send))
      [] s.mode.method = "linux" -> LinuxGather(s)
      [] s.mode.method \in {"freebsd", "darwin"} -> BsdGather(s)
      [] s.mode.method = "solaris" -> SolarisGather(s)

(* The bytes that were sent are taken off the chain: [b, at, left], where at is *)
(* the link the function goes on with, or returns.                              *)
TakeOff(acc, i) ==
    LET b == acc.b[i]
        size == BufSize1(b)
    IN  IF acc.stop THEN acc
        ELSE IF Special(b) THEN [acc EXCEPT !.at = @ + 1]
        ELSE IF acc.left = 0 THEN [acc EXCEPT !.stop = TRUE]
        ELSE IF acc.left >= size
             THEN [acc EXCEPT !.left = @ - size, !.at = @ + 1,
                              !.b = [@ EXCEPT ![i] = [b EXCEPT !.pos = IF b.mem THEN b.last ELSE @,
                                                               !.fpos = IF b.file THEN b.flast ELSE @]]]
        ELSE [acc EXCEPT !.left = 0, !.stop = TRUE, !.b = [@ EXCEPT ![i] = Advanced(b, acc.left)]]
Sent(s, n) ==
    FoldLeft(TakeOff, [b |-> s.b, at |-> 0, left |-> n, stop |-> FALSE], s.wout)

(* One turn of the loop of a send_chain function.  The kernel takes n bytes and *)
(* may report EAGAIN or EINTR; on Linux that means that it took none.  writev   *)
(* and sendfilev do not forget that an earlier turn was complete.               *)
Sticky(s) == s.mode.method \in {"writev", "solaris"}
Reports(s, n, asked) ==
    (IF n = 0 /\ asked > 0 THEN {} ELSE {"ok"})
    \cup (IF s.mode.method \in {"writev", "linux"} /\ n > 0 THEN {} ELSE {"eagain", "eintr"})
SendStep ==
    /\ ch.pc = "send"
    /\ \E g \in {x \in {Gathered(ch)} : ~x.odd} : \E n \in 0..Len(g.data) : \E err \in Reports(ch, n, Len(g.data)) :
         \E x \in {Sent(ch, n)} :
            LET complete == (Sticky(ch) /\ ch.complete) \/ n = Len(g.data)
                a == [ch EXCEPT !.b = x.b, !.send = g.send, !.complete = complete]
                rest == Behind(ch.wout, x.at)
                stops == (ch.mode.method = "freebsd" /\ err = "eagain") \/ ~complete
                b == [a EXCEPT !.wout = rest, !.ready = @ /\ ~stops]
            IN  /\ chSock' = chSock \o SubSeq(g.data, 1, n)
                /\ ch' \in IF err = "eintr" THEN {a}
                           ELSE IF stops \/ g.send >= ChLimit \/ rest = <<>>
                                THEN Returned(b, IF rest = <<>> THEN "ok" ELSE "again")
                           ELSE {b}

(* Any other error, a file that has become shorter: NGX_CHAIN_ERROR. *)
SendFails == /\ ch.pc = "send"
             /\ ch' = [ch EXCEPT !.pc = "error"] /\ UNCHANGED chSock
SendOdd == /\ ch.pc = "send" /\ Gathered(ch).odd
           /\ ch' = [ch EXCEPT !.pc = "odd"] /\ UNCHANGED chSock

(* The socket takes data again. *)
ChWritable == ~ch.ready /\ ch.pc = "idle" /\ ch' = [ch EXCEPT !.ready = TRUE] /\ UNCHANGED chSock

ChNext == OutputChain \/ OutputMore \/ CopyStep \/ CopyFails \/ ChainWriter \/ SendStep \/ SendFails \/ SendOdd \/ ChWritable

-----------------------------------------------------------------------------
(* The peer gets the bytes it is meant to get, in their order, none twice and   *)
(* none left out, however the buffers are mixed, copied, coalesced, cut and      *)
(* partly sent; and when nothing is queued any more, it got all of them.         *)
OutputIntact ==
    /\ \A i \in 1..Len(chSock) : chSock[i] = i
    /\ ch.pc = "idle" /\ ch.in = <<>> /\ ch.busy = <<>> /\ ch.wout = <<>> => Len(chSock) = ch.next
=============================================================================
