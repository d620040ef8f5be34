------------------------------- MODULE NgxPipe ------------------------------
(***************************************************************************)
(* ngx_event_pipe.c: a stream is read from an upstream connection into a    *)
(* fixed number of raw buffers, passed on to a slower downstream one, and   *)
(* parked in a temporary file in between.  A buffer that is passed on is a  *)
(* shadow of the raw buffer whose memory it shares.                        *)
(*                                                                         *)
(* The filters are the copy input filter and an output filter that sends    *)
(* what the downstream connection takes, in order.  There is no pre-read    *)
(* buffer and no buf_to_file.  The bytes of the stream are numbered.        *)
(***************************************************************************)
EXTENDS Naturals, FiniteSets, SequencesExt

CONSTANTS
    PTotal,         \* bytes of the stream
    PNum,           \* bufs.num
    PSize,          \* bufs.size
    PBusy,          \* busy_size, at most (PNum - 1) * PSize
    PFileWrite,     \* temp_file_write_size
    PFileMax,       \* max_temp_file_size
    PModes          \* sets of "cacheable", "cyclic_temp_file", "single_buf"

ASSUME PipeAssumption == PBusy <= (PNum - 1) * PSize

VARIABLES
    pp,         \* the pipe
    pmode,      \* its flags
    pgot        \* the bytes the downstream connection took

pvars == <<pp, pmode, pgot>>
Raw == 1..PNum

PInit ==
    /\ pp = [pc |-> "idle",
             mem |-> [r \in Raw |-> <<>>],      \* the bytes in a raw buffer
             free_raw |-> <<>>, allocated |-> 0,
             in |-> <<>>, out |-> <<>>, busy |-> <<>>, free |-> <<>>,
             offset |-> 0,                      \* temp_file->offset
             file |-> [i \in 1..(PTotal + PFileMax) |-> 0],
             read |-> FALSE, blocked |-> FALSE,
             eof |-> FALSE, uerror |-> FALSE, derror |-> FALSE, done |-> FALSE,
             ready |-> TRUE,                    \* downstream->write->ready
             taken |-> 0,                       \* bytes read from upstream
             null |-> FALSE]                    \* an empty chain was to be written to the file
    /\ pmode \in PModes
    /\ pgot = <<>>

cacheable == "cacheable" \in pmode
BufSize(b) == IF b.in_file THEN b.file_last - b.file_pos ELSE b.last - b.pos
MemByte(p, r, i) == IF i <= Len(p.mem[r]) THEN p.mem[r][i] ELSE 0
SumSize(bufs) == FoldLeft(LAMBDA n, b : n + BufSize(b), 0, bufs)
UpstreamOver(p) == p.eof \/ p.uerror

-----------------------------------------------------------------------------
(* ngx_event_pipe_copy_input_filter: a shadow for a raw buffer with content.  *)
(* Its structure is the first of the free list, if there is one.              *)
InputFilter(p, r) ==
    IF p.mem[r] = <<>> THEN p
    ELSE [p EXCEPT !.in = Append(@, [raw |-> r, pos |-> 0, last |-> Len(p.mem[r]), in_file |-> FALSE,
                                     file_pos |-> 0, file_last |-> 0,
                                     last_shadow |-> TRUE, recycled |-> TRUE]),
                   !.free = IF @ = <<>> THEN @ ELSE Tail(@)]

(* ngx_event_pipe_add_free_buf: behind a first buffer that is partly filled. *)
AddFreeBuf(p, r) ==
    LET q == p.free_raw
    IN [p EXCEPT !.mem[r] = <<>>,
                 !.free_raw = IF q = <<>> \/ p.mem[q[1]] = <<>> THEN <<r>> \o q
                              ELSE <<q[1], r>> \o Tail(q)]

(* Buffers that come back: their raw buffers are free again. *)
FreeOne(p, b) ==
    [(IF b.last_shadow THEN AddFreeBuf(p, b.raw) ELSE p)
        EXCEPT !.free = <<[b EXCEPT !.last_shadow = FALSE]>> \o @]
FreeAll(p, bufs) == FoldLeft(FreeOne, p, bufs)

(* "reset p->temp_offset if all bufs had been sent" *)
ResetOffset(p) ==
    IF /\ ~cacheable /\ "cyclic_temp_file" \in pmode
       /\ \E i \in 1..Len(p.free) : p.free[i].in_file /\ p.free[i].file_last = p.offset
    THEN [p EXCEPT !.offset = 0] ELSE p

(* ngx_event_pipe_drain_chains *)
DrainChains(p) == [FreeAll(p, p.busy \o p.out \o p.in) EXCEPT !.busy = <<>>, !.out = <<>>, !.in = <<>>]

(* ngx_event_pipe_write_chain_to_temp_file: the buffers at the head of p->in  *)
(* that fit move to p->out, and their raw buffers are free again.             *)
FilePart(p) ==
    IF cacheable THEN Len(p.in)
    ELSE LET fits == {k \in 0..Len(p.in) :
                        \A j \in 1..k : LET n == SumSize(SubSeq(p.in, 1, j))
                                        IN n <= PFileWrite /\ p.offset + n <= PFileMax}
         IN CHOOSE k \in fits : \A j \in fits : j <= k
ToFile(p, b) ==
    LET n == BufSize(b)
        f == [b EXCEPT !.in_file = TRUE, !.file_pos = p.offset, !.file_last = p.offset + n,
                       !.last_shadow = FALSE, !.recycled = FALSE]
    IN [p EXCEPT !.offset = @ + n,
                 !.file = [i \in DOMAIN p.file |->
                             IF i > p.offset /\ i <= p.offset + n
                             THEN MemByte(p, b.raw, i - p.offset) ELSE p.file[i]],
                 !.out = Append(@, f),
                 !.mem[b.raw] = <<>>,
                 !.free_raw = Append(@, b.raw)]
WriteToTempFile(p) ==
    LET k == FilePart(p)
    IN FoldLeft(ToFile, [p EXCEPT !.in = SubSeq(@, k + 1, Len(@))], SubSeq(p.in, 1, k))

-----------------------------------------------------------------------------
(* ngx_event_pipe_read_upstream.  A read of n bytes into the chain: buffers   *)
(* that are full go through the input filter, the others stay free.           *)
Room(p, chain) == Len(chain) * PSize - FoldLeft(LAMBDA n, r : n + Len(p.mem[r]), 0, chain)
Fill(p, r) ==       \* p.n: bytes still to be placed
    LET k == IF p.n < PSize - Len(p.mem[r]) THEN p.n ELSE PSize - Len(p.mem[r])
        filled == [p EXCEPT !.mem[r] = @ \o [i \in 1..k |-> p.taken + i],
                            !.taken = @ + k, !.n = @ - k]
    IN IF p.n > 0 /\ Len(filled.mem[r]) = PSize THEN InputFilter(filled, r)
       ELSE [filled EXCEPT !.free_raw = Append(@, r)]
FillAll(p, chain, n) ==
    LET f == FoldLeft(Fill, [x \in DOMAIN p \cup {"n"} |-> IF x = "n" THEN n ELSE
                                IF x = "free_raw" THEN <<>> ELSE p[x]], chain)
    IN [x \in DOMAIN p |-> f[x]]

(* Where to read: free buffers, a new one, or what the file makes free. *)
ReadChain(p) == IF "single_buf" \in pmode THEN <<p.free_raw[1]>> ELSE p.free_raw
ReadInto(p) ==
    LET chain == ReadChain(p)
        room  == Room(p, chain)
        rest  == IF "single_buf" \in pmode THEN Tail(p.free_raw) ELSE <<>>
    IN {[p EXCEPT !.pc = "read done"]}                                     \* NGX_AGAIN
       \cup {[p EXCEPT !.uerror = TRUE, !.pc = "read failed"]}             \* NGX_ERROR
       \cup {[p EXCEPT !.eof = TRUE, !.read = TRUE, !.pc = "read done"]}   \* end of file
       \cup {[FillAll(p, chain \o rest, n) EXCEPT !.read = TRUE] :
                n \in {x \in 1..room : p.taken + x <= PTotal}}
ReadUpstream ==
    /\ pp.pc = "read"
    /\ \E p \in {pp} :
          \/ UpstreamOver(p) /\ pp' = [p EXCEPT !.pc = "after"]
          \/ ~UpstreamOver(p) /\ p.free_raw # <<>> /\ pp' \in ReadInto(p)
          \/ /\ ~UpstreamOver(p) /\ p.free_raw = <<>> /\ p.allocated < PNum
             /\ \E q \in {[p EXCEPT !.allocated = @ + 1, !.free_raw = <<p.allocated + 1>>]} :
                   pp' \in ReadInto(q)
          \/ /\ ~UpstreamOver(p) /\ p.free_raw = <<>> /\ p.allocated = PNum
             /\ \/ ~cacheable /\ p.ready /\ pp' = [p EXCEPT !.blocked = TRUE, !.pc = "read done"]
                \/ /\ cacheable \/ ~p.ready
                   /\ cacheable \/ p.offset < PFileMax
                   /\ IF p.in = <<>> THEN pp' = [p EXCEPT !.null = TRUE, !.pc = "idle"]
                      ELSE \E q \in {WriteToTempFile(p)} :
                              IF q.free_raw = <<>> THEN pp' = [q EXCEPT !.pc = "read done"]   \* NGX_BUSY
                              ELSE pp' \in ReadInto(q)
                \/ /\ ~cacheable /\ ~p.ready /\ p.offset >= PFileMax
                   /\ pp' = [p EXCEPT !.pc = "read done"]
    /\ UNCHANGED <<pmode, pgot>>

(* The end of ngx_event_pipe_read_upstream: what is in a partly filled buffer *)
(* goes through the filter at the end of the stream.                          *)
FaultLastPart(p) == p
LastPart(p) ==
    IF UpstreamOver(p) /\ p.free_raw # <<>>
    THEN [InputFilter(p, p.free_raw[1]) EXCEPT !.free_raw = Tail(@)] ELSE p
ReadDone ==
    /\ pp.pc = "read done"
    /\ \E p \in {LastPart(pp)} :
          \E q \in {IF cacheable /\ p.in # <<>> THEN WriteToTempFile(p) ELSE p} :
             pp' = [q EXCEPT !.pc = "after"]
    /\ UNCHANGED <<pmode, pgot>>
ReadFailed ==
    /\ pp.pc = "read failed"
    /\ pp' = [pp EXCEPT !.pc = "after"]
    /\ UNCHANGED <<pmode, pgot>>

-----------------------------------------------------------------------------
(* The output filter: the bytes of a buffer, as memory and file are now.      *)
Byte(p, b, i) == IF b.in_file THEN p.file[b.file_pos + i] ELSE MemByte(p, b.raw, b.pos + i)
Bytes(p, b) == [i \in 1..BufSize(b) |-> Byte(p, b, i)]
SendOne(q, b) ==    \* q.k: bytes the connection still takes
    LET n == IF q.k < BufSize(b) THEN q.k ELSE BufSize(b)
        rest == IF b.in_file THEN [b EXCEPT !.file_pos = @ + n] ELSE [b EXCEPT !.pos = @ + n]
    IN [q EXCEPT !.k = @ - n, !.got = @ \o SubSeq(Bytes(q.p, b), 1, n), !.bufs = Append(@, rest)]
Send(p, bufs, k) ==
    FoldLeft(SendOne, [p |-> p, k |-> k, got |-> <<>>, bufs |-> <<>>], bufs)

(* ngx_chain_update_chains: what was sent at the head of the chain is free. *)
Unsent(bufs) ==
    LET n == {i \in 1..Len(bufs) : BufSize(bufs[i]) > 0}
    IN IF n = {} THEN Len(bufs) + 1 ELSE CHOOSE i \in n : \A j \in n : i <= j
UpdateChains(p, bufs) ==
    LET i == Unsent(bufs)
    IN [FreeAll(p, SubSeq(bufs, 1, i - 1)) EXCEPT !.busy = SubSeq(bufs, i, Len(bufs))]

(* ngx_event_pipe_write_to_downstream: one turn of its loop.                  *)
FaultTakes(p) == Len(p.in)
Takes(p) ==
    LET bsize == PSize * Cardinality({i \in 1..Len(p.busy) : p.busy[i].recycled})
        fits == {k \in 0..Len(p.in) : \A j \in 1..k : bsize + SumSize(SubSeq(p.in, 1, j)) <= PBusy}
    IN IF cacheable \/ bsize >= PBusy THEN 0 ELSE CHOOSE k \in fits : \A j \in fits : j <= k
Flush(p) ==
    LET bsize == PSize * Cardinality({i \in 1..Len(p.busy) : p.busy[i].recycled})
    IN bsize >= PBusy \/ (~cacheable /\ Takes(p) < Len(p.in))
Output(p, out, q) ==
    \/ \E k \in 0..SumSize(p.busy \o out) :
          \E s \in {Send(q, p.busy \o out, k)} :
             /\ pp' = [ResetOffset(UpdateChains(q, s.bufs))
                          EXCEPT !.ready = (k = SumSize(p.busy \o out))]
             /\ pgot' = pgot \o s.got
    \/ /\ pp' = [DrainChains([q EXCEPT !.busy = @ \o out]) EXCEPT !.derror = TRUE, !.pc = "read"]
       /\ UNCHANGED pgot
WriteToDownstream ==
    /\ pp.pc = "write"
    /\ \E p \in {pp} :
          \/ p.derror /\ pp' = [DrainChains(p) EXCEPT !.pc = "read"] /\ UNCHANGED pgot
          \/ /\ ~p.derror /\ UpstreamOver(p)
             /\ LET all == [i \in 1..Len(p.busy \o p.out \o p.in) |->
                              [(p.busy \o p.out \o p.in)[i] EXCEPT !.recycled = FALSE]]
                IN pp' = [p EXCEPT !.busy = all, !.out = <<>>, !.in = <<>>,
                                   !.done = TRUE, !.pc = "read"]
             /\ UNCHANGED pgot
          \/ ~p.derror /\ ~UpstreamOver(p) /\ ~p.ready
             /\ pp' = [p EXCEPT !.pc = "read"] /\ UNCHANGED pgot
          \/ /\ ~p.derror /\ ~UpstreamOver(p) /\ p.ready
             /\ LET full == PSize * Cardinality({i \in 1..Len(p.busy) : p.busy[i].recycled}) >= PBusy
                    out  == IF full THEN <<>> ELSE p.out \o SubSeq(p.in, 1, Takes(p))
                    q    == IF full THEN p
                            ELSE [p EXCEPT !.out = <<>>, !.in = SubSeq(@, Takes(p) + 1, Len(@))]
                IN IF out = <<>> /\ ~Flush(p)
                   THEN pp' = [p EXCEPT !.pc = "read"] /\ UNCHANGED pgot
                   ELSE Output(p, out, q)
    /\ UNCHANGED pmode

(* ngx_event_pipe, called for an event of either connection: again while      *)
(* something was read or the pipe is blocked by what is to be written.        *)
Called ==
    /\ pp.pc = "idle" /\ ~pp.null
    /\ \/ ~pp.done /\ pp' = [pp EXCEPT !.pc = "write", !.ready = TRUE]
       \/ ~pp.done /\ pp' = [pp EXCEPT !.pc = "read", !.read = FALSE, !.blocked = FALSE]
    /\ UNCHANGED <<pmode, pgot>>
Around ==
    /\ pp.pc = "after"
    /\ pp' = [pp EXCEPT !.pc = IF pp.read \/ pp.blocked THEN "write" ELSE "idle",
                        !.read = FALSE, !.blocked = FALSE]
    /\ UNCHANGED <<pmode, pgot>>

(* The output filter sends the rest when the pipe is done. *)
SendRest ==
    /\ pp.pc = "idle" /\ pp.done /\ pp.busy # <<>>
    /\ \E k \in 1..SumSize(pp.busy) : \E s \in {Send(pp, pp.busy, k)} :
          /\ pp' = UpdateChains(pp, s.bufs)
          /\ pgot' = pgot \o s.got
    /\ UNCHANGED pmode

PNext == ReadUpstream \/ ReadDone \/ ReadFailed \/ WriteToDownstream \/ Called \/ Around \/ SendRest

-----------------------------------------------------------------------------
(* The downstream connection gets the bytes of the stream in their order,     *)
(* none twice and none left out, though raw buffers are filled again while    *)
(* their shadows wait and the temporary file is written while it is sent; at  *)
(* the end of the stream it has got them all.  There is always something to   *)
(* write when the temporary file is to make room.                             *)
StreamIntact ==
    /\ \A i \in 1..Len(pgot) : pgot[i] = i
    /\ pp.eof /\ pp.done /\ pp.busy = <<>> /\ ~pp.derror => Len(pgot) = pp.taken
    /\ ~pp.null
=============================================================================
