------------------------------ MODULE NgxRtsig ------------------------------
(***************************************************************************)
(* The event method of Linux's real-time signals (ngx_rtsig_module.c): the  *)
(* kernel queues a signal for every change of a descriptor; when the queue  *)
(* is full it sends SIGIO instead, the queue is thrown away, and all the    *)
(* connections are polled in batches while new signals come in.            *)
(***************************************************************************)
EXTENDS Naturals, FiniteSets, SequencesExt

CONSTANTS
    SigFds,         \* descriptor numbers
    SigConns,       \* cycle->connection_n: the numbers below it are polled
    SigQueue,       \* signals the kernel queues
    SigBatch,       \* overflow_events
    SigTest         \* overflow_test

VARIABLES
    rt,             \* the module: overflow, current (overflow_current), tested
    sock,           \* sock[f]: the connection that has number f, if any
    sigs,           \* queued signals: number and instance
    sigio           \* SIGIO is pending

sigvars == <<rt, sock, sigs, sigio>>

SigInit ==
    /\ rt = [overflow |-> FALSE, current |-> 0, tested |-> 0]
    /\ sock = [f \in SigFds |-> [active |-> FALSE, instance |-> FALSE, readable |-> FALSE]]
    /\ sigs = <<>> /\ sigio = FALSE

-----------------------------------------------------------------------------
(* The kernel: something to read on f. *)
Arrives(f) ==
    /\ sock[f].active /\ ~sock[f].readable
    /\ sock' = [sock EXCEPT ![f].readable = TRUE]
    /\ IF Len(sigs) < SigQueue
       THEN sigs' = Append(sigs, <<f, sock[f].instance>>) /\ UNCHANGED sigio
       ELSE sigio' = TRUE /\ UNCHANGED sigs
    /\ UNCHANGED rt

(* ngx_rtsig_add_connection, with the next instance, and                      *)
(* ngx_rtsig_del_connection when the connection is closed.  The instance is   *)
(* one bit: a signal of the connection before the last is not in the queue.   *)
AddConnection(f) ==
    /\ ~sock[f].active
    /\ sock' = [sock EXCEPT ![f] = [active |-> TRUE, instance |-> ~@.instance, readable |-> FALSE]]
    /\ UNCHANGED <<rt, sigs, sigio>>
DelConnection(f) ==
    /\ sock[f].active /\ <<f, ~sock[f].instance>> \notin Range(sigs)
    /\ sock' = [sock EXCEPT ![f].active = FALSE, ![f].readable = FALSE]
    /\ UNCHANGED <<rt, sigs, sigio>>

(* A handler reads all there is. *)
Handled(fds) == [f \in SigFds |-> IF f \in fds THEN [sock[f] EXCEPT !.readable = FALSE] ELSE sock[f]]

(* ngx_rtsig_process_events.  While the connections are polled, a signal for  *)
(* one that is still to be polled is dropped.                                 *)
FaultSkipped(f) == rt.overflow /\ f < rt.current
Skipped(f) == rt.overflow /\ f > rt.current
TakeSignal ==
    /\ sigs # <<>>
    /\ sigs' = Tail(sigs)
    /\ LET f == sigs[1][1]
           live == ~Skipped(f) /\ sock[f].active /\ sock[f].instance = sigs[1][2]
       IN sock' = IF live THEN Handled({f}) ELSE sock
    /\ UNCHANGED <<rt, sigio>>
TakeSigio ==
    /\ sigio
    /\ sigio' = FALSE /\ sigs' = <<>>
    /\ rt' = [rt EXCEPT !.overflow = TRUE, !.current = 0]
    /\ UNCHANGED sock
ProcessSignals == ~rt.overflow /\ (TakeSignal \/ TakeSigio)

(* ngx_rtsig_process_overflow: a batch is polled and handled; when enough     *)
(* events were found, the signals that came in the meantime are taken.        *)
Batch ==
    LET next == {f \in SigFds : f >= rt.current /\ f < SigConns /\ sock[f].active}
    IN {f \in next : Cardinality({g \in next : g < f}) < SigBatch}
PollBatch ==
    /\ rt.overflow /\ rt.tested < SigTest
    /\ IF Batch = {}
       THEN rt' = [overflow |-> FALSE, current |-> 0, tested |-> 0] /\ UNCHANGED sock
       ELSE LET ready == {f \in Batch : sock[f].readable}
                last  == CHOOSE f \in Batch : \A g \in Batch : g <= f
            IN /\ rt' = [rt EXCEPT !.current = last + 1, !.tested = @ + Cardinality(ready)]
               /\ sock' = Handled(ready)
    /\ UNCHANGED <<sigs, sigio>>
Drain == rt.overflow /\ rt.tested >= SigTest /\ (TakeSignal \/ TakeSigio)
Drained ==
    /\ rt.overflow /\ rt.tested >= SigTest /\ sigs = <<>>
    /\ rt' = [rt EXCEPT !.tested = 0]
    /\ UNCHANGED <<sock, sigs, sigio>>

SigNext ==
    \/ \E f \in SigFds : Arrives(f) \/ AddConnection(f) \/ DelConnection(f)
    \/ ProcessSignals \/ PollBatch \/ Drain \/ Drained

-----------------------------------------------------------------------------
(* No event is lost in an overflow: something to read on a connection whose   *)
(* number is polled is announced by a signal in the queue, or by SIGIO, or    *)
(* the connection is still to be polled.                                      *)
NoSignalLost ==
    \A f \in SigFds :
        sock[f].active /\ sock[f].readable /\ f < SigConns =>
            \/ <<f, sock[f].instance>> \in Range(sigs)
            \/ sigio
            \/ rt.overflow /\ f >= rt.current
=============================================================================
