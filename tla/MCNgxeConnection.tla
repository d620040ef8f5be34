------------------------- MODULE MCNgxeConnection -------------------------
(***************************************************************************)
(* Instances of NgxeConnection for TLC: write buffers and application      *)
(* interfaces for the configurations to choose from.                       *)
(***************************************************************************)
EXTENDS NgxeConnection

Pv(n) == [kind |-> "pv", segs |-> <<n>>, size |-> n]
Ref(n) == [kind |-> "ref", segs |-> <<n>>, size |-> n]
Av(segs) == [kind |-> "av", segs |-> segs, size |-> SumSegs(segs)]

Bad == [kind |-> "bad", segs |-> <<>>, size |-> 0]

PvBuffers == {Pv(0), Pv(2), Bad}
RefBuffers == {Ref(0), Ref(2)}
AvBuffers == {Av(<<1, 0, 2>>), Av(<<1, NotRef>>)}
Reply == {Pv(2)}

\* A server as in the SYNOPSIS: a reader, replies through $_[3], a writer.
ServerApi == {"ngxe_reader", "ngxe_writer", "$_[2]", "$_[3]", "ngxe_close"}

\* With every way to start and stop, from the connection's callbacks and
\* from others.
FullApi == ServerApi \cup
  {"ngxe_reader_start", "ngxe_reader_stop", "ngxe_reader_stop_writer_start",
   "ngxe_writer_start", "ngxe_writer_stop", "ngxe_writer_stop_reader_start",
   "ngxe_writer_put", "app"}

\* Without starting a writer that has nothing to send.
RefApi == FullApi \ {"ngxe_writer_start", "ngxe_reader_stop_writer_start"}

\* A client that also changes its timeouts.
ClientApi == RefApi \cup {"ngxe_reader_timeout", "ngxe_writer_timeout"}

\* Without ngxe_writer_put, which the ARRAYREF writer mishandles; with readers
\* that ask for more data and free their buffer.
AvApi == (RefApi \ {"ngxe_writer_put"}) \cup {"$_[4]", "undef $_[2]"}

\* With timeouts that change while a reader or a writer waits.
TurnsApi == ServerApi \cup {"ngxe_reader_timeout", "ngxe_writer_timeout"}

-----------------------------------------------------------------------------
(* A timer is set exactly where one should be: a reader with a timeout, or an *)
(* unfinished writer with one, has its timer when the loop waits, and neither *)
(* has one once it is stopped (ngxe_reader_stop, ngxe_writer_stop).           *)
TimersExact == TimerArmed /\ StoppedHasNoTimer

=============================================================================
