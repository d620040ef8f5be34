---------------------------- MODULE NgxeCallback -----------------------------
(***************************************************************************)
(* Callback records (ngxe_xs.c, and the calls of Engine.xs that fill them):  *)
(* an ngxe_callback_t lives in the pool of its connection or timer, owns     *)
(* one reference to the Perl handler and to each argument, and is released   *)
(* by the callback that ends it, by ngxe_*_clear, or by the pool's cleanup.  *)
(* While Perl runs, the pool may be destroyed under the call in progress.    *)
(***************************************************************************)
EXTENDS Integers, Sequences, FiniteSets

CONSTANTS
    CbPools,        \* pools that may exist at one time
    CbRecords,      \* callback records
    CbMaxDepth      \* bound: callbacks inside callbacks

VARIABLES
    cpool,          \* cpool[p]: "none", or what the pool is for
    crec,           \* crec[r]: the record
    crefs,          \* crefs[v]: SvREFCNT of an SV, without Perl's own references
    crun            \* ngxe_callback calls in progress, innermost last

cbvars == <<cpool, crec, crefs, crun>>

(* The SVs: each record's handler and own arguments, which go together, and   *)
(* the two buffers the reader's and the writer's records share.               *)
Own(r) == <<"own", r>>
Buf(p, b) == <<b, p>>
Svs == {Own(r) : r \in CbRecords} \cup {Buf(p, b) : p \in CbPools, b \in {"rbuf", "wbuf"}}

NoRecord == [kind |-> "none", pool |-> 0, args |-> {}, decremented |-> FALSE]

CbInit ==
    /\ cpool = [p \in CbPools |-> "none"]
    /\ crec = [r \in CbRecords |-> NoRecord]
    /\ crefs = [v \in Svs |-> 0]
    /\ crun = <<>>

(* What SvREFCNT_inc and SvREFCNT_dec do to a set of SVs. *)
Add(refs, vs, n) == [v \in Svs |-> IF v \in vs THEN refs[v] + n ELSE refs[v]]

-----------------------------------------------------------------------------
(* A record that lies in a destroyed pool while its callback still runs.  The *)
(* application takes no memory then: the allocator would hand out the record. *)
Dangling == \E i \in 1..Len(crun) : cpool[crec[crun[i].rec].pool] = "none"
Running(r) == \E i \in 1..Len(crun) : crun[i].rec = r
SpareRecord(r) == ~Running(r) /\ (crec[r].kind = "none" \/ cpool[crec[r].pool] = "none")

(* The part of ngxe_interval_set, ngxe_timeout_set, ngxe_server and           *)
(* ngxe_client that makes a pool with one record in it.                       *)
FilledRecord(r, p, kind, vs) ==
    /\ crec' = [crec EXCEPT ![r] = [kind |-> kind, pool |-> p, args |-> vs, decremented |-> FALSE]]
    /\ crefs' = Add(crefs, vs, 1)
NewPool(p, kind) ==
    /\ cpool[p] = "none" /\ ~Dangling
    /\ \A r \in CbRecords : Running(r) => crec[r].pool # p
    /\ \E r \in {x \in CbRecords : SpareRecord(x)} : FilledRecord(r, p, kind, {Own(r)})
    /\ cpool' = [cpool EXCEPT ![p] = kind]
    /\ UNCHANGED crun

(* ngxe_server_init_connection: the new connection's own pool, without a      *)
(* record of its own.                                                         *)
NewConnection(p) ==
    /\ cpool[p] = "none" /\ ~Dangling
    /\ \A r \in CbRecords : Running(r) => crec[r].pool # p
    /\ cpool' = [cpool EXCEPT ![p] = "conn"]
    /\ UNCHANGED <<crec, crefs, crun>>

(* ngxe_reader and ngxe_writer: a second one of the same kind leaves the      *)
(* first where it is.                                                         *)
NewReaderWriter(p, kind) ==
    /\ cpool[p] \in {"conn", "client"} /\ ~Dangling
    /\ \E r \in {x \in CbRecords : SpareRecord(x)} :
          FilledRecord(r, p, kind, {Own(r), Buf(p, "rbuf"), Buf(p, "wbuf")})
    /\ UNCHANGED <<cpool, crun>>

-----------------------------------------------------------------------------
(* ngxe_callback_dec. *)
Args(r) == IF crec[r].decremented THEN {} ELSE crec[r].args
Decremented(rs) == [r \in CbRecords |-> [crec[r] EXCEPT !.decremented = @ \/ r \in rs]]
DecRefs(refs, rs) ==
    [v \in Svs |-> refs[v] - Cardinality({r \in rs : v \in Args(r)})]

(* ngx_destroy_pool.  The cleanups (ngxe_callback_cleanup) release what has   *)
(* not been released; the records of timers have no cleanup.                  *)
Cleanups(p) ==
    {r \in CbRecords : crec[r].pool = p /\ crec[r].kind \notin {"none", "interval", "timeout"}}
Destroy(p, refs, rs) ==
    /\ cpool' = [cpool EXCEPT ![p] = "none"]
    /\ crefs' = DecRefs(refs, rs \cup Cleanups(p))
    /\ crec' = Decremented(rs \cup Cleanups(p))

-----------------------------------------------------------------------------
(* ngxe_callback up to call_sv: "n" remembers how many arguments there were.  *)
(* "last" is decrefcnts, and "then" what the caller does afterwards.  A record *)
(* that has been released is not called again: the application starts no       *)
(* writer it has not created.                                                  *)
Invoke(r, last, then) ==
    /\ Len(crun) < CbMaxDepth
    /\ crec[r].kind # "none" /\ cpool[crec[r].pool] # "none" /\ ~crec[r].decremented
    /\ crefs' = Add(crefs, Args(r), 1)
    /\ crun' = Append(crun, [rec |-> r, args |-> Args(r), last |-> last, then |-> then])
    /\ UNCHANGED <<cpool, crec>>

(* Who calls back: the loop, when nothing runs, and calls that call back       *)
(* themselves (ngxe_writer_start, ngxe_writer_put, ngxe_client).               *)
Nested(r) == crec[r].kind \in {"writer", "client"}
CallBack ==
    \E r \in CbRecords :
        /\ crun = <<>> \/ (Nested(r) /\ ~Running(r))
        /\ \/ crec[r].kind \in {"reader", "writer", "server", "interval"} /\ Invoke(r, FALSE, "go on")
           \/ crec[r].kind = "client" /\ Invoke(r, TRUE, "go on")
           \/ crec[r].kind \in {"reader", "writer", "client"} /\ Invoke(r, TRUE, "close")
           \/ crec[r].kind = "timeout" /\ Invoke(r, TRUE, "destroy")

(* ngxe_callback after call_sv, which reads the record even if its pool is     *)
(* gone; then ngxe_close, or the end of ngxe_timeout_callback.                 *)
FaultReleased(f) == f.last
Released(f) == f.last /\ ~crec[f.rec].decremented
FaultGivenBack(f) == IF crec[f.rec].decremented THEN {} ELSE f.args
GivenBack(f) == f.args
CbReturn ==
    LET f == crun[Len(crun)]
        back == Add(crefs, GivenBack(f), -1)
        refs == Add(back, IF Released(f) THEN crec[f.rec].args ELSE {}, -1)
        p == crec[f.rec].pool
        done == [crec EXCEPT ![f.rec].decremented = @ \/ f.last]
        rest == {r \in Cleanups(p) : ~done[r].decremented}
    IN /\ crun # <<>>
       /\ crun' = SubSeq(crun, 1, Len(crun) - 1)
       /\ IF f.then = "go on" \/ cpool[p] = "none"
            THEN crefs' = refs /\ crec' = done /\ UNCHANGED cpool
            ELSE /\ cpool' = [cpool EXCEPT ![p] = "none"]
                 /\ crefs' = DecRefs(refs, rest)
                 /\ crec' = [r \in CbRecords |->
                                [done[r] EXCEPT !.decremented = @ \/ r \in rest]]

(* ngxe_close: not on a server inside its own callback. *)
CbClose(p) ==
    /\ crun # <<>>
    /\ cpool[p] \in {"conn", "client", "server"}
    /\ cpool[p] = "server" => \A r \in CbRecords : crec[r].pool = p => ~Running(r)
    /\ Destroy(p, crefs, {})
    /\ UNCHANGED crun

(* ngxe_interval_clear and ngxe_timeout_clear: not on a timeout that fired. *)
CbClear(p) ==
    /\ crun # <<>>
    /\ cpool[p] \in {"interval", "timeout"}
    /\ cpool[p] = "timeout" => \A r \in CbRecords : crec[r].pool = p => ~Running(r)
    /\ Destroy(p, crefs, {r \in CbRecords : crec[r].pool = p /\ crec[r].kind # "none"})
    /\ UNCHANGED crun

CbNext ==
    \/ \E p \in CbPools :
          \/ \E k \in {"interval", "timeout", "server", "client"} : NewPool(p, k)
          \/ NewConnection(p)
          \/ \E k \in {"reader", "writer"} : NewReaderWriter(p, k)
          \/ CbClose(p) \/ CbClear(p)
    \/ CallBack
    \/ CbReturn

-----------------------------------------------------------------------------
(* Perl never loses a handler or an argument that a running callback uses,    *)
(* although the callback may close the connection it runs for; and once no     *)
(* call uses them, what is left of their count is exactly the references of    *)
(* the records whose pools exist: nothing is released twice, nothing leaks.    *)
RefsBalanced ==
    \A v \in Svs :
        crefs[v] = Cardinality({r \in CbRecords :
                                  crec[r].kind # "none" /\ cpool[crec[r].pool] # "none"
                                  /\ ~crec[r].decremented /\ v \in crec[r].args})
                 + Cardinality({i \in 1..Len(crun) : v \in crun[i].args})
=============================================================================
