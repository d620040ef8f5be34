---------------------------- MODULE NgxResolver -----------------------------
(***************************************************************************)
(* The DNS resolver (ngx_resolver.c): requests for a name or an address are *)
(* answered from the cache, join a query that is out already, or send one;  *)
(* queries are sent again, answers arrive late, twice or never, requests    *)
(* time out and are cancelled, and cached answers become stale.            *)
(*                                                                         *)
(* A handler ends its own request (ngx_resolve_name_done) when it is        *)
(* called, as callers of the resolver do.                                  *)
(***************************************************************************)
EXTENDS Naturals, FiniteSets, SequencesExt

CONSTANTS
    RNames,     \* names that are looked up
    RBadNames,  \* those of the names that have an empty label
    RAddrs,     \* addresses that are looked up
    RCtxs,      \* requests
    RIdents,    \* values of the 16-bit identifier of a query
    RFaults     \* "send": sending may fail; "cname": the server has aliases

RKeys == RNames \cup RAddrs
Kind(k) == IF k \in RNames THEN "name" ELSE "addr"
NoKey == "none"

VARIABLES
    rs,         \* the resolver
    queries     \* what the server has been asked: key and identifier

rvars == <<rs, queries>>

(* A node of name_rbtree or addr_rbtree.  "valid": the answer may be used;    *)
(* "late": the time in rn->expire has passed.                                *)
NoNode == [exists |-> FALSE, valid |-> FALSE, late |-> FALSE, id |-> 0,
           addrs |-> FALSE, cname |-> NoKey, waiting |-> <<>>]
(* A request.  "via": the node whose copy of the alias ctx->name points to.   *)
NoCtx == [st |-> "free", key |-> NoKey, via |-> NoKey, timer |-> FALSE]

RInit ==
    /\ rs = [node |-> [k \in RKeys |-> NoNode],
             resend |-> [d \in {"name", "addr"} |-> <<>>],      \* head first
             expire |-> [d \in {"name", "addr"} |-> <<>>],
             timer |-> FALSE,                                  \* r->event
             ctx |-> [c \in RCtxs |-> NoCtx],
             stray |-> FALSE,       \* a handler was called for a request that had ended
             tangled |-> FALSE]     \* where the model stops, see Tangled
    /\ queries = {}

-----------------------------------------------------------------------------
Unqueued(s, k) ==
    [s EXCEPT !.resend[Kind(k)] = SelectSeq(@, LAMBDA x : x # k),
              !.expire[Kind(k)] = SelectSeq(@, LAMBDA x : x # k)]
Deleted(s, k) == [Unqueued(s, k) EXCEPT !.node[k] = NoNode]

(* ngx_resolver_expire, n / 2 times: the last n nodes of the queue, up to one *)
(* that is not late.                                                          *)
Expired(s, d, n) ==
    LET q == s.expire[d]
    IN {q[i] : i \in {j \in DOMAIN q : j + n > Len(q) /\ \A l \in j..Len(q) : s.node[q[l]].late}}
Expire(s, d, n) ==
    LET gone == Expired(s, d, n)
    IN [s EXCEPT !.expire[d] = SelectSeq(@, LAMBDA x : x \notin gone),
                 !.node = [k \in RKeys |-> IF k \in gone THEN NoNode ELSE s.node[k]]]

(* The handlers of a list of requests: each one ends its request, with        *)
(* ngx_resolve_name_done or ngx_resolve_addr_done.                            *)
CallCtx(s, d, list) ==
    Expire([s EXCEPT !.ctx = [c \in RCtxs |-> IF c \in Range(list) THEN NoCtx ELSE s.ctx[c]],
                     !.stray = @ \/ \E c \in Range(list) : s.ctx[c].st = "free"],
           d, 2 * Len(list))

(* A node that is used or answered goes to the head of the expire queue. *)
Current(s, k) == [Unqueued(s, k) EXCEPT !.expire[Kind(k)] = <<k>> \o @, !.node[k].late = FALSE]

(* The parts of ngx_resolve_name_locked and ngx_resolve_addr, for request c   *)
(* and key k.                                                                 *)
FromCache(s, c, k) ==
    CallCtx([Current(s, k) EXCEPT !.node[k].waiting = <<>>], "name", <<c>> \o s.node[k].waiting)
FaultJoin(s, c, k) ==
    [s EXCEPT !.node[k].waiting = <<c>>, !.ctx[c].st = "again", !.ctx[c].key = k]
Join(s, c, k) ==            \* without a timer of its own
    [s EXCEPT !.node[k].waiting = <<c>> \o @, !.ctx[c].st = "again", !.ctx[c].key = k]
NewQuery(s, c, k, id) ==
    LET u == Unqueued(s, k)
    IN [u EXCEPT
        !.node[k] = [NoNode EXCEPT !.exists = TRUE, !.id = id, !.waiting = <<c>>],
        !.resend[Kind(k)] = <<k>> \o @,
        !.timer = @ \/ u.resend[Kind(k)] = <<>>,
        !.ctx[c] = [@ EXCEPT !.st = "again", !.key = k, !.timer = TRUE]]
NotSent(s, c, k) ==         \* a new request is freed without a call of its handler
    [Deleted(s, k) EXCEPT
        !.ctx[c] = IF s.ctx[c].st = "new" THEN NoCtx ELSE [@ EXCEPT !.key = k],
        !.tangled = @ \/ s.ctx[c].st # "new"]

SendOrFail(s, c, k) ==
    {NewQuery(s, c, k, id) : id \in RIdents}
    \cup (IF "send" \in RFaults THEN {NotSent(s, c, k)} ELSE {})

(* The outcomes for a name.  n bounds the aliases that are followed, as        *)
(* ctx->recursion does (50); as many as there are names go round every cycle. *)
RECURSIVE NameResolved(_, _, _, _)
NameResolved(s, c, k, n) ==
    LET rn == s.node[k]
    IN IF rn.exists /\ rn.valid THEN
          IF rn.addrs \/ n = 0 THEN {FromCache(s, c, k)}     \* addresses, or NXDOMAIN
          ELSE UNION {NameResolved(x, c, rn.cname, n - 1) :
                        x \in {[Current(s, k) EXCEPT !.ctx[c].via = k]}}
       ELSE IF rn.exists /\ rn.waiting # <<>> THEN {Join(s, c, k)}
       ELSE IF k \in RBadNames THEN {CallCtx(Deleted(s, k), "name", <<c>>)}
       ELSE SendOrFail(s, c, k)

(* The outcomes for an address. *)
AddrResolved(s, c, k) ==
    LET rn == s.node[k]
    IN IF rn.exists /\ rn.valid THEN {CallCtx(Current(s, k), "addr", <<c>>)}
       ELSE IF rn.exists /\ rn.waiting # <<>> THEN {Join(s, c, k)}
       ELSE SendOrFail(s, c, k)

(* The model stops ("tangled") where a request is left behind that nothing     *)
(* will find (an alias came for several requests, or the query for the alias  *)
(* could not be sent), where a node is left in no queue (a query could not be *)
(* sent again), and here: the node is gone whose copy of an alias is the name *)
(* of a request that waits.                                                   *)
NameGone(s) ==
    \E c \in RCtxs : LET via == s.ctx[c].via
                    IN via # NoKey /\ s.node[via].cname = NoKey

QuerySent(s) == {<<k, s.node[k].id>> : k \in {x \in RKeys : s.node[x].exists}}
Goes(S) == \E s \in S : rs' = [s EXCEPT !.tangled = @ \/ NameGone(s)] /\ queries' = queries \cup QuerySent(s)

-----------------------------------------------------------------------------
(* ngx_resolve_start and ngx_resolve_name or ngx_resolve_addr *)
ResolveName(c, k) ==
    /\ rs.ctx[c].st = "free"
    /\ Goes(NameResolved([rs EXCEPT !.ctx[c].st = "new"], c, k, Cardinality(RNames)))
ResolveAddr(c, k) ==
    /\ rs.ctx[c].st = "free"
    /\ Goes(AddrResolved([rs EXCEPT !.ctx[c].st = "new"], c, k))

(* ngx_resolve_name_done or ngx_resolve_addr_done of a request that waits,    *)
(* because its caller gives up or from ngx_resolver_timeout_handler.          *)
FaultEnded(s, c) == [s EXCEPT !.ctx[c] = NoCtx]
Ended(s, c) ==
    [s EXCEPT !.node[s.ctx[c].key].waiting = SelectSeq(@, LAMBDA x : x # c),
              !.ctx[c] = NoCtx]
Cancel(c) ==
    /\ rs.ctx[c].st = "again"
    /\ Goes({Expire(Ended(rs, c), Kind(rs.ctx[c].key), 2)})
TimedOut(c) == rs.ctx[c].timer /\ Cancel(c)

(* ngx_resolver_resend_handler: the timer of the oldest query fires. *)
Due(s, d) == {k \in Range(s.resend[d]) : s.node[k].late}
ResendQueue(s, d, failed) ==
    LET go   == {k \in Due(s, d) : s.node[k].waiting # <<>> /\ k \notin failed}
    IN [s EXCEPT !.resend[d] = SelectSeq(@, LAMBDA k : k \in go)
                               \o SelectSeq(@, LAMBDA k : k \notin Due(s, d)),
                 !.node = [k \in RKeys |->
                             IF k \in Due(s, d) /\ s.node[k].waiting = <<>> THEN NoNode
                             ELSE [s.node[k] EXCEPT !.late = @ /\ k \notin go]],
                 !.tangled = @ \/ \E k \in failed : k \in Due(s, d) /\ s.node[k].waiting # <<>>]
FaultRearmed(s) == s.resend["name"] # <<>>
Rearmed(s) == s.resend["name"] # <<>> \/ s.resend["addr"] # <<>>
Resend ==
    /\ rs.timer
    /\ \E failed \in IF "send" \in RFaults THEN SUBSET RKeys ELSE {{}} :
          Goes({[s EXCEPT !.timer = Rearmed(s)] :
                  s \in {ResendQueue(n, "addr", failed) : n \in {ResendQueue(rs, "name", failed)}}})

(* ngx_resolver_process_a and ngx_resolver_process_ptr: the requests that     *)
(* wait are told, or the first of them follows the alias.                     *)
Answered(s, k) ==
    [Current(s, k) EXCEPT !.node[k].waiting = <<>>, !.node[k].valid = TRUE]
Refused(s, k) == CallCtx(Deleted(s, k), Kind(k), s.node[k].waiting)
ProcessA(s, k) == CallCtx([Answered(s, k) EXCEPT !.node[k].addrs = TRUE], "name", s.node[k].waiting)
ProcessPtr(s, k) == CallCtx(Answered(s, k), "addr", s.node[k].waiting)
ProcessAlias(s, k, to) ==
    LET list == s.node[k].waiting
        kept == [Answered(s, k) EXCEPT !.node[k].cname = to, !.tangled = @ \/ Len(list) > 1]
    IN IF list = <<>> THEN {kept}
       ELSE UNION {NameResolved(x, list[1], to, Cardinality(RNames)) :
                     x \in {[kept EXCEPT !.ctx[list[1]].via = k]}}

Answers(s, k, kind) ==
    CASE kind = "error" -> {Refused(s, k)}
      [] kind = "answer" -> {IF k \in RNames THEN ProcessA(s, k) ELSE ProcessPtr(s, k)}
      [] kind \in RNames -> ProcessAlias(s, k, kind)

(* ngx_resolver_process_response: an answer to any query that was sent; the   *)
(* node must have asked with that identifier.                                 *)
Response(k, id, kind) ==
    /\ <<k, id>> \in queries
    /\ rs.node[k].exists /\ rs.node[k].id = id
    /\ Goes(Answers(rs, k, kind))

(* Time passes: an answer becomes invalid; the next node of a queue is late. *)
Lapse(k) ==
    /\ rs.node[k].valid
    /\ rs' = [rs EXCEPT !.node[k].valid = FALSE]
    /\ UNCHANGED queries
Later(d, q) ==
    LET due == {i \in 1..Len(q) : ~rs.node[q[i]].late}
    IN /\ due # {}
       /\ LET i == CHOOSE x \in due : \A y \in due : y <= x
          IN rs' = [rs EXCEPT !.node[q[i]].late = TRUE]
       /\ UNCHANGED queries

RNext ==
    /\ ~rs.tangled
    /\ \/ \E c \in RCtxs : \/ \E k \in RNames : ResolveName(c, k)
                          \/ \E k \in RAddrs : ResolveAddr(c, k)
       \/ \E c \in RCtxs : Cancel(c) \/ TimedOut(c)
       \/ Resend
       \/ \E k \in RKeys, id \in RIdents :
             \/ Response(k, id, "answer") \/ Response(k, id, "error")
             \/ "cname" \in RFaults /\ k \in RNames
                /\ \E to \in RNames : Response(k, id, to)
       \/ \E k \in RKeys : Lapse(k)
       \/ \E d \in {"name", "addr"} : Later(d, rs.resend[d]) \/ Later(d, rs.expire[d])

-----------------------------------------------------------------------------
(* A request that waits is in the list of exactly the node it asks about and  *)
(* no request that has ended is in any, so that every handler is called once; *)
(* a node is in exactly one of the two queues of its tree, and while somebody *)
(* waits, the query is sent again: the node is in the resend queue and the    *)
(* timer of that queue runs.  Left out are an alias that arrives for several  *)
(* requests at once (only the first of the chain is renamed), and a query     *)
(* that could not be sent again (its node is left in no queue).               *)
RequestsConsistent ==
    ~rs.tangled =>
        /\ ~rs.stray
        /\ \A c \in RCtxs, k \in RKeys :
              (c \in Range(rs.node[k].waiting)) <=> (rs.ctx[c].st = "again" /\ rs.ctx[c].key = k)
        /\ \A k \in RKeys :
              LET d == Kind(k)
                  places == {<<"r", i>> : i \in {j \in 1..Len(rs.resend[d]) : rs.resend[d][j] = k}}
                            \cup {<<"e", i>> : i \in {j \in 1..Len(rs.expire[d]) :
                                                         rs.expire[d][j] = k}}
              IN /\ Cardinality(places) = IF rs.node[k].exists THEN 1 ELSE 0
                 /\ rs.node[k].waiting # <<>> => k \in Range(rs.resend[d]) /\ rs.timer
=============================================================================
