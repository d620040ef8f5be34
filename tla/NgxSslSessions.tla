--------------------------- MODULE NgxSslSessions ---------------------------
(***************************************************************************)
(* The cache of SSL sessions that workers share (ngx_event_openssl.c): an   *)
(* expiry queue and a tree over the same entries, in slab memory, under the *)
(* mutex of the zone.  A lookup copies the session under the mutex and      *)
(* decodes the copy after it gave the mutex back, with the length that is   *)
(* then in the entry.                                                       *)
(***************************************************************************)
EXTENDS Naturals, FiniteSets, SequencesExt

CONSTANTS
    SsWorkers,      \* workers
    SsIds,          \* session ids
    SsSizes,        \* sizes of encoded sessions, in units of memory
    SsCells,        \* addresses of entries
    SsMemory,       \* units of memory in the zone
    SsMaxSize,      \* NGX_SSL_MAX_SESSION_SIZE
    SsTimeout,      \* SSL_CTX_get_timeout
    SsMaxNow        \* bound: the clock

VARIABLES
    ss,         \* the zone: cell[a], queue, tree, free memory
    ssGet,      \* ssGet[w]: a lookup between the unlock and the decoding
    ssNow       \* ngx_time()

ssvars == <<ss, ssGet, ssNow>>

NoSession == [id |-> 0, len |-> 0, expire |-> 0]
NoGet == [at |-> 0, len |-> 0, reused |-> FALSE]
EntrySize == 1          \* sizeof(ngx_ssl_sess_id_t)

(* ngx_ssl_session_cache_init: an existing cache is taken over as it is. *)
SsInit ==
    /\ ss = [cell |-> [a \in SsCells |-> NoSession], queue |-> <<>>, tree |-> {}, free |-> SsMemory]
    /\ ssGet = [w \in SsWorkers |-> NoGet]
    /\ ssNow = 0

(* An entry leaves the queue and the tree, and its two allocations are freed.   *)
(* The memory of the entry keeps what it holds until it is used again.          *)
FaultTreeLeft(s, a) == s.tree
TreeLeft(s, a) == s.tree \ {a}
RemoveEntry(s, a) ==
    [s EXCEPT !.queue = SelectSeq(@, LAMBDA b : b # a), !.tree = TreeLeft(s, a),
              !.free = @ + s.cell[a].len + EntrySize]

(* ngx_ssl_expire_sessions(n): with n = 1 up to two that have expired, with     *)
(* n = 0 the oldest whatever it is, and then up to two.                         *)
ExpireTurn(s, n) ==
    IF s.queue = <<>> \/ s.stop THEN s
    ELSE LET a == Last(s.queue)
         IN  IF n # 0 /\ s.cell[a].expire > ssNow THEN [s EXCEPT !.stop = TRUE] ELSE RemoveEntry(s, a)
ExpireSessions(s, n) ==
    LET x == FoldLeft(ExpireTurn, [stop |-> FALSE] @@ s, [i \in 1..(3 - n) |-> n + i - 1])
    IN  [f \in DOMAIN s |-> x[f]]

(* ngx_ssl_new_session.  The memory may be there and still be in pieces that    *)
(* are too small: an allocation may fail at any time.                           *)
Stored(s, a, id, len) ==
    [s EXCEPT !.cell[a] = [id |-> id, len |-> len, expire |-> ssNow + SsTimeout],
              !.queue = <<a>> \o @, !.tree = @ \cup {a}, !.free = @ - len - EntrySize]
FreeCells(s) == SsCells \ s.tree
NewSession(id, len) ==
    /\ \A a \in ss.tree : ss.cell[a].id # id        \* the library makes new ids
    /\ IF len > SsMaxSize THEN UNCHANGED <<ss, ssGet>>
       ELSE \E s \in {ExpireSessions(ss, 1)} :
            \E t \in {s, ExpireSessions(s, 0)} :
               /\ t # s \/ s.free >= len            \* the second try only after the first failed
               /\ \/ ss' = t /\ UNCHANGED ssGet     \* failed: what was allocated is freed
                  \/ \E a \in FreeCells(t) :
                        /\ t.free >= len + EntrySize
                        /\ ss' = Stored(t, a, id, len)
                        /\ ssGet' = [w \in SsWorkers |->
                                        IF ssGet[w].at = a THEN [ssGet[w] EXCEPT !.reused = TRUE] ELSE ssGet[w]]
    /\ UNCHANGED ssNow

(* ngx_ssl_get_cached_session: an expired session is removed, another is copied. *)
Found(a) == ss.cell[a].expire > ssNow
GetSession(w, id) ==
    /\ ssGet[w] = NoGet
    /\ \E a \in ss.tree :
          /\ ss.cell[a].id = id
          /\ IF Found(a)
             THEN ssGet' = [ssGet EXCEPT ![w] = [at |-> a, len |-> ss.cell[a].len, reused |-> FALSE]] /\ UNCHANGED ss
             ELSE ss' = RemoveEntry(ss, a) /\ UNCHANGED ssGet
    /\ UNCHANGED ssNow
Decode(w) ==            \* d2i_SSL_SESSION(NULL, &p, sess_id->len)
    /\ ssGet[w] # NoGet
    /\ ssGet' = [ssGet EXCEPT ![w] = NoGet]
    /\ UNCHANGED <<ss, ssNow>>

(* ngx_ssl_remove_session. *)
RemoveSession(id) ==
    /\ \E a \in ss.tree : ss.cell[a].id = id /\ ss' = RemoveEntry(ss, a)
    /\ UNCHANGED <<ssGet, ssNow>>

SsTick == ssNow < SsMaxNow /\ ssNow' = ssNow + 1 /\ UNCHANGED <<ss, ssGet>>

SsNext ==
    \/ \E id \in SsIds, len \in SsSizes : NewSession(id, len)
    \/ \E w \in SsWorkers, id \in SsIds : GetSession(w, id)
    \/ \E w \in SsWorkers : Decode(w)
    \/ \E id \in SsIds : RemoveSession(id)
    \/ SsTick

-----------------------------------------------------------------------------
(* The queue and the tree hold the same entries, oldest last, no id twice, and  *)
(* the memory in use is theirs.  A lookup decodes its copy with the right        *)
(* length unless the entry's memory was given away between the unlock and the    *)
(* decoding.                                                                     *)
SessionsAgree ==
    /\ ToSet(ss.queue) = ss.tree /\ Len(ss.queue) = Cardinality(ss.tree)
    /\ \A a, b \in ss.tree : a # b => ss.cell[a].id # ss.cell[b].id
    /\ \A i \in 1..Len(ss.queue), j \in 1..Len(ss.queue) :
          i < j => ss.cell[ss.queue[i]].expire >= ss.cell[ss.queue[j]].expire
    /\ ss.free + FoldSet(LAMBDA a, x : x + ss.cell[a].len + EntrySize, 0, ss.tree) = SsMemory
    /\ \A w \in SsWorkers : ssGet[w] # NoGet /\ ~ssGet[w].reused => ss.cell[ssGet[w].at].len = ssGet[w].len
=============================================================================
