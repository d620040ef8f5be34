------------------------- MODULE NgxOpenFileCache ---------------------------
(***************************************************************************)
(* The cache of open files (ngx_open_file_cache.c): a tree of entries by    *)
(* name, the queue in which they expire, the descriptors they own, and the  *)
(* requests whose pools hold a cleanup for an entry.  Files are created,    *)
(* replaced and removed at any time; a notification of the kernel about a   *)
(* file comes later than the change, or not at all.                         *)
(***************************************************************************)
EXTENDS Naturals, FiniteSets, SequencesExt

CONSTANTS
    ONames,     \* file names
    OInodes,    \* identities of regular files (ngx_file_uniq)
    OUsers,     \* requests
    OEntries,   \* memory for entries
    OFds,       \* descriptors
    OMax,       \* cache->max
    OMaxTime,   \* bound: seconds
    OMaxUses,   \* file->uses is counted up to the largest min_uses
    OWishes     \* what requests ask for: records [min, errors, events, valid]

VARIABLES
    oc,         \* the cache
    ofs,        \* ofs[name]: "none", "dir" or the file's identity
    otime       \* ngx_time()

ovars == <<oc, ofs, otime>>

ONoFd == 0
Inactive == 0           \* cache->inactive
OFreeFds(s) == {fd \in OFds : s.desc[fd] = "none"}

NoEntry ==
    [name |-> "", fd |-> ONoFd, err |-> FALSE, dir |-> FALSE, uniq |-> "none", uses |-> 0,
     count |-> 0, close |-> FALSE, event |-> FALSE, use |-> FALSE, created |-> 0, accessed |-> 0]

NoUse == [e |-> 0, fd |-> ONoFd, min |-> 0, uniq |-> "none"]

OInit ==
    /\ oc = [f |-> [e \in OEntries |-> NoEntry],
             tree |-> {},                               \* cache->rbtree
             q |-> <<>>,                                \* cache->expire_queue, head first
             current |-> 0,
             desc |-> [fd \in OFds |-> "none"],         \* what a descriptor is open on
             users |-> [u \in OUsers |-> NoUse],        \* the pools' cleanups
             stray |-> FALSE]                           \* an entry was removed twice
    /\ ofs \in [ONames -> OInodes \cup {"none", "dir"}]
    /\ otime = 0

(* ngx_open_file_lookup: the entry of the tree with this name. *)
OLookup(s, name) == {e \in s.tree : s.f[e].name = name}

CloseFd(s, fd) == [s EXCEPT !.desc[fd] = "none"]
Unqueue(q, e) == SelectSeq(q, LAMBDA x : x # e)
FreeEntry(s, e) == [s EXCEPT !.f[e] = NoEntry]
DelFromTree(s, e) == [s EXCEPT !.tree = @ \ {e}, !.current = @ - 1]

-----------------------------------------------------------------------------
(* ngx_open_file_del_event and ngx_close_cached_file. *)
ODelEvent(s, e) == [s EXCEPT !.f[e].event = FALSE, !.f[e].use = FALSE]

InUse(f, min) == f.uses >= min \/ f.count > 0

CloseCachedFile(s, e, min) ==
    LET f == s.f[e]
        a == IF f.close THEN s ELSE [s EXCEPT !.f[e].accessed = otime,
                                              !.q = <<e>> \o Unqueue(@, e)]
        b == ODelEvent(a, e)
        c == IF f.fd = ONoFd THEN b ELSE [CloseFd(b, f.fd) EXCEPT !.f[e].fd = ONoFd]
    IN  IF ~f.close /\ InUse(f, min) THEN a
        ELSE IF f.count > 0 THEN b
        ELSE IF ~f.close THEN c ELSE FreeEntry(c, e)

(* ngx_expire_old_cached_files: with n = 0 the oldest goes whatever its age. *)
OldestOut(s) ==
    LET e == Last(s.q)
        a == DelFromTree([s EXCEPT !.q = Front(@)], e)
    IN  IF ~a.f[e].err /\ ~a.f[e].dir
        THEN CloseCachedFile([a EXCEPT !.f[e].close = TRUE], e, 0)
        ELSE FreeEntry(a, e)

ExpireOne(s, forced) ==
    IF s.q # <<>> /\ (forced \/ otime - s.f[Last(s.q)].accessed > Inactive)
    THEN OldestOut(s) ELSE s

ExpireOld(s, n) ==
    LET a == IF n = 0 THEN ExpireOne(s, TRUE) ELSE s
        b == ExpireOne(a, FALSE)
    IN  IF b = a THEN a ELSE ExpireOne(b, FALSE)

-----------------------------------------------------------------------------
(* ngx_open_and_stat_file: a set of outcomes [s, of, ok].  A descriptor that   *)
(* is still open on the file of this name is kept; a directory is not kept     *)
(* open; fstat may fail.                                                       *)
Stated(s, of, ok) == [s |-> s, of |-> of, ok |-> ok]
OpenError(s, of) == Stated(s, [of EXCEPT !.fd = ONoFd, !.err = TRUE], FALSE)

Opened(s, name, of) ==
    LET v == ofs[name]
    IN  IF v = "none" \/ OFreeFds(s) = {} THEN {OpenError(s, of)}
        ELSE {Stated(s, [of EXCEPT !.fd = ONoFd], FALSE),
              IF v = "dir" THEN Stated(s, [of EXCEPT !.fd = ONoFd, !.dir = TRUE, !.uniq = v], TRUE)
              ELSE LET fd == CHOOSE x \in OFreeFds(s) : \A y \in OFreeFds(s) : x <= y
                   IN  Stated([s EXCEPT !.desc[fd] = v],
                              [of EXCEPT !.fd = fd, !.dir = FALSE, !.uniq = v], TRUE)}

OpenAndStat(s, name, of) ==
    LET v == ofs[name]
    IN  IF (of.fd # ONoFd \/ of.test) /\ v = "none" THEN {OpenError(s, of)}
        ELSE IF of.fd # ONoFd /\ of.uniq = v THEN {Stated(s, [of EXCEPT !.dir = FALSE], TRUE)}
        ELSE IF of.fd = ONoFd /\ of.test /\ v = "dir"
             THEN {Stated(s, [of EXCEPT !.dir = TRUE, !.uniq = v], TRUE)}
        ELSE Opened(s, name, of)

(* ngx_open_file_add_event: where the event method watches files. *)
OAddEvent(s, e, of) ==
    IF ~of.events \/ s.f[e].event \/ of.fd = ONoFd \/ s.f[e].uses < of.min THEN {s}
    ELSE {[s EXCEPT !.f[e].event = TRUE, !.f[e].use = FALSE],
          [s EXCEPT !.f[e].use = FALSE]}                          \* ngx_add_event failed

-----------------------------------------------------------------------------
(* The labels at the end of ngx_open_cached_file, each with the result of the  *)
(* call: the state and the request's cleanup.                                  *)
OFound(s, e, of, u) ==
    LET a == [s EXCEPT !.f[e].accessed = otime, !.q = <<e>> \o @]
    IN  IF of.err \/ of.dir THEN a
        ELSE [a EXCEPT !.users[u] = [e |-> e, fd |-> of.fd, min |-> of.min, uniq |-> of.uniq]]
ORenew(s, e, of, u) == OFound([s EXCEPT !.f[e].created = otime], e, of, u)
OUpdate(s, e, of, u) ==
    LET f == [s.f[e] EXCEPT !.fd = of.fd, !.err = of.err]
        g == IF of.err THEN f
             ELSE [f EXCEPT !.uniq = of.uniq, !.close = FALSE, !.dir = of.dir,
                            !.count = IF of.dir THEN @ ELSE @ + 1]
    IN  ORenew([s EXCEPT !.f[e] = g], e, of, u)
AddEventLabel(s, e, of, u) == {OUpdate(t, e, of, u) : t \in OAddEvent(s, e, of)}

OFailedNew(s, of) == {IF of.fd = ONoFd THEN s ELSE CloseFd(s, of.fd)}
OFailed(s, e, of) ==
    LET a == DelFromTree(s, e)
    IN  UNION {OFailedNew(b, of) : b \in
            {IF a.f[e].count > 0 THEN [a EXCEPT !.f[e].close = TRUE]
             ELSE FreeEntry(IF a.f[e].fd = ONoFd THEN a ELSE CloseFd(a, a.f[e].fd), e)}}

(* A new entry is not zeroed: is_dir of one that keeps an error is anything.   *)
Uninitialised(of) == IF of.err THEN BOOLEAN ELSE {FALSE}
MakeRoom(s) == IF s.current >= OMax THEN ExpireOld(s, 0) ELSE s
Create(s, name, of, u) ==
    UNION {LET free == {e \in OEntries : r.f[e].name = ""}
               e == CHOOSE x \in free : \A y \in free : x <= y
           IN  OFailedNew(r, of)                                  \* no memory
               \cup IF free = {} THEN {}
                    ELSE UNION {AddEventLabel([r EXCEPT !.f[e] = [NoEntry EXCEPT !.name = name, !.uses = 1,
                                                                                 !.dir = d],
                                                        !.tree = @ \cup {e}, !.current = @ + 1],
                                              e, of, u) : d \in Uninitialised(of)}
           : r \in {MakeRoom(s)}}

(* Not in the cache. *)
Uncached(s, name, of, u) ==
    UNION {IF ~x.ok /\ ~(x.of.err /\ x.of.errors) THEN OFailedNew(x.s, x.of)
           ELSE Create(x.s, name, x.of, u) : x \in OpenAndStat(s, name, of)}

(* An entry whose descriptor was closed because it was not used enough. *)
Reopen1(s, e, of, u) ==
    UNION {IF ~x.ok /\ ~(x.of.err /\ x.of.errors) THEN OFailed(x.s, e, x.of)
           ELSE AddEventLabel(x.s, e, x.of, u) : x \in OpenAndStat(s, s.f[e].name, of)}

(* An entry that is still good: valid, or watched. *)
StillGood(f, of) ==
    f.use \/ (~f.event /\ of.uniq \in {"none", f.uniq} /\ otime - f.created < of.valid)
Hit(s, e, of, u) ==
    LET f == s.f[e]
        got == [of EXCEPT !.err = f.err, !.fd = IF f.err THEN ONoFd ELSE f.fd,
                          !.dir = ~f.err /\ f.dir, !.uniq = f.uniq]
    IN  IF f.err \/ f.dir THEN {OFound(s, e, got, u)}
        ELSE {OFound(t, e, got, u) : t \in OAddEvent([s EXCEPT !.f[e].count = @ + 1], e, got)}

(* An entry that was looked at again: unchanged, changed in place when nobody  *)
(* uses it, or left to its users and replaced by a new one.                    *)
FaultUnused(f) == TRUE
Unused(f) == f.count = 0
Changed(s, e, of, u) ==
    IF Unused(s.f[e]) THEN AddEventLabel(CloseFd(ODelEvent(s, e), s.f[e].fd), e, of, u)
    ELSE Create([DelFromTree(s, e) EXCEPT !.f[e].close = TRUE], s.f[e].name, of, u)
Checked(s, e, of, u) ==
    LET f == s.f[e]
        none == f.dir \/ f.err
    IN  IF none /\ (of.dir \/ of.err) THEN {OUpdate(s, e, of, u)}
        ELSE IF none THEN AddEventLabel(s, e, of, u)
        ELSE IF ~of.dir /\ ~of.err /\ of.uniq = f.uniq
             THEN {ORenew([s EXCEPT !.f[e].count = @ + 1, !.f[e].use = f.event], e, of, u)}
        ELSE Changed(s, e, of, u)
Revalidate(s, e, of, u) ==
    UNION {IF ~x.ok /\ ~(x.of.err /\ x.of.errors) THEN OFailed(x.s, e, x.of)
           ELSE Checked(x.s, e, x.of, u)
           : x \in OpenAndStat(s, s.f[e].name, [of EXCEPT !.fd = s.f[e].fd, !.uniq = s.f[e].uniq,
                                                          !.test = s.f[e].dir])}

InCache(s, e, of, u) ==
    LET f == s.f[e]
    IN  IF f.fd = ONoFd /\ ~f.err /\ ~f.dir THEN Reopen1(s, e, of, u)
        ELSE IF StillGood(f, of) THEN Hit(s, e, of, u)
        ELSE Revalidate(s, e, of, u)

-----------------------------------------------------------------------------
(* ngx_open_cached_file for a request that has no open file. *)
OpenCachedFile(u) ==
    /\ oc.users[u] = NoUse
    /\ \E name \in ONames, w \in OWishes :
         LET of == [min |-> w.min, errors |-> w.errors, events |-> w.events, valid |-> w.valid,
                    fd |-> ONoFd, err |-> FALSE, dir |-> FALSE, uniq |-> "none", test |-> FALSE]
             known == OLookup(oc, name)
         IN  oc' \in IF known = {} THEN Uncached(oc, name, of, u)
                     ELSE LET e == CHOOSE x \in known : TRUE
                          IN  InCache([oc EXCEPT !.f[e].uses = IF @ < OMaxUses THEN @ + 1 ELSE @, !.q = Unqueue(@, e)], e, of, u)
    /\ UNCHANGED <<ofs, otime>>

(* ngx_open_cached_file without a cache: the pool's cleanup owns the file. *)
OpenWithoutCache(u) ==
    /\ oc.users[u] = NoUse
    /\ \E name \in ONames :
         LET of == [min |-> 0, fd |-> ONoFd, err |-> FALSE, dir |-> FALSE, uniq |-> "none", test |-> FALSE]
         IN  \E x \in OpenAndStat(oc, name, of) :
                oc' = IF x.ok /\ ~x.of.dir
                      THEN [x.s EXCEPT !.users[u] = [NoUse EXCEPT !.fd = x.of.fd, !.uniq = x.of.uniq]]
                      ELSE x.s
    /\ UNCHANGED <<ofs, otime>>

(* ngx_open_file_cleanup, when the request's pool is destroyed. *)
OpenFileCleanup(u) ==
    /\ oc.users[u] # NoUse
    /\ LET use == oc.users[u]
           s == [oc EXCEPT !.users[u] = NoUse]
       IN  oc' = IF use.e = 0 THEN CloseFd(s, use.fd)
                 ELSE ExpireOld(CloseCachedFile([s EXCEPT !.f[use.e].count = @ - 1], use.e, use.min), 1)
    /\ UNCHANGED <<ofs, otime>>

(* ngx_open_file_cache_remove: the kernel says that a watched file changed     *)
(* (its attributes, for instance: its name may still lead to it).              *)
(* An entry that left the tree in the meantime is taken out a second time.     *)
CacheRemove ==
    /\ \E e \in OEntries :
         /\ oc.f[e].event
         /\ LET s == [oc EXCEPT !.f[e].event = FALSE, !.f[e].use = FALSE, !.f[e].close = TRUE,
                                !.q = Unqueue(@, e), !.stray = @ \/ e \notin oc.tree]
            IN  oc' = CloseCachedFile(DelFromTree(s, e), e, 0)
    /\ UNCHANGED <<ofs, otime>>

(* ngx_open_file_cache_cleanup, when the pool of a cycle is destroyed that no  *)
(* connection uses any more; then the cache of the next one.                   *)
CacheCleanup ==
    /\ \A u \in OUsers : oc.users[u] = NoUse
    /\ oc' = FoldLeft(LAMBDA s, e : OldestOut([s EXCEPT !.f[e].count = 0]), oc, Reverse(oc.q))
    /\ UNCHANGED <<ofs, otime>>

FileChanges == /\ \E name \in ONames, v \in OInodes \cup {"none", "dir"} : ofs' = [ofs EXCEPT ![name] = v]
               /\ UNCHANGED <<oc, otime>>
OTick == otime < OMaxTime /\ otime' = otime + 1 /\ UNCHANGED <<oc, ofs>>

ONext ==
    /\ ~oc.stray
    /\ \/ \E u \in OUsers : OpenCachedFile(u) \/ OpenWithoutCache(u) \/ OpenFileCleanup(u)
       \/ CacheRemove \/ CacheCleanup \/ FileChanges \/ OTick

-----------------------------------------------------------------------------
(* A request's descriptor stays open on the file it was opened on until the    *)
(* request ends, whatever is expired, replaced or revalidated meanwhile; an     *)
(* entry counts its users; every descriptor has one owner; the tree and the     *)
(* queue hold the same entries, one for a name, and no more than the maximum.   *)
(* Nothing is said once an entry was removed twice (CacheRemove).               *)
FilesStayOpen ==
    ~oc.stray =>
        /\ \A u \in OUsers : oc.users[u] # NoUse =>
                /\ oc.desc[oc.users[u].fd] = oc.users[u].uniq
                /\ oc.users[u].e # 0 => oc.f[oc.users[u].e].fd = oc.users[u].fd
        /\ \A e \in OEntries : oc.f[e].count = Cardinality({u \in OUsers : oc.users[u].e = e})
        /\ \A fd \in OFds : oc.desc[fd] # "none" =>
                Cardinality({e \in OEntries : oc.f[e].fd = fd})
                  + Cardinality({u \in OUsers : oc.users[u].fd = fd /\ oc.users[u].e = 0}) = 1
        /\ Range(oc.q) = oc.tree /\ Len(oc.q) = oc.current /\ oc.current = Cardinality(oc.tree)
        /\ oc.current <= OMax
        /\ \A e, d \in oc.tree : oc.f[e].name = oc.f[d].name => e = d
=============================================================================
