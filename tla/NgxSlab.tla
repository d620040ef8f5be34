------------------------------ MODULE NgxSlab -------------------------------
(***************************************************************************)
(* The allocator of shared memory (ngx_slab.c): pages, and chunks of a      *)
(* power-of-two size within a page.  A page of chunks smaller than "exact"  *)
(* begins with its own bitmap; the other bitmaps are in the page's          *)
(* descriptor.  Addresses are offsets from pool->start.                     *)
(***************************************************************************)
EXTENDS Naturals, FiniteSets, SequencesExt

CONSTANTS
    SlPageShift,    \* ngx_pagesize_shift
    SlMinShift,     \* pool->min_shift
    SlWord,         \* bits of a uintptr_t
    SlDesc,         \* sizeof(ngx_slab_page_t)
    SlEnds,         \* bytes after the pool's header
    SlSizes,        \* sizes asked for
    SlMaxLive       \* bound: allocations alive at a time

VARIABLES
    sl,             \* the pool
    slLive          \* what was allocated and not yet freed: [p, size]

slvars == <<sl, slLive>>

PageSize == 2 ^ SlPageShift
MaxSize == PageSize \div 2
ExactSize == PageSize \div SlWord
ExactShift == CHOOSE n \in 0..SlPageShift : 2 ^ n = ExactSize

(* ngx_slab_init: as many pages as fit behind the slots and the descriptors. *)
AlignUp(n, a) == ((n + a - 1) \div a) * a
FaultFitting(want, end, start) == want
Fitting(want, end, start) ==
    LET room == (end - start) \div PageSize IN IF want > room THEN room ELSE want
PoolPages(end) ==
    LET slots == (SlPageShift - SlMinShift) * SlDesc
        want == end \div (PageSize + SlDesc)
    IN  Fitting(want, end, AlignUp(slots + want * SlDesc, PageSize))
PoolStart(end) ==
    AlignUp((SlPageShift - SlMinShift) * SlDesc + (end \div (PageSize + SlDesc)) * SlDesc, PageSize)

NoPage == [type |-> "page", slab |-> "free", n |-> 0, shift |-> 0, map |-> {}]

SlInit ==
    \E end \in SlEnds :
        /\ PoolPages(end) > 0
        /\ sl = [end |-> end, free |-> <<0>>,
                 page |-> [i \in 0..(PoolPages(end) - 1) |->
                              IF i = 0 THEN [NoPage EXCEPT !.n = PoolPages(end)] ELSE NoPage],
                 slot |-> [k \in SlMinShift..(SlPageShift - 1) |-> <<>>]]
        /\ slLive = {}

-----------------------------------------------------------------------------
(* ngx_slab_alloc_pages: the first run in the list of free pages that is long  *)
(* enough; the rest of it keeps its place.  The result is a page or nothing.   *)
Long(s, n) == {i \in 1..Len(s.free) : s.page[s.free[i]].n >= n}

FaultRun(s, pg, n) == [s.page EXCEPT ![pg] = [NoPage EXCEPT !.slab = "start", !.n = n]]
Run(s, pg, n) ==
    [i \in DOMAIN s.page |->
        IF i = pg THEN [NoPage EXCEPT !.slab = "start", !.n = n]
        ELSE IF i > pg /\ i < pg + n THEN [NoPage EXCEPT !.slab = "busy"]
        ELSE IF i = pg + n /\ s.page[pg].n > n THEN [NoPage EXCEPT !.n = s.page[pg].n - n]
        ELSE s.page[i]]

AllocPages(s, n) ==
    IF Long(s, n) = {} THEN {}
    ELSE LET i == CHOOSE x \in Long(s, n) : \A y \in Long(s, n) : x <= y
             pg == s.free[i]
         IN  {[pg |-> pg,
               s |-> [s EXCEPT !.page = Run(s, pg, n),
                               !.free = IF s.page[pg].n > n THEN [s.free EXCEPT ![i] = pg + n]
                                        ELSE RemoveAt(s.free, i)]]}

(* ngx_slab_free_pages: to the front of the list; runs are never joined. *)
FreePages(s, pg, n) ==
    [s EXCEPT !.free = <<pg>> \o @,
              !.page = [i \in DOMAIN s.page |->
                           IF i = pg THEN [NoPage EXCEPT !.n = n]
                           ELSE IF i > pg /\ i < pg + n THEN NoPage ELSE s.page[i]],
              !.slot = [k \in DOMAIN s.slot |-> SelectSeq(s.slot[k], LAMBDA x : x # pg)]]

-----------------------------------------------------------------------------
(* The size class of a request, and what a page of the class holds. *)
Shift(size) ==
    IF size > 2 ^ SlMinShift THEN CHOOSE k \in 1..SlPageShift : 2 ^ (k - 1) < size /\ size <= 2 ^ k
    ELSE SlMinShift
Class(k) == IF k < ExactShift THEN "small" ELSE IF k = ExactShift THEN "exact" ELSE "big"
Chunks(k) == 2 ^ (SlPageShift - k)

(* The chunks at the beginning of a small page that its bitmap takes. *)
FaultReserved(k) == IF Class(k) = "small" THEN (Chunks(k) \div 8) \div (2 ^ k) ELSE 0
Reserved(k) ==
    IF Class(k) # "small" THEN 0
    ELSE LET n == (Chunks(k) \div 8) \div (2 ^ k) IN IF n = 0 THEN 1 ELSE n

(* ngx_slab_alloc_locked: pages; a chunk of the first page of the slot, which   *)
(* leaves the list when it is full; or the first chunk of a new page.           *)
AllocRun(size) ==
    {[p |-> x.pg * PageSize, s |-> x.s] : x \in AllocPages(sl, (size + PageSize - 1) \div PageSize)}

AllocChunk(k) ==
    LET pg == Head(sl.slot[k])
        c == CHOOSE i \in (0..(Chunks(k) - 1)) \ sl.page[pg].map :
                \A j \in 0..(i - 1) : j \in sl.page[pg].map
        map == sl.page[pg].map \cup {c}
    IN  [p |-> pg * PageSize + c * 2 ^ k,
         s |-> [sl EXCEPT !.page[pg].map = map,
                          !.slot[k] = IF Cardinality(map) = Chunks(k) THEN Tail(@) ELSE @]]

AllocFirst(k) ==
    {[p |-> x.pg * PageSize + Reserved(k) * 2 ^ k,
      s |-> [x.s EXCEPT !.page[x.pg] = [type |-> Class(k), slab |-> "chunks", n |-> 0, shift |-> k,
                                        map |-> 0..Reserved(k)],
                        !.slot[k] = <<x.pg>>]] : x \in AllocPages(sl, 1)}

SlabAlloc(size) ==
    /\ Cardinality(slLive) < SlMaxLive
    /\ LET k == Shift(size)
       IN  \E r \in IF size >= MaxSize THEN AllocRun(size)
                    ELSE IF sl.slot[k] # <<>> THEN {AllocChunk(k)} ELSE AllocFirst(k) :
              sl' = r.s /\ slLive' = slLive \cup {[p |-> r.p, size |-> size]}

(* ngx_slab_free_locked: a page that was full returns to its slot; one that     *)
(* holds nothing more is freed.                                                 *)
FreeChunk(pg, c) ==
    LET k == sl.page[pg].shift
        map == sl.page[pg].map \ {c}
        a == [sl EXCEPT !.page[pg].map = map,
                        !.slot[k] = IF Cardinality(sl.page[pg].map) = Chunks(k) THEN <<pg>> \o @ ELSE @]
    IN  IF map \subseteq 0..(Reserved(k) - 1) THEN FreePages(a, pg, 1) ELSE a

SlabFree(x) ==
    LET pg == x.p \div PageSize
    IN  /\ sl' = IF sl.page[pg].type = "page" THEN FreePages(sl, pg, sl.page[pg].n)
                 ELSE FreeChunk(pg, (x.p % PageSize) \div 2 ^ sl.page[pg].shift)
        /\ slLive' = slLive \ {x}

SlNext == (\E size \in SlSizes : SlabAlloc(size)) \/ (\E x \in slLive : SlabFree(x))

-----------------------------------------------------------------------------
(* What is allocated does not overlap anything else that is allocated, nor the  *)
(* bitmap at the beginning of its page, nor a free page, and lies within the    *)
(* pool; no page is lost: each is in a free run, in an allocated run, or holds  *)
(* a chunk that somebody has.                                                   *)
Bytes1(x) == x.p..(x.p + x.size - 1)
FreeRun(pg) == pg..(pg + sl.page[pg].n - 1)
SlabDisjoint ==
    /\ \A x, y \in slLive : x # y => Bytes1(x) \cap Bytes1(y) = {}
    /\ \A x \in slLive : LET k == sl.page[x.p \div PageSize].shift IN
            /\ PoolStart(sl.end) + x.p + x.size <= sl.end
            /\ sl.page[x.p \div PageSize].type = "small" => x.p % PageSize >= Chunks(k) \div 8
            /\ \A pg \in Range(sl.free) : \A b \in Bytes1(x) : b \div PageSize \notin FreeRun(pg)
    /\ \A i \in DOMAIN sl.page :
            \/ \E pg \in Range(sl.free) : i \in FreeRun(pg)
            \/ \E x \in slLive : i \in (x.p \div PageSize)..((x.p + x.size - 1) \div PageSize)
=============================================================================
