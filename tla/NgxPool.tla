------------------------------- MODULE NgxPool -------------------------------
(***************************************************************************)
(* Memory pools (ngx_palloc.c): blocks that are filled from the start,      *)
(* large allocations kept on a list whose entries come from the blocks      *)
(* themselves, and cleanups that run when the pool is destroyed.            *)
(***************************************************************************)
EXTENDS Integers, Sequences, SequencesExt, FiniteSets

CONSTANTS
    PoSize,         \* size of a block
    PoHeader,       \* sizeof(ngx_pool_t), at the start of the first block
    PoData,         \* sizeof(ngx_pool_data_t), at the start of the others
    PoAlign,        \* NGX_ALIGNMENT
    PoMaxSmall,     \* NGX_MAX_ALLOC_FROM_POOL
    PoEntry,        \* sizeof(ngx_pool_large_t), and of ngx_pool_cleanup_t
    PoTries,        \* failures after which a block is passed over (4)
    PoLook,         \* entries of the large list looked at for an empty one (3)
    PoSizes,        \* sizes asked for
    PoFds,          \* descriptors with a cleanup
    PoMaxBlocks, PoMaxLarge     \* bounds

ASSUME PoolAssumption ==
    /\ {PoSize, PoHeader, PoData, PoAlign, PoMaxSmall, PoEntry} \subseteq Nat \ {0}
    /\ PoHeader % PoAlign = 0 /\ PoSize % PoAlign = 0
    /\ PoData <= PoHeader /\ PoHeader + 2 * PoEntry <= PoSize    \* NGX_MIN_POOL_SIZE

VARIABLE po

povars == <<po>>

AlignPtr(n) == ((n + PoAlign - 1) \div PoAlign) * PoAlign
PoSmall == IF PoSize - PoHeader < PoMaxSmall THEN PoSize - PoHeader ELSE PoMaxSmall

(* ngx_create_pool *)
NewBlock(last) == [last |-> last, failed |-> 0]
PoInit ==
    po = [blocks |-> <<NewBlock(PoHeader)>>,
          current |-> 1,
          large |-> <<>>,       \* the entries, newest first; 0 is an empty one
          heap |-> {},          \* large memory that is allocated
          cleanup |-> <<>>,     \* newest first; 0 is one whose handler is NULL
          open |-> {},          \* descriptors that are open
          given |-> {},         \* what has been handed out from the blocks
          state |-> "live"]

Region(b, from, size) == [block |-> b, from |-> from, size |-> size]

-----------------------------------------------------------------------------
(* The loop of ngx_palloc and of ngx_pnalloc over the blocks from "current". *)
Start(s, b, aligned) == IF aligned THEN AlignPtr(s.blocks[b].last) ELSE s.blocks[b].last
Fits(s, b, size, aligned) == PoSize - Start(s, b, aligned) >= size
FromBlock(s, b, size, aligned) ==
    [s EXCEPT !.blocks[b].last = Start(s, b, aligned) + size,
              !.given = @ \cup {Region(b, Start(s, b, aligned), size)}]

(* ngx_palloc_block: a new block, and one more failure for those before it. *)
FaultFirst(size) == AlignPtr(PoData)
FirstIn(size) == AlignPtr(PoData) + size
Passed(s) == {b \in s.current..Len(s.blocks) - 1 : s.blocks[b].failed > PoTries}
PallocBlock(s, size) ==
    LET n == Len(s.blocks)
        tried == [b \in 1..n |-> IF b \in s.current..n - 1
                                   THEN [s.blocks[b] EXCEPT !.failed = @ + 1] ELSE s.blocks[b]]
    IN [s EXCEPT !.blocks = Append(tried, NewBlock(FirstIn(size))),
                 !.current = IF Passed(s) = {} THEN @
                             ELSE 1 + CHOOSE b \in Passed(s) : \A c \in Passed(s) : c <= b,
                 !.given = @ \cup {Region(n + 1, AlignPtr(PoData), size)}]

(* The pools a small ngx_palloc may lead to: none when memory is short. *)
Palloc(s, size, aligned) ==
    LET fit == {b \in s.current..Len(s.blocks) : Fits(s, b, size, aligned)}
    IN IF fit # {} THEN {FromBlock(s, CHOOSE b \in fit : \A c \in fit : b <= c, size, aligned)}
       ELSE IF Len(s.blocks) < PoMaxBlocks THEN {PallocBlock(s, size)} ELSE {}

(* ngx_palloc_large: an empty entry among the first ones, or a new entry,     *)
(* without which the memory goes back.                                        *)
FreshLarge(s) == CHOOSE i \in 1..PoMaxLarge : i \notin s.heap
EmptyEntries(s) == {i \in 1..Len(s.large) : i <= PoLook + 2 /\ s.large[i] = 0}
NewEntry(s, m) ==
    {[t EXCEPT !.large = <<m>> \o @, !.heap = @ \cup {m}] : t \in Palloc(s, PoEntry, TRUE)}
PallocLarge(s) ==
    IF EmptyEntries(s) = {} THEN NewEntry(s, FreshLarge(s))
    ELSE {[s EXCEPT !.large[CHOOSE i \in EmptyEntries(s) : \A j \in EmptyEntries(s) : i <= j]
                        = FreshLarge(s),
                    !.heap = @ \cup {FreshLarge(s)}]}

-----------------------------------------------------------------------------
Live == po.state = "live"
MoreLarge == Cardinality(po.heap) < PoMaxLarge /\ Len(po.large) < PoMaxLarge + PoLook

(* ngx_palloc, ngx_pcalloc and ngx_pnalloc *)
PoAlloc(size, aligned) ==
    /\ Live
    /\ \/ size <= PoSmall /\ po' \in Palloc(po, size, aligned)
       \/ size > PoSmall /\ MoreLarge /\ po' \in PallocLarge(po)
Pmemalign == Live /\ MoreLarge /\ po' \in NewEntry(po, FreshLarge(po))

FaultPfree(m) == Live /\ po' = [po EXCEPT !.heap = @ \ {m}]
Pfree(m) ==
    /\ Live
    /\ \E i \in 1..Len(po.large) :
          /\ po.large[i] = m /\ \A j \in 1..i - 1 : po.large[j] # m
          /\ po' = [po EXCEPT !.large[i] = 0, !.heap = @ \ {m}]

(* ngx_pool_cleanup_add for an open file, with ngx_pool_cleanup_file. *)
CleanupAdd(fd) ==
    /\ Live /\ fd \notin po.open
    /\ \E t \in Palloc(po, PoEntry, TRUE) : \E u \in Palloc(t, PoEntry, TRUE) :
          po' = [u EXCEPT !.cleanup = <<fd>> \o @, !.open = @ \cup {fd}]

(* ngx_pool_run_cleanup_file: the first handler for the descriptor, once. *)
FaultRunOnce(c, i) == c
RunOnce(c, i) == [c EXCEPT ![i] = 0]
RunCleanupFile(fd) ==
    /\ Live
    /\ \E i \in 1..Len(po.cleanup) :
          /\ po.cleanup[i] = fd /\ \A j \in 1..i - 1 : po.cleanup[j] # fd
          /\ po' = [po EXCEPT !.cleanup = RunOnce(@, i), !.open = @ \ {fd}]

(* ngx_reset_pool, for a pool without cleanups: the blocks start over, each    *)
(* with room for a whole ngx_pool_t, and "current" stays where it is.          *)
ResetPool ==
    /\ Live /\ po.cleanup = <<>>
    /\ po' = [po EXCEPT !.heap = @ \ Range(po.large), !.large = <<>>, !.given = {},
                        !.blocks = [b \in 1..Len(@) |-> [@[b] EXCEPT !.last = PoHeader]]]

(* ngx_destroy_pool: each handler that is left closes its descriptor. *)
DestroyPool ==
    /\ Live
    /\ po' = [po EXCEPT !.state = "gone", !.heap = @ \ Range(po.large), !.large = <<>>,
                        !.given = {}, !.blocks = <<>>,
                        !.open = @ \ Range(po.cleanup)]

PoNext ==
    \/ \E n \in PoSizes, a \in BOOLEAN : PoAlloc(n, a)
    \/ Pmemalign
    \/ \E m \in 1..PoMaxLarge : Pfree(m)
    \/ \E fd \in PoFds : CleanupAdd(fd) \/ RunCleanupFile(fd)
    \/ ResetPool
    \/ DestroyPool

-----------------------------------------------------------------------------
Apart(x, y) == x.block # y.block \/ x.from + x.size <= y.from \/ y.from + y.size <= x.from

(* No two pieces a pool has handed out overlap, and none reaches into a        *)
(* block's header or past its end, whatever the order of small, large and      *)
(* unaligned requests; every large piece is on the list exactly once, so that  *)
(* destroying the pool frees it; a descriptor is closed once, by the caller or *)
(* by the pool, and a destroyed pool leaves neither memory nor files behind.   *)
PoolWhole ==
    /\ \A x, y \in po.given : x = y \/ Apart(x, y)
    /\ \A x \in po.given : /\ x.from >= IF x.block = 1 THEN PoHeader ELSE PoData
                           /\ x.from + x.size <= PoSize
    /\ \A m \in po.heap : Cardinality({i \in 1..Len(po.large) : po.large[i] = m}) = 1
    /\ Live => \A fd \in PoFds :
                  Cardinality({i \in 1..Len(po.cleanup) : po.cleanup[i] = fd})
                    = IF fd \in po.open THEN 1 ELSE 0
    /\ ~Live => po.heap = {} /\ po.open = {}
=============================================================================
