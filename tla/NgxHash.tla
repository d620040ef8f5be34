------------------------------- MODULE NgxHash -------------------------------
(***************************************************************************)
(* Hashes of names with wildcards (ngx_hash.c): ngx_hash_add_key collects    *)
(* "name", ".name", "*.name" and "name.*", ngx_hash_init and                *)
(* ngx_hash_wildcard_init build the tables once, and                        *)
(* ngx_hash_find_combined looks names up.  A name is a sequence of labels;   *)
(* its case, which every function folds, is left out.                       *)
(***************************************************************************)
EXTENDS Integers, Sequences, SequencesExt, FiniteSets

CONSTANTS
    HsKeys,         \* the keys that may be added: [form, name]
    HsNames,        \* the names that are looked up
    HsCode,         \* HsCode[label]: what a label adds to a hash
    HsLength,       \* HsLength[label]: its number of characters
    HsPtr,          \* sizeof(void *)
    HsBucket,       \* hinit->bucket_size
    HsMaxSize,      \* hinit->max_size
    HsShort,        \* 2^16: what a u_short counts to
    HsMaxAdded      \* bound: keys in one hash

VARIABLE hs

hsvars == <<hs>>

None == [form |-> "none", name |-> <<>>]       \* NULL
NoTable == [size |-> 0]
NoRoom == [size |-> -1]                        \* NGX_ERROR

HsInit == hs = [exact |-> <<>>, seen |-> {}, head |-> <<>>, tail |-> <<>>,
                added |-> {}, busy |-> {}, built |-> "no", tables |-> NoTable]

-----------------------------------------------------------------------------
(* ngx_hash_add_key.  ".name" is also an exact name for the conflicts; a       *)
(* wildcard is already on its list when its conflict is found.  Heads are      *)
(* kept reversed; "dot" is the trailing '.' of "*.name".                       *)
Entry(labels, dot, key) == [labels |-> labels, dot |-> dot, value |-> key]

Busy(k) ==
    /\ k.form \in {"exact", "dot"} /\ <<"exact", k.name>> \in hs.seen
    /\ hs' = [hs EXCEPT !.busy = @ \cup {k}]
AddExact(k) ==
    /\ k.form = "exact" /\ <<"exact", k.name>> \notin hs.seen
    /\ hs' = [hs EXCEPT !.exact = Append(@, Entry(k.name, FALSE, k)),
                        !.seen = @ \cup {<<"exact", k.name>>}, !.added = @ \cup {k}]
AddHead(k) ==
    /\ k.form = "star" \/ (k.form = "dot" /\ <<"exact", k.name>> \notin hs.seen)
    /\ hs' = [hs EXCEPT
                !.head = Append(@, Entry(Reverse(k.name), k.form = "star", k)),
                !.seen = @ \cup {<<"head", k.name>>}
                           \cup IF k.form = "dot" THEN {<<"exact", k.name>>} ELSE {},
                !.added = @ \cup {k},
                !.busy = IF <<"head", k.name>> \in hs.seen THEN @ \cup {k} ELSE @]
AddTail(k) ==
    /\ k.form = "tail"
    /\ hs' = [hs EXCEPT
                !.tail = Append(@, Entry(k.name, FALSE, k)),
                !.seen = @ \cup {<<"tail", k.name>>}, !.added = @ \cup {k},
                !.busy = IF <<"tail", k.name>> \in hs.seen THEN @ \cup {k} ELSE @]
AddKey(k) ==
    /\ hs.built = "no" /\ Cardinality(hs.added) < HsMaxAdded /\ k \notin hs.added
    /\ Busy(k) \/ AddExact(k) \/ AddHead(k) \/ AddTail(k)

-----------------------------------------------------------------------------
(* ngx_hash_key and NGX_HASH_ELT_SIZE *)
HashKey(labels) == FoldLeft(LAMBDA k, l : k * 31 + HsCode[l], 0, labels)
KeyLen(labels) ==
    FoldLeft(LAMBDA n, l : n + HsLength[l], IF labels = <<>> THEN 0 ELSE Len(labels) - 1, labels)
EltSize(e) == HsPtr + ((KeyLen(e.labels) + 2 + HsPtr - 1) \div HsPtr) * HsPtr

(* ngx_hash_init: the smallest size at which every bucket holds what falls     *)
(* into it; the sums are u_shorts.                                             *)
InBucket(es, size, k) == SelectSeq(es, LAMBDA e : HashKey(e.labels) % size = k)
SumSizes(es) == FoldLeft(LAMBDA n, e : (n + EltSize(e)) % HsShort, 0, es)
FaultRoomy(es, size) ==
    \A k \in 0..size - 1 : SumSizes(InBucket(es, size, k)) <= HsBucket
Roomy(es, size) ==
    \A k \in 0..size - 1 : SumSizes(InBucket(es, size, k)) <= HsBucket - HsPtr
StartSize(es) ==
    LET start == Len(es) \div ((HsBucket - HsPtr) \div (2 * HsPtr))
    IN IF start = 0 THEN 1 ELSE start
HashInit(es) ==
    LET sizes == {n \in StartSize(es)..HsMaxSize - 1 : Roomy(es, n)}
    IN IF sizes = {} \/ \E i \in 1..Len(es) : HsBucket < EltSize(es[i]) + HsPtr
         THEN NoRoom
         ELSE LET size == CHOOSE n \in sizes : \A m \in sizes : n <= m
              IN [size |-> size, buckets |-> [k \in 0..size - 1 |-> InBucket(es, size, k)],
                  value |-> None]

(* ngx_hash_find: the elements of one bucket in their order. *)
HashFind(t, labels) ==
    LET bucket == t.buckets[HashKey(labels) % t.size]
        at == {i \in 1..Len(bucket) : bucket[i].labels = labels}
    IN IF at = {} THEN None ELSE bucket[CHOOSE i \in at : \A j \in at : i <= j].value

-----------------------------------------------------------------------------
(* The order ngx_dns_strcmp gives the names before the tables are built: a     *)
(* name, the name with a '.', and then the names it begins.                    *)
DnsBefore(x, y) ==
    LET n == IF Len(x.labels) < Len(y.labels) THEN Len(x.labels) ELSE Len(y.labels)
        differ == {i \in 1..n : x.labels[i] # y.labels[i]}
    IN IF differ = {} THEN \/ Len(x.labels) < Len(y.labels)
                           \/ Len(x.labels) = Len(y.labels) /\ ~x.dot /\ y.dot
       ELSE LET i == CHOOSE i \in differ : \A j \in differ : i <= j
            IN HsCode[x.labels[i]] < HsCode[y.labels[i]]
Sorted(es) == SortSeq(es, DnsBefore)

(* ngx_hash_wildcard_init: names with the same first label form a group; what   *)
(* follows the label goes into a table of its own.  The two low bits of a       *)
(* value say whether it is such a table ("sub") and whether a '.' follows the   *)
(* label, so that the label alone does not match ("only").                      *)
Rest1(e) == [e EXCEPT !.labels = Tail(e.labels), !.dot = e.dot /\ Len(e.labels) > 1]
WithDot(e) == Len(e.labels) > 1 \/ e.dot
GroupEnd(es) ==
    LET more == {i \in 2..Len(es) : es[i].labels = <<>> \/ es[i].labels[1] # es[1].labels[1]}
    IN IF more = {} THEN Len(es) ELSE (CHOOSE i \in more : \A j \in more : i <= j) - 1

FaultSubValue(first, sub) == sub
SubValue(first, sub) == IF Len(first.labels) = 1 THEN [sub EXCEPT !.value = first.value] ELSE sub

RECURSIVE WildcardInit(_)
RECURSIVE Groups(_)
Groups(es) ==
    IF es = <<>> THEN <<>>
    ELSE LET first == es[1]
             last == IF first.labels = <<>> THEN 1 ELSE GroupEnd(es)
             others == SubSeq(es, 2, last)
             next == (IF Len(first.labels) > 1 THEN <<Rest1(first)>> ELSE <<>>)
                       \o [i \in 1..Len(others) |-> Rest1(others[i])]
             sub == IF next = <<>> THEN NoTable ELSE WildcardInit(next)
             label == IF first.labels = <<>> THEN <<>> ELSE <<first.labels[1]>>
             v == [sub |-> IF sub.size <= 0 THEN sub ELSE SubValue(first, sub),
                   only |-> WithDot(first), data |-> first.value]
         IN <<[labels |-> label, value |-> v]>> \o Groups(SubSeq(es, last + 1, Len(es)))
WildcardInit(es) ==
    LET groups == Groups(es)
    IN IF \E i \in 1..Len(groups) : groups[i].value.sub = NoRoom THEN NoRoom ELSE HashInit(groups)

(* The tables of an ngx_hash_combined_t, or an error. *)
BuildTables ==
    /\ hs.built = "no" /\ hs.added # {}
    /\ LET t == [exact |-> HashInit(hs.exact),
                 head |-> IF hs.head = <<>> THEN NoTable ELSE WildcardInit(Sorted(hs.head)),
                 tail |-> IF hs.tail = <<>> THEN NoTable ELSE WildcardInit(Sorted(hs.tail))]
       IN hs' = [hs EXCEPT !.tables = t,
                           !.built = IF NoRoom \in {t.exact, t.head, t.tail} THEN "error" ELSE "ok"]

-----------------------------------------------------------------------------
(* ngx_hash_find_wc_head, from the last label; None is NULL. *)
FaultWhole(v) == v.data
Whole(v) == IF v.only THEN None ELSE v.data
RECURSIVE FindHead(_, _)
FindHead(t, name) ==
    LET v == HashFind(t, <<name[Len(name)]>>)
    IN IF v = None THEN t.value
       ELSE IF v.sub # NoTable
         THEN IF Len(name) = 1 THEN IF v.only THEN None ELSE v.sub.value
              ELSE LET x == FindHead(v.sub, SubSeq(name, 1, Len(name) - 1))
                   IN IF x # None THEN x ELSE v.sub.value
       ELSE IF Len(name) = 1 THEN Whole(v) ELSE v.data

(* ngx_hash_find_wc_tail, from the first label. *)
RECURSIVE FindTail(_, _)
FindTail(t, name) ==
    IF Len(name) <= 1 THEN None
    ELSE LET v == HashFind(t, <<name[1]>>)
         IN IF v = None THEN t.value
            ELSE IF v.sub = NoTable THEN v.data
            ELSE LET x == FindTail(v.sub, Tail(name)) IN IF x # None THEN x ELSE v.sub.value

(* ngx_hash_find_combined *)
FindCombined(name) ==
    LET exact == HashFind(hs.tables.exact, name)
        head == IF hs.tables.head = NoTable THEN None ELSE FindHead(hs.tables.head, name)
    IN IF exact # None THEN exact
       ELSE IF head # None THEN head
       ELSE IF hs.tables.tail = NoTable THEN None ELSE FindTail(hs.tables.tail, name)

HsNext == (\E k \in HsKeys : AddKey(k)) \/ BuildTables

-----------------------------------------------------------------------------
(* What a name should find: the exact name; else the longest "*.name" or       *)
(* ".name" it ends in; else the longest "name.*" it begins with.               *)
Matches(k, name) ==
    \/ k.form = "exact" /\ k.name = name
    \/ k.form = "dot" /\ IsSuffix(k.name, name)
    \/ k.form = "star" /\ IsStrictSuffix(k.name, name)
    \/ k.form = "tail" /\ IsStrictPrefix(k.name, name)
Rank(k) == CASE k.form = "exact" -> 200 [] k.form = "tail" -> Len(k.name) [] OTHER -> 100 + Len(k.name)
Best(name) ==
    LET ks == {k \in hs.added : Matches(k, name)}
    IN IF ks = {} THEN None ELSE CHOOSE k \in ks : \A j \in ks : Rank(j) <= Rank(k)

(* Whatever keys were added without a conflict, and in whatever order, a name   *)
(* finds the most specific of them: no group of wildcards hides another, no     *)
(* "*.name" answers for "name" itself.  And the elements of a bucket, with the  *)
(* NULL that ends them, fit into the size configured for it.                    *)
NamesFound ==
    hs.built = "ok" =>
        /\ hs.busy = {} => \A name \in HsNames : FindCombined(name) = Best(name)
        /\ \A k \in 0..hs.tables.exact.size - 1 :
              FoldLeft(LAMBDA n, e : n + EltSize(e), HsPtr, hs.tables.exact.buckets[k]) <= HsBucket
=============================================================================
