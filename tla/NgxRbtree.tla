----------------------------- MODULE NgxRbtree ------------------------------
(***************************************************************************)
(* The red-black tree (ngx_rbtree.c, ngx_rbtree.h) in its three uses: plain *)
(* keys, timers whose keys go around (ngx_event_timer.c), and names filed   *)
(* under a hash (resolver, open file cache, SSL sessions).  Balancing is    *)
(* one action per turn of its loop.                                         *)
(***************************************************************************)
EXTENDS Integers, FiniteSets

CONSTANTS
    RbNodes,    \* nodes, positive numbers
    RbKinds,    \* which comparisons: "value", "timer", "name"
    RbKeyOf,    \* <<hash, name>> of every node
    RbTimers,   \* nodes that are timers
    RbWidth,    \* timer keys are counted modulo this
    RbDelays,   \* delays of timers, less than half of it
    RbLazy,     \* NGX_TIMER_LAZY_DELAY
    RbLag,      \* bound: how late timers are looked at
    RbMaxNow    \* bound: the clock

VARIABLES
    rb,         \* the tree: root, child[d][n], parent[n], red, key[n]
    rbop,       \* the operation in progress, and the node its loop is at
    rbnow       \* ngx_current_msec

rbvars == <<rb, rbop, rbnow>>

Sentinel == 0
Sides == {"left", "right"}
Opposite(d) == IF d = "left" THEN "right" ELSE "left"
Idle == [do |-> "none", at |-> Sentinel, add |-> {}]     \* add: <<node, key>> to insert after the deletion
Over == [Idle EXCEPT !.add = rbop.add]

RbInit ==
    /\ \E kind \in RbKinds :
         rb = [kind |-> kind, root |-> Sentinel,
               child |-> [d \in Sides |-> [n \in RbNodes \cup {Sentinel} |-> Sentinel]],
               parent |-> [n \in RbNodes \cup {Sentinel} |-> Sentinel],
               red |-> {}, key |-> [n \in RbNodes |-> <<0, 0>>], in |-> {}]
    /\ rbop = Idle /\ rbnow = 0

SideOf(t, n) == IF t.child["left"][t.parent[n]] = n THEN "left" ELSE "right"
Black(t, n) == n \notin t.red
CopyColor(t, n, m) == IF m \in t.red THEN t.red \cup {n} ELSE t.red \ {n}
MinOf(t, n) ==          \* ngx_rbtree_min
    LET f[m \in RbNodes] == IF t.child["left"][m] = Sentinel THEN m ELSE f[t.child["left"][m]]
    IN  f[n]

(* ngx_rbtree_left_rotate and ngx_rbtree_right_rotate. *)
Hung(t, n, m) ==        \* m takes the place of n under n's parent
    IF n = t.root THEN [t EXCEPT !.root = m] ELSE [t EXCEPT !.child[SideOf(t, n)][t.parent[n]] = m]
Rotate(t, d, n) ==
    LET o == Opposite(d)
        m == t.child[o][n]
        b == t.child[d][m]
        h == Hung(t, n, m)
    IN  [h EXCEPT !.child[o][n] = b, !.child[d][m] = n,
                  !.parent = [x \in DOMAIN @ |->
                                 IF x = m THEN @[n] ELSE IF x = n THEN m
                                 ELSE IF x = b /\ b # Sentinel THEN n ELSE @[x]]]

-----------------------------------------------------------------------------
(* The comparisons of ngx_rbtree_insert_value, ..._insert_timer_value and of    *)
(* the trees of names: is key k on the left of key l?                           *)
Signed(x) == LET y == x % RbWidth IN IF y >= RbWidth \div 2 THEN y - RbWidth ELSE y
FaultTimerLess(k, l) == k < l
TimerLess(k, l) == Signed(k - l) < 0
NameLess(k, l) == k[1] < l[1] \/ (k[1] = l[1] /\ k[2] < l[2])
Less(kind, k, l) ==
    CASE kind = "value" -> k[1] < l[1]
      [] kind = "timer" -> TimerLess(k[1], l[1])
      [] kind = "name" -> NameLess(k, l)

(* The place to insert at: <<node, side>>. *)
PlaceFor(t, k) ==
    LET f[m \in RbNodes] ==
            LET d == IF Less(t.kind, k, t.key[m]) THEN "left" ELSE "right"
            IN  IF t.child[d][m] = Sentinel THEN <<m, d>> ELSE f[t.child[d][m]]
    IN  f[t.root]

(* ngx_rbtree_insert up to its loop. *)
Inserted(t, n, k) ==
    IF t.root = Sentinel
    THEN [t EXCEPT !.root = n, !.child["left"][n] = Sentinel, !.child["right"][n] = Sentinel,
                   !.parent[n] = Sentinel, !.red = @ \ {n}, !.key[n] = k, !.in = @ \cup {n}]
    ELSE LET p == PlaceFor(t, k)
         IN  [t EXCEPT !.child = [d \in Sides |->
                                    [x \in DOMAIN @[d] |->
                                        IF x = n THEN Sentinel
                                        ELSE IF p = <<x, d>> THEN n ELSE @[d][x]]],
                       !.parent[n] = p[1], !.red = @ \cup {n}, !.key[n] = k, !.in = @ \cup {n}]

Insert(n, k) ==
    /\ rbop = Idle /\ n \notin rb.in
    /\ rb' = Inserted(rb, n, k)
    /\ rbop' = [Idle EXCEPT !.do = "insert", !.at = n]
    /\ UNCHANGED rbnow

(* A turn of its loop. *)
Recoloured(t, n) ==     \* the parent and the uncle are red
    LET p == t.parent[n]  g == t.parent[p]  u == t.child[Opposite(SideOf(t, p))][g]
    IN  [t EXCEPT !.red = (@ \ {p, u}) \cup {g}]
Turned(t, n) ==         \* the uncle is black: one or two rotations
    LET p == t.parent[n]
        d == SideOf(t, p)
        inner == SideOf(t, n) # d
        t1 == IF inner THEN Rotate(t, d, p) ELSE t
        q == IF inner THEN n ELSE p             \* the parent after the first rotation
        g == t1.parent[q]
    IN  Rotate([t1 EXCEPT !.red = (@ \ {q}) \cup {g}], Opposite(d), g)
FaultDone(t) == t
Done(t) == [t EXCEPT !.red = @ \ {t.root}]

InsertFix ==
    /\ rbop.do = "insert"
    /\ LET n == rbop.at
           p == rb.parent[n]
           uncle == rb.child[Opposite(SideOf(rb, p))][rb.parent[p]]
       IN  IF n = rb.root \/ Black(rb, p)
           THEN rb' = Done(rb) /\ rbop' = Idle
           ELSE IF ~Black(rb, uncle)
           THEN rb' = Recoloured(rb, n) /\ rbop' = [rbop EXCEPT !.at = rb.parent[p]]
           ELSE rb' = Done(Turned(rb, n)) /\ rbop' = Idle
    /\ UNCHANGED rbnow

-----------------------------------------------------------------------------
(* ngx_rbtree_delete up to its loop. *)
Subst(t, n) ==
    IF Sentinel \in {t.child["left"][n], t.child["right"][n]} THEN n ELSE MinOf(t, t.child["right"][n])
Temp(t, s) == IF t.child["left"][s] # Sentinel THEN t.child["left"][s] ELSE t.child["right"][s]

Replaced(t, n, s) ==    \* the node that leaves its place takes that of n
    LET h == Hung(t, n, s)
    IN  [h EXCEPT !.child["left"][s] = h.child["left"][n], !.child["right"][s] = h.child["right"][n],
                  !.parent = [x \in DOMAIN @ |->
                                IF x = s THEN @[n]
                                ELSE IF x # Sentinel /\ @[x] = n THEN s ELSE @[x]],
                  !.red = CopyColor(t, s, n)]
FaultOrphan(t, n, s) == t.parent[s]
Orphan(t, n, s) == IF s # n /\ t.parent[s] = n THEN s ELSE t.parent[s]

Out(t, n) ==            \* "DEBUG stuff"
    [t EXCEPT !.in = @ \ {n}, !.red = @ \ {n}, !.key[n] = <<0, 0>>, !.parent[n] = Sentinel,
              !.child["left"][n] = Sentinel, !.child["right"][n] = Sentinel]
Delete(n, add) ==
    /\ rbop = Idle /\ n \in rb.in
    /\ LET s == Subst(rb, n)
           temp == Temp(rb, s)
           cut == [Hung(rb, s, temp) EXCEPT !.parent[temp] = Orphan(rb, n, s)]
       IN  IF s = rb.root
           THEN rb' = Out([rb EXCEPT !.root = temp, !.red = @ \ {temp}], n) /\ rbop' = [Idle EXCEPT !.add = add]
           ELSE /\ rb' = Out(IF s = n THEN cut ELSE Replaced(cut, n, s), n)
                /\ rbop' = IF Black(rb, s) THEN [do |-> "delete", at |-> temp, add |-> add]
                           ELSE [Idle EXCEPT !.add = add]
    /\ UNCHANGED rbnow

(* A turn of its loop: the sibling w is made black first, then is recoloured, or *)
(* one or two rotations end the loop.                                            *)
Brought(t, d, p) ==
    LET w == t.child[Opposite(d)][p]
    IN  IF Black(t, w) THEN t ELSE Rotate([t EXCEPT !.red = (@ \ {w}) \cup {p}], d, p)
Evened(t, d, p) ==
    LET o == Opposite(d)
        w == t.child[o][p]
        far == t.child[o][w]
        near == t.child[d][w]
        t1 == IF Black(t, far) THEN Rotate([t EXCEPT !.red = (@ \ {near}) \cup {w}], o, w) ELSE t
        w1 == t1.child[o][p]
    IN  Rotate([t1 EXCEPT !.red = CopyColor(t1, w1, p) \ {p, t1.child[o][w1]}], d, p)

DeleteFix ==
    /\ rbop.do = "delete"
    /\ LET x == rbop.at
           p == rb.parent[x]
           d == IF rb.child["left"][p] = x THEN "left" ELSE "right"
           t == Brought(rb, d, p)
           w == t.child[Opposite(d)][p]
       IN  IF x = rb.root \/ ~Black(rb, x)
           THEN rb' = [rb EXCEPT !.red = @ \ {x}] /\ rbop' = Over
           ELSE IF \A e \in Sides : Black(t, t.child[e][w])
           THEN rb' = [t EXCEPT !.red = @ \cup {w}] /\ rbop' = [rbop EXCEPT !.at = p]
           ELSE rb' = Done(Evened(t, d, p)) /\ rbop' = Over
    /\ UNCHANGED rbnow

-----------------------------------------------------------------------------
(* ngx_event_add_timer, and ngx_event_expire_timers, which deletes the first    *)
(* timer while it is due; the clock passes a timer by no more than RbLag.       *)
Tree == rb.kind # "timer" /\ \E n \in RbNodes : Insert(n, RbKeyOf[n]) \/ Delete(n, {})
First == MinOf(rb, rb.root)
DueIn(n) == Signed(rb.key[n][1] - rbnow)
LazyKept(n, delay) ==   \* the old key is near enough
    LET diff == Signed(rbnow + delay - rb.key[n][1]) IN (IF diff < 0 THEN 0 - diff ELSE diff) < RbLazy
AddTimer(n, delay) ==
    LET key == <<(rbnow + delay) % RbWidth, 0>>
    IN  /\ rb.kind = "timer"
        /\ \/ Insert(n, key)
           \/ n \in rb.in /\ ~LazyKept(n, delay) /\ Delete(n, {<<n, key>>})
AddAgain ==             \* ngx_del_timer is over, ngx_rbtree_insert follows
    /\ rbop.do = "none"
    /\ \E a \in rbop.add :
          /\ rb' = Inserted(rb, a[1], a[2])
          /\ rbop' = [Idle EXCEPT !.do = "insert", !.at = a[1]]
    /\ UNCHANGED rbnow
DelTimer(n) == rb.kind = "timer" /\ Delete(n, {})
ExpireTimer ==
    /\ rb.kind = "timer" /\ rb.root # Sentinel
    /\ DueIn(First) <= 0
    /\ Delete(First, {})
Clock ==
    /\ rb.kind = "timer" /\ rbop = Idle /\ rbnow < RbMaxNow
    /\ rb.root # Sentinel => DueIn(First) > 0 - RbLag
    /\ rbnow' = rbnow + 1
    /\ UNCHANGED <<rb, rbop>>

RbNext ==
    \/ Tree \/ InsertFix \/ DeleteFix \/ AddAgain \/ ExpireTimer \/ Clock
    \/ \E n \in RbTimers : DelTimer(n) \/ \E delay \in RbDelays : AddTimer(n, delay)

-----------------------------------------------------------------------------
(* The lookups of ngx_resolver_lookup_name, ngx_open_file_lookup and            *)
(* ngx_ssl_get_cached_session: among equal hashes they go on only while the     *)
(* next node has the same hash.                                                 *)
Lookup(t, k) ==
    LET same[m \in RbNodes \cup {Sentinel}] ==
            IF m = Sentinel \/ t.key[m][1] # k[1] THEN Sentinel
            ELSE IF t.key[m][2] = k[2] THEN m
            ELSE same[t.child[IF k[2] < t.key[m][2] THEN "left" ELSE "right"][m]]
        f[m \in RbNodes \cup {Sentinel}] ==
            IF m = Sentinel THEN Sentinel
            ELSE IF k[1] < t.key[m][1] THEN f[t.child["left"][m]]
            ELSE IF k[1] > t.key[m][1] THEN f[t.child["right"][m]]
            ELSE same[m]
    IN  f[t.root]

Under(t) ==     \* the nodes of each subtree
    LET f[m \in RbNodes \cup {Sentinel}] ==
            IF m = Sentinel THEN {} ELSE {m} \cup f[t.child["left"][m]] \cup f[t.child["right"][m]]
    IN  f
BlackHeight(t) ==   \* -1 where the two sides differ
    LET f[m \in RbNodes \cup {Sentinel}] ==
            IF m = Sentinel THEN 0
            ELSE LET l == f[t.child["left"][m]]
                     r == f[t.child["right"][m]]
                 IN  IF l # r \/ l = -1 THEN -1 ELSE IF Black(t, m) THEN l + 1 ELSE l
    IN  f[t.root]

(* After any sequence of insertions and deletions the tree holds just what was  *)
(* put in it, in order and balanced; the timer that is found first is the one   *)
(* due first, though the clock goes around; a name that shares its hash with no *)
(* other is found by its lookup.                                                *)
TreeInOrder ==
    rbop.do = "none" =>
        LET under == Under(rb) IN
        /\ under[rb.root] = rb.in
        /\ BlackHeight(rb) # -1
        /\ \A n \in rb.in :
              /\ n # rb.root => rb.parent[n] \in rb.in /\ rb.child[SideOf(rb, n)][rb.parent[n]] = n
              /\ n \in rb.red => n # rb.root /\ \A d \in Sides : Black(rb, rb.child[d][n])
              /\ \A m \in under[rb.child["left"][n]] : ~Less(rb.kind, rb.key[n], rb.key[m])
              /\ \A m \in under[rb.child["right"][n]] : ~Less(rb.kind, rb.key[m], rb.key[n])
        /\ rb.kind = "timer" /\ rb.in # {} => \A n \in rb.in : DueIn(First) <= DueIn(n)
        /\ rb.kind = "name" =>
              \A n \in rb.in : (\A m \in rb.in \ {n} : rb.key[m][1] # rb.key[n][1]) => Lookup(rb, rb.key[n]) = n
=============================================================================
