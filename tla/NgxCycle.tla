------------------------------ MODULE NgxCycle ------------------------------
(***************************************************************************)
(* Reconfiguration (ngx_cycle.c): a new cycle opens its files, takes over   *)
(* or creates its shared memory zones and its listening sockets; it         *)
(* replaces the old cycle, or everything it opened is given back.  A        *)
(* process without a master keeps old cycles until their connections end.   *)
(*                                                                         *)
(* A configuration is a record: log files, size of each zone (0: not        *)
(* declared), zones in use, and addresses to listen on.  Descriptors are    *)
(* allocated as the kernel does, the lowest free number first, so that a    *)
(* stale number really names another file.                                 *)
(***************************************************************************)
EXTENDS Naturals, FiniteSets

CONSTANTS
    CyNames,        \* log files
    CyZones,        \* shared memory zones
    CyAddrs,        \* addresses
    CyConfigs,      \* configurations an administrator writes
    CyMaxGen,       \* bound: cycles there are
    CyMaxConns      \* bound: connections of a cycle

CyFds  == 1..(2 * (Cardinality(CyNames) + Cardinality(CyAddrs)))
CySegs == 1..(CyMaxGen * Cardinality(CyZones))

VARIABLES
    cyc,        \* ngx_cycle
    ncyc,       \* the cycle ngx_init_cycle is building
    cstep,      \* where ngx_init_cycle (or ngx_reopen_files) is
    ctodo,      \* what the present loop has still to visit
    fdt,        \* the descriptors of the process
    segs,       \* the shared memory segments that exist
    torn,       \* an attempt that changed the size of a zone has failed
    single,     \* there is no master process
    pools,      \* the pool of each cycle
    conns,      \* open connections of each cycle
    olds,       \* ngx_old_cycles
    cleaner     \* ngx_cleaner_event.timer_set

cyvars == <<cyc, ncyc, cstep, ctodo, fdt, segs, torn, single, pools, conns, olds, cleaner>>
cyOld  == <<single, pools, conns, olds, cleaner>>

-----------------------------------------------------------------------------
Low(S) == CHOOSE x \in S : \A y \in S : x <= y
FreeFd  == Low({d \in CyFds : fdt[d] = <<>>})

(* A cycle of configuration c that has opened nothing yet (fd 0 is -1). *)
Cycle(c, gen) ==
    [conf |-> c, gen |-> gen, file |-> [n \in CyNames |-> 0],
     sock |-> [a \in CyAddrs |-> 0], own |-> {}, zone |-> [z \in CyZones |-> 0]]

Nothing == [files |-> {}, size |-> [z \in CyZones |-> 0], used |-> {}, addrs |-> {}]

CyInit ==
    /\ cyc = Cycle(Nothing, 1)          \* init_cycle of main()
    /\ ncyc = cyc
    /\ cstep = "idle" /\ ctodo = {}
    /\ fdt = [d \in CyFds |-> <<>>]
    /\ segs = [g \in CySegs |-> <<>>]
    /\ torn = FALSE
    /\ single \in BOOLEAN
    /\ pools = [g \in 1..CyMaxGen |-> IF g = 1 THEN "live" ELSE "none"]
    /\ conns = [g \in 1..CyMaxGen |-> 0]
    /\ olds = {}
    /\ cleaner = FALSE

(* ngx_init_cycle up to the opening of the files.  A configuration that does  *)
(* not parse has opened nothing, and leaves no trace.                         *)
NewGens == {g \in 1..CyMaxGen : pools[g] = "none"}
Reload(c) ==
    /\ cstep = "idle" /\ NewGens # {}
    /\ ncyc' = Cycle(c, Low(NewGens))
    /\ pools' = [pools EXCEPT ![Low(NewGens)] = "live"]
    /\ cstep' = "files" /\ ctodo' = c.files
    /\ UNCHANGED <<cyc, fdt, segs, torn, single, conns, olds, cleaner>>

(* "open the new files" *)
OpenFile(n) ==
    /\ cstep = "files" /\ n \in ctodo
    /\ fdt' = [fdt EXCEPT ![FreeFd] = <<"file", n>>]
    /\ ncyc' = [ncyc EXCEPT !.file[n] = FreeFd]
    /\ ctodo' = ctodo \ {n}
    /\ UNCHANGED <<cyc, cstep, segs, torn, cyOld>>

FilesOpen ==
    /\ cstep = "files" /\ ctodo = {}
    /\ cstep' = "zones"
    /\ ctodo' = {z \in CyZones : ncyc.conf.size[z] > 0 /\ z \in ncyc.conf.used}
    /\ UNCHANGED <<cyc, ncyc, fdt, segs, torn, cyOld>>

(* "create shared memory": a zone of the same name and size is taken over;    *)
(* one of another size is freed at once, and made anew.                       *)
Kept(z) == cyc.zone[z] # 0 /\ cyc.conf.size[z] = ncyc.conf.size[z]
KeepZone(z) ==
    /\ cstep = "zones" /\ z \in ctodo /\ Kept(z)
    /\ ncyc' = [ncyc EXCEPT !.zone[z] = cyc.zone[z]]
    /\ ctodo' = ctodo \ {z}
    /\ UNCHANGED <<cyc, cstep, fdt, segs, torn, cyOld>>
OldFreed(z) == IF cyc.zone[z] = 0 THEN segs ELSE [segs EXCEPT ![cyc.zone[z]] = <<>>]
MakeZone(z) ==
    /\ cstep = "zones" /\ z \in ctodo /\ ~Kept(z)
    /\ LET g == Low({x \in CySegs : OldFreed(z)[x] = <<>>})
       IN /\ segs' = [OldFreed(z) EXCEPT ![g] = <<z, ncyc.conf.size[z]>>]
          /\ ncyc' = [ncyc EXCEPT !.zone[z] = g]
    /\ ctodo' = ctodo \ {z}
    /\ UNCHANGED <<cyc, cstep, fdt, torn, cyOld>>

(* "handle the listening sockets": those of the old cycle are taken over,     *)
(* the others are opened, five times at most while the address is in use.     *)
ZonesReady ==
    /\ cstep = "zones" /\ ctodo = {}
    /\ ncyc' = [ncyc EXCEPT !.sock = [a \in CyAddrs |->
                                        IF a \in ncyc.conf.addrs THEN cyc.sock[a] ELSE 0],
                            !.own = {a \in ncyc.conf.addrs : cyc.sock[a] = 0}]
    /\ cstep' = "listen" /\ ctodo' = ncyc'.own
    /\ UNCHANGED <<cyc, fdt, segs, torn, cyOld>>
Listen(a) ==
    /\ cstep = "listen" /\ a \in ctodo
    /\ fdt' = [fdt EXCEPT ![FreeFd] = <<"sock", a>>]
    /\ ncyc' = [ncyc EXCEPT !.sock[a] = FreeFd]
    /\ ctodo' = ctodo \ {a}
    /\ UNCHANGED <<cyc, cstep, segs, torn, cyOld>>

-----------------------------------------------------------------------------
Values(f) == {f[x] : x \in DOMAIN f} \ {0}
CloseAll(D) == [d \in CyFds |-> IF d \in D THEN <<>> ELSE fdt[d]]

(* "failed": the new files and the sockets that were opened are closed. The   *)
(* new zones are not freed.                                                   *)
FaultRolledBack == Values(ncyc.file) \cup Values(ncyc.sock)
RolledBack == Values(ncyc.file) \cup {ncyc.sock[a] : a \in ncyc.own}
Abandon ==
    /\ fdt' = CloseAll(RolledBack)
    /\ pools' = [pools EXCEPT ![ncyc.gen] = "gone"]
    /\ ncyc' = cyc /\ cstep' = "idle" /\ ctodo' = {}
    /\ UNCHANGED <<cyc, single, conns, olds, cleaner>>
Resized == {z \in CyZones : cyc.zone[z] # 0 /\ ncyc.zone[z] # 0 /\ ~Kept(z)}
Failed ==
    /\ cstep \in {"files", "zones", "listen"} /\ ctodo # {}
    /\ Abandon
    /\ torn' = (torn \/ Resized # {})
    /\ UNCHANGED segs
NoMemory(z) ==
    /\ cstep = "zones" /\ z \in ctodo /\ ~Kept(z)
    /\ Abandon
    /\ segs' = OldFreed(z)
    /\ torn' = (torn \/ Resized # {} \/ cyc.zone[z] # 0)

(* The old cycle goes at once, with a master process or if it is the one of   *)
(* main(); else its connections may live on, and it is kept for the cleaner.  *)
OldCycle ==
    IF ~single \/ cyc.conf = Nothing
    THEN pools' = [pools EXCEPT ![cyc.gen] = "gone"] /\ UNCHANGED <<olds, cleaner>>
    ELSE olds' = olds \cup {cyc.gen} /\ cleaner' = TRUE /\ UNCHANGED pools

(* "commit the new cycle configuration", and close what is left of the old:   *)
(* zones no longer declared, sockets that do not remain, and the files.       *)
Commit ==
    /\ cstep = "listen" /\ ctodo = {}
    /\ fdt' = CloseAll({cyc.sock[a] : a \in CyAddrs \ ncyc.conf.addrs} \cup Values(cyc.file))
    /\ segs' = [g \in CySegs |->
                  IF \E z \in CyZones : cyc.zone[z] = g /\ ncyc.conf.size[z] = 0
                  THEN <<>> ELSE segs[g]]
    /\ cyc' = [ncyc EXCEPT !.own = {}] /\ ncyc' = cyc'
    /\ cstep' = "idle" /\ UNCHANGED <<ctodo, torn, single, conns>>
    /\ OldCycle

(* ngx_reopen_files, one file after the other: the new descriptor replaces    *)
(* the old one, unless the file cannot be opened or its owner cannot be set.  *)
Reopen ==
    /\ cstep = "idle" /\ Values(cyc.file) # {}
    /\ cstep' = "reopen" /\ ctodo' = cyc.conf.files
    /\ UNCHANGED <<cyc, ncyc, fdt, segs, torn, cyOld>>
FileReopened(n) == fdt' = [fdt EXCEPT ![FreeFd] = <<"file", n>>, ![cyc.file[n]] = <<>>]
ReopenFile(n) ==
    /\ cstep = "reopen" /\ n \in ctodo
    /\ \/ FileReopened(n) /\ cyc' = [cyc EXCEPT !.file[n] = FreeFd]
       \/ UNCHANGED <<fdt, cyc>>
    /\ ctodo' = ctodo \ {n} /\ ncyc' = cyc'
    /\ cstep' = IF ctodo' = {} THEN "idle" ELSE "reopen"
    /\ UNCHANGED <<segs, torn, cyOld>>

-----------------------------------------------------------------------------
Connected ==
    /\ cstep = "idle" /\ cyc.conf # Nothing /\ conns[cyc.gen] < CyMaxConns
    /\ conns' = [conns EXCEPT ![cyc.gen] = @ + 1]
    /\ UNCHANGED <<cyc, ncyc, cstep, ctodo, fdt, segs, torn, single, pools, olds, cleaner>>
Finished(g) ==
    /\ cstep = "idle" /\ conns[g] > 0
    /\ conns' = [conns EXCEPT ![g] = @ - 1]
    /\ UNCHANGED <<cyc, ncyc, cstep, ctodo, fdt, segs, torn, single, pools, olds, cleaner>>

(* ngx_clean_old_cycles, every 30 seconds while there is an old cycle. *)
CleanOldCycles ==
    /\ cstep = "idle" /\ cleaner
    /\ LET live == {g \in olds : conns[g] > 0}
       IN /\ pools' = [g \in 1..CyMaxGen |-> IF g \in olds \ live THEN "gone" ELSE pools[g]]
          /\ olds' = live
          /\ cleaner' = (live # {})
    /\ UNCHANGED <<cyc, ncyc, cstep, ctodo, fdt, segs, torn, single, conns>>

CyNext ==
    \/ \E c \in CyConfigs : Reload(c)
    \/ \E n \in CyNames : OpenFile(n) \/ ReopenFile(n)
    \/ \E z \in CyZones : KeepZone(z) \/ MakeZone(z) \/ NoMemory(z)
    \/ \E a \in CyAddrs : Listen(a)
    \/ FilesOpen \/ ZonesReady \/ Failed \/ Commit \/ Reopen
    \/ Connected \/ CleanOldCycles
    \/ \E g \in 1..CyMaxGen : Finished(g)

-----------------------------------------------------------------------------
(* Between reconfigurations, failed or not, the process has exactly the       *)
(* descriptors its cycle uses, each naming the file or address it is for; a   *)
(* zone in use has its segment, of its size, unless an attempt that failed    *)
(* had wanted another size; and a cycle with connections has its pool.            *)
CycleOwnsItsResources ==
    cstep = "idle" =>
        /\ \A n \in cyc.conf.files : cyc.file[n] # 0 /\ fdt[cyc.file[n]] = <<"file", n>>
        /\ \A a \in cyc.conf.addrs : cyc.sock[a] # 0 /\ fdt[cyc.sock[a]] = <<"sock", a>>
        /\ {d \in CyFds : fdt[d] # <<>>} = Values(cyc.file) \cup Values(cyc.sock)
        /\ \A z \in CyZones :
              ~torn /\ cyc.zone[z] # 0 => segs[cyc.zone[z]] = <<z, cyc.conf.size[z]>>
        /\ \A g \in 1..CyMaxGen : single /\ conns[g] > 0 => pools[g] = "live"
=============================================================================
