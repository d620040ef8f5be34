------------------------------ MODULE MCNginx ------------------------------
(***************************************************************************)
(* The components that nginx is built from, each on an instance of its own:    *)
(* a behaviour is a behaviour of one of them, and the variables of the others  *)
(* are asleep.                                                                 *)
(***************************************************************************)
EXTENDS NgxEvents, NgxRtsig, NgxPipe, NgxOutputChain, NgxSlab, NgxPool, NgxSsl,
        NgxSslSessions, MCNgxTimes, NgxRbtree, NgxHash, NgxCycle, NgxConf, NgxChannel,
        NgxResolver, NgxOpenFileCache, NgxeCallback, NgxePP

(* NgxOutputChain: how the chain is sent, and what the file system offers. *)
Mode(m, s, im, it, d) ==
    [method |-> m, sendfile |-> s, inmemory |-> im, intemp |-> it, directio |-> d,
     num |-> 2, size |-> 2]
ChainModes ==
    {Mode("writev", FALSE, FALSE, FALSE, FALSE), Mode("linux", TRUE, TRUE, FALSE, FALSE),
     Mode("linux", FALSE, FALSE, TRUE, TRUE)}
      \cup {Mode(m, TRUE, FALSE, FALSE, FALSE) : m \in {"linux", "freebsd", "darwin", "solaris"}}

(* NgxSsl: chains of buffers, the second of which asks to be flushed. *)
TlsPart(n, f) == [size |-> n, flush |-> f]
TlsChainsSent == {<<TlsPart(1, FALSE)>>, <<TlsPart(3, FALSE), TlsPart(0, TRUE)>>}

(* NgxRbtree: keys and secondary keys of the nodes that are inserted. *)
TreeKeys == <<<<1, 1>>, <<2, 1>>, <<2, 2>>, <<2, 3>>, <<3, 1>>, <<4, 1>>, <<4, 2>>>>

(* NgxHash: names over two letters, one of which makes a name longer than a   *)
(* bucket's element likes.                                                    *)
NamesUpTo(n) == UNION {[1..k -> {"a", "b"}] : k \in 1..n}
LetterCode == [a |-> 1, b |-> 2]
LetterLength == [a |-> 1, b |-> 6]
HashKeys == {[form |-> f, name |-> <<>> \o n] : f \in {"exact", "dot", "star", "tail"}, n \in NamesUpTo(2)}
HashNames == {<<>> \o n : n \in NamesUpTo(3)}

(* NgxCycle: configurations that share and change files, zones and addresses. *)
Conf(f, s, u, a) == [files |-> f, size |-> [z \in CyZones |-> s], used |-> u, addrs |-> a]
Configurations ==
    {Conf({"e"}, 1, {"z"}, {"p"}), Conf({"e", "l"}, 1, {"z"}, {"p", "q"}),
     Conf({"l"}, 2, {"z"}, {"q"}), Conf({"e"}, 0, {}, {"q"}), Conf({"e"}, 1, {}, {"p"})}

(* NgxConf: directives of one letter, and the characters a file is made of. *)
Cmd(n, w, b, a, k) == [name |-> <<n>>, where |-> w, block |-> b, nargs |-> a, kind |-> k]
Directives ==
    {Cmd("a", {"main", "inner"}, FALSE, {1}, "slot"), Cmd("e", {"main"}, TRUE, {0}, "block"),
     Cmd("n", {"main", "inner"}, FALSE, {0, 1, 2}, "array"),
     Cmd("i", {"main", "inner"}, FALSE, {0}, "include")}
Alphabets ==
    {{"sp", "lf", "#", "n", ";", "bs"}, {"a", "dq", "sq", ")", "sp", ";"},
     {"n", "bs", "dq", ";", "$", "{", "sp"}, {"e", "i", ";", "{", "}"}}

(* NgxOpenFileCache: what its users ask for. *)
Wishes ==
    {[min |-> 1, errors |-> TRUE, events |-> FALSE, valid |-> 1],
     [min |-> 2, errors |-> FALSE, events |-> TRUE, valid |-> 1]}

VARIABLE part       \* the component a behaviour is about

(* The variables of the components a behaviour is not about. *)
Asleep == "asleep"

MCInit ==
    /\ part \in {"events", "rtsig", "pipe", "chain", "slab", "pool",
                 "ssl", "sessions", "times", "rbtree", "hash", "cycle",
                 "conf", "channel", "resolver", "cache", "callback", "perl"}
    /\ IF part = "events" THEN EInit ELSE em = Asleep /\ es = Asleep
    /\ IF part = "rtsig" THEN SigInit ELSE rt = Asleep /\ sock = Asleep /\ sigs = Asleep /\ sigio = Asleep
    /\ IF part = "pipe" THEN PInit ELSE pp = Asleep /\ pmode = Asleep /\ pgot = Asleep
    /\ IF part = "chain" THEN ChInit ELSE ch = Asleep /\ chSock = Asleep
    /\ IF part = "slab" THEN SlInit ELSE sl = Asleep /\ slLive = Asleep
    /\ IF part = "pool" THEN PoInit ELSE po = Asleep
    /\ IF part = "ssl" THEN TlsInit ELSE tls = Asleep /\ peer = Asleep /\ tlsOut = Asleep
    /\ IF part = "sessions" THEN SsInit ELSE ss = Asleep /\ ssGet = Asleep /\ ssNow = Asleep
    /\ IF part = "times" THEN TmInit ELSE tm = Asleep /\ rd = Asleep /\ cal = Asleep /\ gone = Asleep
    /\ IF part = "rbtree" THEN RbInit ELSE rb = Asleep /\ rbop = Asleep /\ rbnow = Asleep
    /\ IF part = "hash" THEN HsInit ELSE hs = Asleep
    /\ IF part = "cycle" THEN CyInit ELSE cyc = Asleep /\ ncyc = Asleep /\ cstep = Asleep /\ ctodo = Asleep /\
                                          fdt = Asleep /\ segs = Asleep /\ torn = Asleep /\ single = Asleep /\
                                          pools = Asleep /\ conns = Asleep /\ olds = Asleep /\ cleaner = Asleep
    /\ IF part = "conf" THEN CfInit ELSE cf = Asleep
    /\ IF part = "channel" THEN ClInit ELSE cl = Asleep
    /\ IF part = "resolver" THEN RInit ELSE rs = Asleep /\ queries = Asleep
    /\ IF part = "cache" THEN OInit ELSE oc = Asleep /\ ofs = Asleep /\ otime = Asleep
    /\ IF part = "callback" THEN CbInit ELSE cpool = Asleep /\ crec = Asleep /\ crefs = Asleep /\ crun = Asleep
    /\ IF part = "perl" THEN PpInit ELSE eng = Asleep

MCNext ==
    /\ UNCHANGED part
    /\ IF part = "events" THEN ENext ELSE UNCHANGED evvars
    /\ IF part = "rtsig" THEN SigNext ELSE UNCHANGED sigvars
    /\ IF part = "pipe" THEN PNext ELSE UNCHANGED pvars
    /\ IF part = "chain" THEN ChNext ELSE UNCHANGED chvars
    /\ IF part = "slab" THEN SlNext ELSE UNCHANGED slvars
    /\ IF part = "pool" THEN PoNext ELSE UNCHANGED povars
    /\ IF part = "ssl" THEN TlsNext ELSE UNCHANGED tlsvars
    /\ IF part = "sessions" THEN SsNext ELSE UNCHANGED ssvars
    /\ IF part = "times" THEN TmNext ELSE UNCHANGED tmvars
    /\ IF part = "rbtree" THEN RbNext ELSE UNCHANGED rbvars
    /\ IF part = "hash" THEN HsNext ELSE UNCHANGED hsvars
    /\ IF part = "cycle" THEN CyNext ELSE UNCHANGED cyvars
    /\ IF part = "conf" THEN CfNext ELSE UNCHANGED cfvars
    /\ IF part = "channel" THEN ClNext ELSE UNCHANGED clvars
    /\ IF part = "resolver" THEN RNext ELSE UNCHANGED rvars
    /\ IF part = "cache" THEN ONext ELSE UNCHANGED ovars
    /\ IF part = "callback" THEN CbNext ELSE UNCHANGED cbvars
    /\ IF part = "perl" THEN PpNext ELSE UNCHANGED ppvars

mcvars == <<part, evvars, sigvars, pvars, chvars, slvars, povars, tlsvars, ssvars, tmvars,
            rbvars, hsvars, cyvars, cfvars, clvars, rvars, ovars, cbvars, ppvars>>
MCSpec == MCInit /\ [][MCNext]_mcvars

-----------------------------------------------------------------------------
(* Whatever the event method, what the kernel was asked to watch is what the  *)
(* events say (epoll, kqueue, /dev/poll, eventport, poll, select), and with   *)
(* realtime signals no readiness is lost when the queue overflows.            *)
EventsNotLost ==
    /\ part = "events" => WatchesMatch
    /\ part = "rtsig" => NoSignalLost

(* What ngx_event_pipe and ngx_output_chain pass on is what they were given:  *)
(* each byte once, in order, from memory, shadow buffers and files.           *)
BytesInOrder ==
    /\ part = "pipe" => StreamIntact
    /\ part = "chain" => OutputIntact

(* Memory that two users of a slab pool or of a pool have does not overlap,   *)
(* and is freed once, and cleanups run once.                                  *)
MemoryWhole ==
    /\ part = "slab" => SlabDisjoint
    /\ part = "pool" => PoolWhole

(* OpenSSL's buffers and renegotiations neither lose nor repeat bytes, and    *)
(* the tree, the queue and the memory of the shared session cache agree.      *)
TlsSound ==
    /\ part = "ssl" => TlsKeepsFaith
    /\ part = "sessions" => SessionsAgree

(* A reader of the cached time gets a time that was written, whole, and       *)
(* ngx_gmtime agrees with the calendar.                                       *)
TimeWhole == part = "times" => ClockWhole

(* The red-black tree stays a search tree with its balance, in the orders of  *)
(* timers, values and names, and a hash finds a name exactly when it or a     *)
(* wildcard for it was added.                                                 *)
LookupsRight ==
    /\ part = "rbtree" => TreeInOrder
    /\ part = "hash" => NamesFound

(* After every reconfiguration, failed or not, the cycle owns the files,      *)
(* sockets and zones of its configuration and no others; the configuration    *)
(* read through a small buffer is the one that was written; and the workers   *)
(* know the channels of the processes that live.                              *)
ConfigurationHolds ==
    /\ part = "cycle" => CycleOwnsItsResources
    /\ part = "conf" => ConfFaithful
    /\ part = "channel" => WorkersInformed

(* Every request the resolver has is in the tree, the queues and the timers   *)
(* it should be in, and a file somebody uses is not closed by the cache.      *)
CachesConsistent ==
    /\ part = "resolver" => RequestsConsistent
    /\ part = "cache" => FilesStayOpen

(* The references the engine holds on Perl values are dropped once, and the   *)
(* Perl engine watches and calls back open connections only.                  *)
PerlSideSound ==
    /\ part = "callback" => RefsBalanced
    /\ part = "perl" => OnlyOpenWatched
=============================================================================
