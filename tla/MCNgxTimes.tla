----------------------------- MODULE MCNgxTimes -----------------------------
(* Dates for NgxTimes: the first of January of 1970, of 1999 and of 2096. *)
EXTENDS NgxTimes

Jan1(d, y, w) == [day |-> d, year |-> y, mon |-> 1, mday |-> 1, wday |-> w]
Januaries == {Jan1(0, 1970, 4), Jan1(10592, 1999, 5), Jan1(46021, 2096, 0)}
TheEpoch == {Jan1(0, 1970, 4)}
=============================================================================
