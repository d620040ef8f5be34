------------------------------ MODULE NgxTimes ------------------------------
(***************************************************************************)
(* The cached time (ngx_times.c).  ngx_time_update and, in a signal         *)
(* handler, ngx_time_sigsafe_update write the strings of a new slot under a *)
(* lock and publish it; readers take no lock.  And ngx_gmtime, day by day   *)
(* beside a calendar.                                                       *)
(***************************************************************************)
EXTENDS Integers

CONSTANTS
    TmSlots,        \* NGX_TIME_SLOTS
    TmMaxSec,       \* bound: the last second of the clock
    TmMaxSignals,   \* bound: signals in a second
    TmStarts,       \* dates the calendar starts at
    TmMaxDays,      \* bound: days it goes on
    TmRest          \* seconds of a day to try

VARIABLES
    tm,     \* the variables of ngx_times.c and the writer's place in its code
    rd,     \* a reader of ngx_cached_err_log_time
    cal,    \* a day and its date
    gone    \* days gone in the calendar

tmvars == <<tm, rd, cal, gone>>

TmInit ==
    /\ tm = [now |-> 1, signals |-> 0,
             slot |-> 0, lock |-> FALSE, pc |-> "idle", sec |-> 0, writer |-> "",
             cached |-> [s \in 0..(TmSlots - 1) |-> 0],             \* cached_time[].sec
             err |-> [s \in 0..(TmSlots - 1) |-> <<0, 0>>],         \* halves of cached_err_log_time[]
             time |-> 0, errp |-> 0]                                \* the published slots
    /\ rd = [pc |-> "idle", at |-> 0, half |-> 0, since |-> 0, writes |-> 0,
             mixed |-> FALSE,       \* it got halves of two strings though few were written,
             long |-> FALSE]        \* or though NGX_TIME_SLOTS seconds had not gone by
    /\ cal \in TmStarts /\ gone = 0

-----------------------------------------------------------------------------
NextSlot(s) == IF s = TmSlots - 1 THEN 0 ELSE s + 1

(* ngx_trylock; a signal that comes while the lock is held returns at once.     *)
(* A slot that already has this second is not replaced; only ngx_time_update    *)
(* writes the second of a slot.                                                 *)
Update(writer) ==
    /\ ~tm.lock
    /\ writer = "sigsafe" => tm.signals < TmMaxSignals
    /\ LET t == [tm EXCEPT !.signals = IF writer = "sigsafe" THEN @ + 1 ELSE @]
           s == NextSlot(tm.slot)
       IN  tm' = IF tm.cached[tm.slot] = tm.now THEN t
                 ELSE [t EXCEPT !.lock = TRUE, !.pc = "write", !.sec = tm.now, !.writer = writer, !.slot = s,
                                !.cached[s] = IF writer = "update" THEN tm.now ELSE @]
    /\ UNCHANGED <<rd, cal, gone>>

(* The string is written, then published. *)
FaultTarget == tm.errp
Target == tm.slot
WriteHalf1 ==
    /\ tm.pc \in {"write", "half"}
    /\ tm' = [tm EXCEPT !.pc = IF @ = "write" THEN "half" ELSE "publish",
                        !.err[Target][IF tm.pc = "write" THEN 1 ELSE 2] = tm.sec]
    /\ rd' = IF rd.pc # "idle" /\ tm.pc = "write" THEN [rd EXCEPT !.writes = @ + 1] ELSE rd
    /\ UNCHANGED <<cal, gone>>
Publish ==
    /\ tm.pc = "publish"
    /\ tm' = [tm EXCEPT !.pc = "idle", !.lock = FALSE, !.errp = tm.slot,
                        !.time = IF tm.writer = "update" THEN tm.slot ELSE @]
    /\ UNCHANGED <<rd, cal, gone>>

Second ==
    /\ tm.now < TmMaxSec
    /\ tm' = [tm EXCEPT !.now = @ + 1, !.signals = 0]
    /\ UNCHANGED <<rd, cal, gone>>

(* A reader takes the pointer and copies the string. *)
ReadStart ==
    /\ rd.pc = "idle"
    /\ rd' = [rd EXCEPT !.pc = "first", !.at = tm.errp, !.since = tm.now, !.writes = 0]
    /\ UNCHANGED <<tm, cal, gone>>
ReadFirst ==
    /\ rd.pc = "first"
    /\ rd' = [rd EXCEPT !.pc = "second", !.half = tm.err[rd.at][1]]
    /\ UNCHANGED <<tm, cal, gone>>
ReadSecond ==
    /\ rd.pc = "second"
    /\ rd' = [rd EXCEPT !.pc = "idle", !.at = 0, !.half = 0, !.since = 0, !.writes = 0,
                        !.mixed = @ \/ (tm.err[rd.at][2] # rd.half /\ rd.writes < TmSlots - 1),
                        !.long = @ \/ (tm.err[rd.at][2] # rd.half /\ tm.now - rd.since <= TmSlots)]
    /\ UNCHANGED <<tm, cal, gone>>

-----------------------------------------------------------------------------
(* ngx_gmtime, of a time given as a day and a second of that day. *)
Hour(rest) == [hour |-> rest \div 3600, min |-> (rest % 3600) \div 60, sec |-> (rest % 3600) % 60]
FaultLeap(year) == IF year % 4 = 0 THEN 1 ELSE 0
Leap(year) == IF year % 4 = 0 /\ (year % 100 # 0 \/ year % 400 = 0) THEN 1 ELSE 0
Before(year) == 365 * year + year \div 4 - year \div 100 + year \div 400
Gmtime(day) ==
    LET days == day - (31 + 28) + 719527        \* since March 1, 1 BC
        year0 == ((days + 2) * 400) \div (365 * 400 + 100 - 4 + 1)
        over == days < Before(year0)
        year == IF over THEN year0 - 1 ELSE year0
        yday == IF over THEN 365 + Leap(year0) + days - Before(year0) ELSE days - Before(year0)
        mon == ((yday + 31) * 10) \div 306
        mday == yday - ((367 * mon) \div 12 - 30) + 1
    IN  [day |-> day, wday |-> (4 + day) % 7, mday |-> mday,
         year |-> IF yday >= 306 THEN year + 1 ELSE year,
         mon |-> IF yday >= 306 THEN mon - 10 ELSE mon + 2]

(* The calendar: lengths of the months, leap years by Gregory's rule. *)
DaysOf(mon, year) ==
    IF mon = 2 THEN IF year % 400 = 0 \/ (year % 4 = 0 /\ year % 100 # 0) THEN 29 ELSE 28
    ELSE IF mon \in {4, 6, 9, 11} THEN 30 ELSE 31
NextDay ==
    /\ gone < TmMaxDays /\ gone' = gone + 1
    /\ LET last == cal.mday = DaysOf(cal.mon, cal.year)
           year == last /\ cal.mon = 12
       IN  cal' = [day |-> cal.day + 1, wday |-> (cal.wday + 1) % 7,
                   mday |-> IF last THEN 1 ELSE cal.mday + 1,
                   mon |-> IF year THEN 1 ELSE IF last THEN cal.mon + 1 ELSE cal.mon,
                   year |-> IF year THEN cal.year + 1 ELSE cal.year]
    /\ UNCHANGED <<tm, rd>>

TmClock ==
    \/ \E w \in {"update", "sigsafe"} : Update(w)
    \/ WriteHalf1 \/ Publish \/ Second \/ ReadStart \/ ReadFirst \/ ReadSecond
TmNext ==
    \/ cal.year = 1970 /\ gone = 0 /\ TmClock
    \/ tm.now = 1 /\ tm.slot = 0 /\ rd.pc = "idle" /\ NextDay
TmSpec == TmInit /\ [][TmNext]_tmvars

-----------------------------------------------------------------------------
(* A reader never mixes two strings unless NGX_TIME_SLOTS - 1 of them were      *)
(* written while it copied; the slot that is written is never the published     *)
(* one; and ngx_gmtime gives the calendar's date and time of every day.         *)
ClockWhole ==
    /\ ~rd.mixed
    /\ tm.pc \in {"write", "half"} => Target # tm.errp
    /\ LET g == Gmtime(cal.day) IN g = cal
    /\ \A r \in TmRest : LET h == Hour(r)
                         IN  h.hour * 3600 + h.min * 60 + h.sec = r /\ h.hour < 24 /\ h.min < 60 /\ h.sec < 60

(* "thread may get the corrupted values only if it is preempted while copying   *)
(* and then it is not scheduled to run more than NGX_TIME_SLOTS seconds".       *)
CorruptOnlyAfterSlotsSeconds == ~rd.long
=============================================================================
