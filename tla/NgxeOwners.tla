----------------------------- MODULE NgxeOwners -----------------------------
(***************************************************************************)
(* What the connection table promises the rest of the engine: a slot has   *)
(* at most one owner at a time, an owner has exactly one slot, and a slot  *)
(* changes hands only through "free".  Nothing is said here about how      *)
(* slots are found, reused or told apart.                                  *)
(***************************************************************************)
EXTENDS Naturals

CONSTANT Slots      \* the entries of cycle->connections

VARIABLES
    table,          \* table[s]: the owner of slot s, 0 when it has none
    born            \* owners there have been so far

Init ==
    /\ table = [s \in Slots |-> 0]
    /\ born = 0

(* Somebody who never had a slot before gets one that nobody has. *)
Take(s) ==
    /\ table[s] = 0
    /\ born' = born + 1
    /\ table' = [table EXCEPT ![s] = born']

(* An owner gives its slot back. *)
Release(s) ==
    /\ table[s] # 0
    /\ table' = [table EXCEPT ![s] = 0]
    /\ UNCHANGED born

Next == \E s \in Slots : Take(s) \/ Release(s)

Spec == Init /\ [][Next]_<<table, born>>
=============================================================================
