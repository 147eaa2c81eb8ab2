---------------------------- MODULE MCLockOrder ------------------------------
(***************************************************************************)
(* LockOrder on a small instance: the wallet of the house may have been    *)
(* numbered before those of the players.                                   *)
(***************************************************************************)
EXTENDS LockOrder, TLC

CONSTANTS p1, p2

HouseFirst == p1 :> 2 @@ p2 :> 3 @@ House :> 1

Symmetry == Permutations(Procs)
==============================================================================
