------------------------------ MODULE MCEscrow -------------------------------
(***************************************************************************)
(* Escrow and its refinement of Wager on small instances.                  *)
(***************************************************************************)
EXTENDS EscrowWager, TLC

CONSTANTS PlayerFunds, HouseFunds, FundedPockets

\* Every pocket in play starts with the same balance.
MCStartBalance ==
  [u \in Accounts |-> [q \in Pockets |->
     IF q \notin FundedPockets THEN 0
     ELSE IF u = House THEN HouseFunds ELSE PlayerFunds]]

Symmetry == Permutations(Players) \cup Permutations(Codes) \cup Permutations(Workers)
==============================================================================
