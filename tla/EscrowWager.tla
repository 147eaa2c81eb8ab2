----------------------------- MODULE EscrowWager ------------------------------
(***************************************************************************)
(* Escrow as an implementation of Wager: the contract that each row of the *)
(* match table and its ledger rows stand for.                              *)
(***************************************************************************)
EXTENDS Escrow

Phase(row) == CASE row.status = "NONE"    -> "none"
                [] row.status = "PENDING" -> "offered"
                [] row.status = "ACTIVE"  -> "engaged"
                [] OTHER                  -> "closed"

Contract == INSTANCE Wager WITH
  phase <- [m \in Matches |-> Phase(match[m])],
  stake <- [m \in Matches |-> match[m].bet],
  sides <- [m \in Matches |-> <<match[m].p1, match[m].p2>>],
  net   <- [m \in Matches |-> [u \in Accounts |-> Net(m, u)]]

\* Each match keeps the promise of Wager: its ledger rows are those of a stake
\* put in once and either given back or paid out once, never both, never twice.
KeepsTheWager == Contract!Spec
==============================================================================
