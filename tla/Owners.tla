------------------------------- MODULE Owners --------------------------------
(***************************************************************************)
(* Who has a wallet: the users and the system account (Wallet.user).       *)
(***************************************************************************)
CONSTANTS
  Users,  \* Human users.
  House   \* The system account.

Accounts == Users \cup {House}
==============================================================================
