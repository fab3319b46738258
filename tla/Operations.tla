---------------------------- MODULE Operations ----------------------------
(***************************************************************************)
(* What the modules of the ship / void / manual-link path share.           *)
(*                                                                         *)
(* Every request that may write upstream mints one fresh UUID4 idempotency *)
(* key (new_idempotency_key) and, when it ships, buys one ShipRush label.  *)
(* One element of Keys stands for the request, its key and its label: none *)
(* of the three is ever reused by another request.                         *)
(***************************************************************************)
EXTENDS FiniteSets

CONSTANTS
  Keys,     \* requests; each is also the idempotency key it mints
  Orders,   \* sales orders, as validate_ticket returns their numbers
  None      \* no key

ASSUME KeysAssumption == IsFiniteSet(Keys) /\ None \notin Keys

\* The operations a ship_attempts row may carry.
Ops == {"ship", "void", "manual_link"}

OptKey == Keys \cup {None}
=============================================================================
