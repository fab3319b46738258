------------------------------ MODULE Upstream ------------------------------
(***************************************************************************)
(* The two services dockd calls, as far as app/services/backend/sentry.py, *)
(* app/services/shiprush.py and app/services/shipping.py rely on them.     *)
(* Neither is part of the repository.                                      *)
(*                                                                         *)
(* Sentry (the warehouse system) holds, for each order, the key of the     *)
(* ship that made it SHIPPED, and the dockd_idempotency table: the keys    *)
(* whose write has committed.  ShipRush sells and refunds labels.          *)
(***************************************************************************)
EXTENDS Operations

VARIABLES
  shippedBy,   \* [Orders -> key of the ship the order stands shipped under, or None]
  committed,   \* the keys in Sentry's dockd_idempotency table
  label        \* [Keys -> state of the ShipRush label the request bought]

sentryVars == <<shippedBy, committed>>
upstreamVars == <<shippedBy, committed, label>>

UpstreamTypeOK ==
  /\ shippedBy \in [Orders -> OptKey]
  /\ committed \subseteq Keys
  /\ label \in [Keys -> {"none", "live", "refunded"}]

UpstreamInit ==
  /\ shippedBy = [o \in Orders |-> None]
  /\ committed = {}
  /\ label = [k \in Keys |-> "none"]

(***************************************************************************)
(* One POST as Sentry executes it, and the answer a it computes.           *)
(*                                                                         *)
(* Replay: a key that committed is answered with its cached response.      *)
(* Refuse: a typed 4xx (already shipped, unknown operator, not in a        *)
(*   shippable status, not found...) or a 429 / 5xx / unmapped status,     *)
(*   without writing.                                                      *)
(* The writes: a ship takes an order that is not shipped, a void reverts   *)
(*   one that is and is answered 409 not_shipped when there is none.       *)
(***************************************************************************)
Replay(k, a) ==
  /\ k \in committed
  /\ a \in {"ok", "unknown"}
  /\ UNCHANGED sentryVars

Refuse(k, a) ==
  /\ k \notin committed
  /\ a \in {"rejected", "unknown"}
  /\ UNCHANGED sentryVars

ShipWrite(k, o, a) ==
  /\ k \notin committed
  /\ shippedBy[o] = None
  /\ a = "ok"
  /\ shippedBy' = [shippedBy EXCEPT ![o] = k]
  /\ committed' = committed \cup {k}

VoidWrite(k, o, a) ==
  /\ k \notin committed
  /\ shippedBy[o] # None
  /\ a = "ok"
  /\ shippedBy' = [shippedBy EXCEPT ![o] = None]
  /\ committed' = committed \cup {k}

NotShipped(k, o, a) ==
  /\ k \notin committed
  /\ shippedBy[o] = None
  /\ a = "not_shipped"
  /\ UNCHANGED sentryVars

Execute(k, operation, o, a) ==
  \/ Replay(k, a)
  \/ Refuse(k, a)
  \/ operation # "void" /\ ShipWrite(k, o, a)
  \/ operation = "void" /\ (VoidWrite(k, o, a) \/ NotShipped(k, o, a))
=============================================================================
