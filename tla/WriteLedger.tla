----------------------------- MODULE WriteLedger -----------------------------
(***************************************************************************)
(* What ship_attempts promises its readers, without saying how: a ledger   *)
(* of writes to another system that this process may lose contact with.    *)
(*                                                                         *)
(* A write is recorded before it can take effect; it takes effect at most  *)
(* once and only while its record is open; a settled record is final and   *)
(* says truly whether the write took effect; the operator is told of a     *)
(* success only on a settled record; only settled records are forgotten.   *)
(***************************************************************************)
CONSTANT Writes

VARIABLES
  record,   \* [Writes -> state of the record]
  effect,   \* the writes that have taken effect in the other system
  acked     \* the writes the operator was told had succeeded

ledgerVars == <<record, effect, acked>>

Settled == {"done", "moot", "refused"}

LedgerInit ==
  /\ record = [w \in Writes |-> "none"]
  /\ effect = {}
  /\ acked = {}

Record(w) ==
  /\ record[w] = "none"
  /\ record' = [record EXCEPT ![w] = "open"]
  /\ UNCHANGED <<effect, acked>>

TakeEffect(w) ==
  /\ record[w] = "open"
  /\ effect' = effect \cup {w}
  /\ UNCHANGED <<record, acked>>

\* "moot": there was nothing left to do (a void of an order that is not shipped).
Settle(w) ==
  /\ record[w] = "open"
  /\ \E s \in IF w \in effect THEN {"done"} ELSE {"moot", "refused"} :
       record' = [record EXCEPT ![w] = s]
  /\ UNCHANGED <<effect, acked>>

Acknowledge(w) ==
  /\ record[w] \in {"done", "moot"}
  /\ acked' = acked \cup {w}
  /\ UNCHANGED <<record, effect>>

Forget(W) ==
  /\ \A w \in W : record[w] \in Settled
  /\ record' = [w \in Writes |-> IF w \in W THEN "forgotten" ELSE record[w]]
  /\ UNCHANGED <<effect, acked>>

LedgerNext ==
  \/ \E w \in Writes : Record(w) \/ TakeEffect(w) \/ Settle(w) \/ Acknowledge(w)
  \/ \E W \in SUBSET Writes : Forget(W)

Spec == LedgerInit /\ [][LedgerNext]_ledgerVars
=============================================================================
