---------------------------- MODULE ShipAttempts ----------------------------
(***************************************************************************)
(* The ship_attempts table (app/services/ship_attempts.py): one row per    *)
(* idempotency key, written in one SQLite transaction under the store's    *)
(* lock, so that each operation below is atomic and survives a crash.      *)
(*                                                                         *)
(* status[k] is the row's status, "none" before the row exists and         *)
(* "pruned" after prune_terminal has deleted it.  The row's operation and  *)
(* order are the request's own and never change.  created[k] is the row's  *)
(* place in the order of created_at (rows of the same second keep their    *)
(* insertion order).                                                       *)
(***************************************************************************)
EXTENDS Naturals, Operations

CONSTANT RetryLimit     \* find_recoverable's limit: 50 in the code

ASSUME RetryLimitAssumption == RetryLimit \in Nat \ {0}

VARIABLES status, created, lastRow

attemptVars == <<status, created, lastRow>>

Statuses == {"none", "pending", "success", "unknown", "rejected", "pruned"}

AttemptsTypeOK ==
  /\ status \in [Keys -> Statuses]
  /\ created \in [Keys -> Nat]
  /\ lastRow \in Nat

AttemptsInit ==
  /\ status = [k \in Keys |-> "none"]
  /\ created = [k \in Keys |-> 0]
  /\ lastRow = 0

HasRow(k) == status[k] \notin {"none", "pruned"}
Terminal(k) == status[k] \in {"success", "rejected"}

(***************************************************************************)
(* insert_pending: UNIQUE on the key makes a second insert fail.           *)
(***************************************************************************)
InsertPending(k) ==
  /\ ~HasRow(k)
  /\ status' = [status EXCEPT ![k] = "pending"]
  /\ created' = [created EXCEPT ![k] = lastRow + 1]
  /\ lastRow' = lastRow + 1

(***************************************************************************)
(* _set_status, which mark_success, mark_unknown and mark_rejected call:   *)
(* an UPDATE by key that does not look at the status it overwrites, and    *)
(* touches nothing when there is no such row.                              *)
(***************************************************************************)
SetStatus(k, s) ==
  /\ status' = IF HasRow(k) THEN [status EXCEPT ![k] = s] ELSE status
  /\ UNCHANGED <<created, lastRow>>

\* Rows whose outcome upstream is not known.
Recoverable(k) == status[k] \in {"pending", "unknown"}

Older(j, k) == created[j] < created[k]

\* A mistake the runs must detect: rows left pending by a crash are missed.
Bug_FindUnknown ==
  {k \in Keys :
     /\ status[k] = "unknown"
     /\ Cardinality({j \in Keys : status[j] = "unknown" /\ Older(j, k)}) < RetryLimit}

\* A mistake the runs must detect: the status filter is missing.
Bug_FindAll ==
  {k \in Keys :
     /\ HasRow(k)
     /\ Cardinality({j \in Keys : HasRow(j) /\ Older(j, k)}) < RetryLimit}

(***************************************************************************)
(* find_recoverable: the pending and unknown rows, oldest first, at most   *)
(* RetryLimit of them.                                                     *)
(***************************************************************************)
FindRecoverable ==
  {k \in Keys :
     /\ Recoverable(k)
     /\ Cardinality({j \in Keys : Recoverable(j) /\ Older(j, k)}) < RetryLimit}

(***************************************************************************)
(* prune_terminal: deletes the finished rows that are old enough; S is the *)
(* set of rows beyond the age cutoff.                                      *)
(***************************************************************************)
PruneTerminal(S) ==
  /\ status' = [k \in Keys |-> IF k \in S /\ Terminal(k) THEN "pruned" ELSE status[k]]
  /\ UNCHANGED <<created, lastRow>>
=============================================================================
