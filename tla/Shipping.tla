------------------------------ MODULE Shipping ------------------------------
(***************************************************************************)
(* ShippingService (app/services/shipping.py) as the process runs it:      *)
(* request threads for ship_order, void and manual_link, which interleave  *)
(* at every call they make; retry_recoverable_attempts, which create_app   *)
(* runs before serving and a daemon thread runs periodically; crashes and  *)
(* restarts of the process; lost answers, timeouts and late requests on    *)
(* the way to Sentry.                                                      *)
(*                                                                         *)
(* It composes the durable table (ShipAttempts) with the services it calls *)
(* (Upstream) and adds the label cache, ship_history and what the operator *)
(* was told.                                                               *)
(***************************************************************************)
EXTENDS ShipAttempts, Upstream

CONSTANTS
  BootRetry,     \* DOCKD_RETRY_PENDING_ON_BOOT is set
  PollRetry,     \* DOCKD_RETRY_POLL_INTERVAL > 0
  LateCalls,     \* a POST may reach Sentry after its caller has given up on it
  Pruning,       \* an operator runs prune_terminal
  MaxCrashes     \* bound: crashes in one behaviour

ASSUME ConfigAssumption ==
  /\ BootRetry \in BOOLEAN
  /\ PollRetry \in BOOLEAN
  /\ LateCalls \in BOOLEAN
  /\ Pruning \in BOOLEAN
  /\ MaxCrashes \in Nat

VARIABLES
  server,      \* "booting" (inside create_app) or "up" (serving)
  crashes,     \* crashes so far
  op, so,      \* [Keys -> operation and order the operator asks for], never changed
  pc,          \* [Keys -> where the request's thread stands]
  target,      \* [Keys -> the label a void refunds]
  answer,      \* [Keys -> outcome of the request's own POST]
  told,        \* [Keys -> what the browser was told]
  cache,       \* [Orders -> label the label cache holds for the order, or None]
  history,     \* [Keys -> the request's ship_history row]
  drain,       \* where the retry loop stands: "off", "next", "wait", "mark"
  batch,       \* rows of its snapshot still to retry
  current,     \* row being retried
  drainAnswer, \* outcome of its POST
  late         \* keys of POSTs that outlived their caller and may still arrive

requestVars == <<op, so>>
localVars   == <<cache, history>>
drainVars   == <<drain, batch, current, drainAnswer>>
processVars == <<server, crashes>>

vars == <<attemptVars, upstreamVars, processVars, requestVars, pc, target, answer, told,
          localVars, drainVars, late>>

(***************************************************************************)
(* Outcomes of one POST as the caller sees it: 2xx, 409 not_shipped, any   *)
(* other typed 4xx, "unknown" for a timeout / 5xx / 429 / network error    *)
(* (_request and _raise_for_status raise, _classify_for_attempt sorts),    *)
(* and "garbled" for a 2xx whose body does not parse: resp.json() raises   *)
(* something that no handler in ShippingService catches.                   *)
(***************************************************************************)
Answers == {"none", "ok", "not_shipped", "rejected", "unknown", "garbled"}

PCs == {"idle", "label", "refund", "insert", "send", "wait", "mark", "log",
        "reply", "done", "dead"}

Ended(k) == pc[k] \in {"idle", "done", "dead"}

TypeOK ==
  /\ AttemptsTypeOK
  /\ UpstreamTypeOK
  /\ server \in {"booting", "up"}
  /\ crashes \in Nat
  /\ op \in [Keys -> Ops]
  /\ so \in [Keys -> Orders]
  /\ pc \in [Keys -> PCs]
  /\ target \in [Keys -> OptKey]
  /\ answer \in [Keys -> Answers]
  /\ told \in [Keys -> {"none", "success", "error"}]
  /\ cache \in [Orders -> OptKey]
  /\ history \in [Keys -> {"none", "shipped", "voided"}]
  /\ drain \in {"off", "next", "wait", "mark"}
  /\ batch \subseteq Keys
  /\ current \in OptKey
  /\ drainAnswer \in Answers
  /\ late \subseteq Keys

Init ==
  /\ AttemptsInit
  /\ UpstreamInit
  /\ server = "booting"
  /\ crashes = 0
  /\ op \in [Keys -> Ops]
  /\ so \in [Keys -> Orders]
  /\ pc = [k \in Keys |-> "idle"]
  /\ target = [k \in Keys |-> None]
  /\ answer = [k \in Keys |-> "none"]
  /\ told = [k \in Keys |-> "none"]
  /\ cache = [o \in Orders |-> None]
  /\ history = [k \in Keys |-> "none"]
  /\ drain = "off"
  /\ batch = {}
  /\ current = None
  /\ drainAnswer = "none"
  /\ late = {}

(***************************************************************************)
(* ship_order up to the label: the refusals that change nothing (no        *)
(* backend, bad order number, get_order failure, banned destination,       *)
(* carrier conflict) answer the browser at once; otherwise the thread goes *)
(* on to buy a label.  The order's status upstream is not looked at.       *)
(***************************************************************************)
ShipRequest(k) ==
  /\ server = "up"
  /\ op[k] = "ship"
  /\ pc[k] = "idle"
  /\ \/ /\ pc' = [pc EXCEPT ![k] = "label"]
        /\ UNCHANGED told
     \/ /\ pc' = [pc EXCEPT ![k] = "done"]
        /\ told' = [told EXCEPT ![k] = "error"]
  /\ UNCHANGED <<attemptVars, upstreamVars, processVars, requestVars, target,
                 answer, localVars, drainVars, late>>

(***************************************************************************)
(* LabelCache.save: the label takes the order's entry; the unlocked        *)
(* rewrite of the whole file may drop any other order's entry, as          *)
(* cleanup_expired does, or put an older label of that order back.         *)
(***************************************************************************)
Sold(o) == {j \in Keys : so[j] = o /\ label[j] # "none"}

SaveLabel(k) ==
  /\ cache' \in [Orders -> OptKey]
  /\ cache'[so[k]] = k
  /\ \A o \in Orders \ {so[k]} : cache'[o] \in {cache[o], None} \cup Sold(o)

(***************************************************************************)
(* ShipRushClient.generate_label: the carrier refuses; or it sells the     *)
(* label and _parse_response saves it in the label cache; or it sells the  *)
(* label and the answer times out, lacks the tracking, or the save raises  *)
(* before or after it has written, all of which is answered as an error.   *)
(***************************************************************************)
GenerateLabel(k) ==
  /\ pc[k] = "label"
  /\ \/ /\ UNCHANGED <<label, cache>>
        /\ pc' = [pc EXCEPT ![k] = "done"]
        /\ told' = [told EXCEPT ![k] = "error"]
     \/ /\ label' = [label EXCEPT ![k] = "live"]
        /\ SaveLabel(k)
        /\ pc' = [pc EXCEPT ![k] = "insert"]
        /\ UNCHANGED told
     \/ /\ label' = [label EXCEPT ![k] = "live"]
        /\ pc' = [pc EXCEPT ![k] = "done"]
        /\ told' = [told EXCEPT ![k] = "error"]
        /\ UNCHANGED cache \/ SaveLabel(k)
  /\ UNCHANGED <<attemptVars, sentryVars, processVars, requestVars, target, answer,
                 history, drainVars, late>>

(***************************************************************************)
(* void up to the refund: the label is looked up in the label cache by     *)
(* order number; without one, or while the cache file is being rewritten   *)
(* and does not parse, the request ends in an error.                       *)
(***************************************************************************)
VoidRequest(k) ==
  /\ server = "up"
  /\ op[k] = "void"
  /\ pc[k] = "idle"
  /\ \/ /\ cache[so[k]] # None
        /\ target' = [target EXCEPT ![k] = cache[so[k]]]
        /\ pc' = [pc EXCEPT ![k] = "refund"]
        /\ UNCHANGED told
     \/ /\ pc' = [pc EXCEPT ![k] = "done"]
        /\ told' = [told EXCEPT ![k] = "error"]
        /\ UNCHANGED target
  /\ UNCHANGED <<attemptVars, upstreamVars, processVars, requestVars, answer,
                 localVars, drainVars, late>>

\* A mistake the runs must detect: a refund that fails is only logged.
Bug_RefundBestEffort(k) ==
  /\ pc[k] = "refund"
  /\ \/ label' = [label EXCEPT ![target[k]] = "refunded"]
     \/ UNCHANGED label
  /\ pc' = [pc EXCEPT ![k] = "insert"]
  /\ UNCHANGED <<attemptVars, sentryVars, processVars, requestVars, target, answer, told,
                 localVars, drainVars, late>>

(***************************************************************************)
(* ShipRushClient.void_label: refunded (or "already voided"); refused; or  *)
(* refunded and the answer lost.                                           *)
(***************************************************************************)
RefundLabel(k) ==
  /\ pc[k] = "refund"
  /\ \/ /\ label' = [label EXCEPT ![target[k]] = "refunded"]
        /\ pc' = [pc EXCEPT ![k] = "insert"]
        /\ UNCHANGED told
     \/ /\ \/ label' = [label EXCEPT ![target[k]] = "refunded"]
           \/ UNCHANGED label
        /\ pc' = [pc EXCEPT ![k] = "done"]
        /\ told' = [told EXCEPT ![k] = "error"]
  /\ UNCHANGED <<attemptVars, sentryVars, processVars, requestVars, target, answer,
                 localVars, drainVars, late>>

(***************************************************************************)
(* manual_link: nothing to buy or refund.                                  *)
(***************************************************************************)
LinkRequest(k) ==
  /\ server = "up"
  /\ op[k] = "manual_link"
  /\ pc[k] = "idle"
  /\ pc' = [pc EXCEPT ![k] = "insert"]
  /\ UNCHANGED <<attemptVars, upstreamVars, processVars, requestVars, target, answer,
                 told, localVars, drainVars, late>>

\* A mistake the runs must detect: the POST goes out before the row is written.
Bug_CallBeforeInsert(k) ==
  /\ pc[k] = "insert"
  /\ pc' = [pc EXCEPT ![k] = "send"]
  /\ UNCHANGED <<attemptVars, upstreamVars, processVars, requestVars, target, answer, told,
                 localVars, drainVars, late>>

(***************************************************************************)
(* The lifecycle the three handlers share: insert_pending, the POST, the   *)
(* mark.                                                                   *)
(***************************************************************************)
InsertAttempt(k) ==
  /\ pc[k] = "insert"
  /\ InsertPending(k)
  /\ pc' = [pc EXCEPT ![k] = "send"]
  /\ UNCHANGED <<upstreamVars, processVars, requestVars, target, answer, told,
                 localVars, drainVars, late>>

SendCall(k) ==
  /\ pc[k] = "send"
  /\ pc' = [pc EXCEPT ![k] = "wait"]
  /\ UNCHANGED <<attemptVars, upstreamVars, processVars, requestVars, target, answer,
                 told, localVars, drainVars, late>>

\* What a caller may see of the answer a that Sentry computed.
Received(a) == IF a = "ok" THEN {"ok", "unknown", "garbled"} ELSE {a, "unknown"}

CallAnswered(k) ==
  /\ pc[k] = "wait"
  /\ \E a \in Answers :
       /\ Execute(k, op[k], so[k], a)
       /\ \E r \in Received(a) : answer' = [answer EXCEPT ![k] = r]
  /\ pc' = [pc EXCEPT ![k] = "mark"]
  /\ UNCHANGED <<attemptVars, label, processVars, requestVars, target, told,
                 localVars, drainVars, late>>

\* The POSTs that a departed caller leaves behind: dropped or, if LateCalls, late.
Abandon(S) == \E T \in SUBSET S : /\ T # {} => LateCalls
                                  /\ late' = late \cup T

CallTimesOut(k) ==
  /\ pc[k] = "wait"
  /\ answer' = [answer EXCEPT ![k] = "unknown"]
  /\ Abandon({k})
  /\ pc' = [pc EXCEPT ![k] = "mark"]
  /\ UNCHANGED <<attemptVars, upstreamVars, processVars, requestVars, target, told,
                 localVars, drainVars>>

LateCallArrives(k) ==
  /\ k \in late
  /\ late' = late \ {k}
  /\ \E a \in Answers : Execute(k, op[k], so[k], a)
  /\ UNCHANGED <<attemptVars, label, processVars, requestVars, pc, target, answer,
                 told, localVars, drainVars>>

\* A mistake the runs must detect: already_shipped counts as success, as not_shipped does.
Bug_ConflictIsSuccess(k, a) ==
  CASE a \in {"ok", "not_shipped", "rejected"} -> "success"
    [] OTHER -> "unknown"

\* A mistake the runs must detect: a timeout is taken for a refusal.
Bug_TimeoutIsRejected(k, a) ==
  CASE a = "ok" -> "success"
    [] a = "not_shipped" -> IF op[k] = "void" THEN "success" ELSE "rejected"
    [] OTHER -> "rejected"

\* A mistake the runs must detect: a status the table's CHECK does not allow.
Bug_AlreadyVoidedStatus(k, a) ==
  CASE a = "ok" -> "success"
    [] a = "not_shipped" -> "already_voided"
    [] a = "rejected" -> "rejected"
    [] OTHER -> "unknown"

(***************************************************************************)
(* What follows the POST.  2xx: mark_success.  NotShippedError in void:    *)
(* mark_success as well, "already voided".  Other BackendErrors:           *)
(* mark_rejected or mark_unknown.  A garbled 2xx: the exception leaves the *)
(* handler, the row stays pending and the browser gets a 500.              *)
(***************************************************************************)
Verdict(k, a) ==
  CASE a = "ok" -> "success"
    [] a = "not_shipped" -> IF op[k] = "void" THEN "success" ELSE "rejected"
    [] a = "rejected" -> "rejected"
    [] OTHER -> "unknown"

\* A mistake the runs must detect: history is written whatever the answer was.
Bug_LogUnconfirmed(k) ==
  /\ pc[k] = "mark"
  /\ SetStatus(k, Verdict(k, answer[k]))
  /\ pc' = [pc EXCEPT ![k] = IF op[k] # "manual_link" THEN "log" ELSE "reply"]
  /\ UNCHANGED <<upstreamVars, processVars, requestVars, target, answer, told,
                 localVars, drainVars, late>>

MarkAttempt(k) ==
  /\ pc[k] = "mark"
  /\ IF answer[k] = "garbled"
       THEN /\ pc' = [pc EXCEPT ![k] = "done"]
            /\ answer' = [answer EXCEPT ![k] = "none"]
            /\ UNCHANGED attemptVars
       ELSE /\ SetStatus(k, Verdict(k, answer[k]))
            /\ pc' = [pc EXCEPT ![k] = IF answer[k] = "ok" /\ op[k] # "manual_link"
                                        THEN "log" ELSE "reply"]
            /\ UNCHANGED answer
  /\ UNCHANGED <<upstreamVars, processVars, requestVars, target, told,
                 localVars, drainVars, late>>

\* _mark_history_voided: stamps every row of the order that is not voided yet.
StampVoided(k) ==
  history' = [j \in Keys |-> IF so[j] = so[k] /\ history[j] = "shipped"
                             THEN "voided" ELSE history[j]]

(***************************************************************************)
(* ship_history, best effort: _log_to_db and the caller of                 *)
(* _mark_history_voided swallow every exception.                           *)
(***************************************************************************)
LogHistory(k) ==
  /\ pc[k] = "log"
  /\ \/ UNCHANGED history
     \/ op[k] = "ship" /\ history' = [history EXCEPT ![k] = "shipped"]
     \/ op[k] = "void" /\ StampVoided(k)
  /\ pc' = [pc EXCEPT ![k] = "reply"]
  /\ UNCHANGED <<attemptVars, upstreamVars, processVars, requestVars, target, answer,
                 told, cache, drainVars, late>>

\* The browser gets the reply (and prints the label of a successful ship), or has gone.
Reply(k) ==
  /\ pc[k] = "reply"
  /\ pc' = [pc EXCEPT ![k] = "done"]
  /\ \/ UNCHANGED told
     \/ told' = [told EXCEPT ![k] =
                   IF Verdict(k, answer[k]) = "success" THEN "success" ELSE "error"]
  /\ answer' = [answer EXCEPT ![k] = "none"]
  /\ UNCHANGED <<attemptVars, upstreamVars, processVars, requestVars, target,
                 localVars, drainVars, late>>

(***************************************************************************)
(* retry_recoverable_attempts.  The rows are read once, then retried one   *)
(* by one, oldest first, each with its own key and its stored body.  Of    *)
(* what the POST may answer only BackendErrors are caught: a garbled 2xx   *)
(* ends the drain.  NotShippedError is rejected here, also for a void.     *)
(* The loop writes no ship_history.                                        *)
(***************************************************************************)
DrainStart ==
  /\ drain = "off"
  /\ IF server = "booting" THEN BootRetry ELSE PollRetry
  /\ drain' = "next"
  /\ batch' = FindRecoverable
  /\ UNCHANGED <<attemptVars, upstreamVars, processVars, requestVars, pc, target,
                 answer, told, localVars, current, drainAnswer, late>>

\* A mistake the runs must detect: the row stays in the batch.
Bug_DrainNextKeeps(k) ==
  /\ drain = "next"
  /\ k \in batch
  /\ \A j \in batch : ~Older(j, k)
  /\ drain' = "wait"
  /\ current' = k
  /\ UNCHANGED <<attemptVars, upstreamVars, processVars, requestVars, pc, target,
                 answer, told, localVars, batch, drainAnswer, late>>

DrainNext(k) ==
  /\ drain = "next"
  /\ k \in batch
  /\ \A j \in batch : ~Older(j, k)
  /\ drain' = "wait"
  /\ current' = k
  /\ batch' = batch \ {k}
  /\ UNCHANGED <<attemptVars, upstreamVars, processVars, requestVars, pc, target,
                 answer, told, localVars, drainAnswer, late>>

DrainAnswered(k) ==
  /\ drain = "wait"
  /\ k = current
  /\ \E a \in Answers :
       /\ Execute(k, op[k], so[k], a)
       /\ drainAnswer' \in Received(a)
  /\ drain' = "mark"
  /\ UNCHANGED <<attemptVars, label, processVars, requestVars, pc, target, answer,
                 told, localVars, batch, current, late>>

DrainTimesOut(k) ==
  /\ drain = "wait"
  /\ k = current
  /\ drainAnswer' = "unknown"
  /\ Abandon({k})
  /\ drain' = "mark"
  /\ UNCHANGED <<attemptVars, upstreamVars, processVars, requestVars, pc, target,
                 answer, told, localVars, batch, current>>

\* A mistake the runs must detect: a retry that gets no answer gives the row up.
Bug_RetryGivesUp(a) == IF a = "ok" THEN "success" ELSE "rejected"

RetryVerdict(a) ==
  CASE a = "ok" -> "success"
    [] a \in {"not_shipped", "rejected"} -> "rejected"
    [] OTHER -> "unknown"

DrainMark(k) ==
  /\ drain = "mark"
  /\ k = current
  /\ IF drainAnswer = "garbled"
       THEN batch' = {} /\ UNCHANGED attemptVars
       ELSE SetStatus(k, RetryVerdict(drainAnswer)) /\ UNCHANGED batch
  /\ drain' = "next"
  /\ current' = None
  /\ drainAnswer' = "none"
  /\ UNCHANGED <<upstreamVars, processVars, requestVars, pc, target, answer, told,
                 localVars, late>>

\* The drain is over: create_app goes on to serve, the daemon thread to sleep.
DrainEnd ==
  /\ drain = "next"
  /\ batch = {}
  /\ drain' = "off"
  /\ server' = "up"
  /\ UNCHANGED <<attemptVars, upstreamVars, crashes, requestVars, pc, target, answer,
                 told, localVars, batch, current, drainAnswer, late>>

\* create_app without the boot retry.
ServeWithoutRetry ==
  /\ server = "booting"
  /\ ~BootRetry
  /\ server' = "up"
  /\ UNCHANGED <<attemptVars, upstreamVars, crashes, requestVars, pc, target, answer,
                 told, localVars, drainVars, late>>

(***************************************************************************)
(* The process dies (crash, kill, os._exit in /api/shutdown) and restarts: *)
(* threads and in-memory state are gone, SQLite and the label cache's      *)
(* files stay, and POSTs under way are dropped or arrive late.             *)
(***************************************************************************)
InFlight == {k \in Keys : pc[k] = "wait" \/ (drain = "wait" /\ current = k)}

Crash ==
  /\ crashes < MaxCrashes
  /\ crashes' = crashes + 1
  /\ server' = "booting"
  /\ pc' = [k \in Keys |-> IF Ended(k) THEN pc[k] ELSE "dead"]
  /\ answer' = [k \in Keys |-> "none"]
  /\ Abandon(InFlight)
  /\ drain' = "off"
  /\ batch' = {}
  /\ current' = None
  /\ drainAnswer' = "none"
  /\ UNCHANGED <<attemptVars, upstreamVars, requestVars, target, told, localVars>>

\* prune_terminal, days after the requests it concerns (never during a drain).
Prune ==
  /\ Pruning
  /\ drain = "off"
  /\ \E S \in SUBSET {k \in Keys : Ended(k)} : S # {} /\ PruneTerminal(S)
  /\ UNCHANGED <<upstreamVars, processVars, requestVars, pc, target, answer, told,
                 localVars, drainVars, late>>

Request(k) ==
  \/ ShipRequest(k) \/ GenerateLabel(k)
  \/ VoidRequest(k) \/ RefundLabel(k)
  \/ LinkRequest(k)
  \/ InsertAttempt(k) \/ SendCall(k) \/ CallAnswered(k) \/ CallTimesOut(k)
  \/ MarkAttempt(k) \/ LogHistory(k) \/ Reply(k)

RetryLoop ==
  \/ DrainStart \/ DrainEnd
  \/ \E k \in Keys :
       DrainNext(k) \/ DrainAnswered(k) \/ DrainTimesOut(k) \/ DrainMark(k)

Next ==
  \/ \E k \in Keys : Request(k) \/ LateCallArrives(k)
  \/ RetryLoop
  \/ ServeWithoutRetry
  \/ Crash
  \/ Prune

Spec == Init /\ [][Next]_vars

(***************************************************************************)
(* A retry is quiet that reads no row whose request is still running.  The *)
(* retry at boot always is; the periodic one is if it meets no request     *)
(* under way, which nothing in the code sees to (find_recoverable does not *)
(* look at a row's age).                                                   *)
(***************************************************************************)
Quiet == drain = "off" /\ drain' = "next" => \A k \in batch' : Ended(k)

QuietSpec == Init /\ [][Next /\ Quiet]_vars

-----------------------------------------------------------------------------
(***************************************************************************)
(* Safety.                                                                 *)
(***************************************************************************)

(* A row is written before the POST, and survives: whatever Sentry has     *)
(* committed, is asked or may yet be asked to commit (a thread's call, the *)
(* retry loop's, a late one) has had its row and, to ship, its label       *)
(* (shipping.py: generate_label precedes insert_pending, which precedes    *)
(* confirm_shipped / void_ship; the docstring of ship_attempts); and what  *)
(* an order stands shipped under is such a write, made for that order.     *)
WriteAhead ==
  /\ \A k \in committed \cup late \cup InFlight :
       status[k] # "none" /\ (op[k] = "ship" => label[k] # "none")
  /\ \A o \in Orders : shippedBy[o] # None =>
       shippedBy[o] \in committed /\ so[shippedBy[o]] = o /\ op[shippedBy[o]] # "void"

(* The browser is told "success", and prints the label, and the row is     *)
(* marked "success", only for a ship or link that Sentry has committed     *)
(* under this very key, whatever was lost, repeated or retried on the way, *)
(* and whichever of the two, request and retry, was the last to mark it.   *)
AcksAreTrue ==
  \A k \in Keys : op[k] # "void" /\ (told[k] = "success" \/ status[k] = "success") =>
     k \in committed

(* ship_history never records a ship that Sentry did not commit            *)
(* (_log_to_db runs only after confirm_shipped returned), nor stamps one   *)
(* voided without a void of its order that Sentry did commit.              *)
HistoryIsTrue ==
  \A k \in Keys :
    /\ history[k] # "none" => op[k] = "ship" /\ k \in committed
    /\ history[k] = "voided" => \E v \in committed : op[v] = "void" /\ so[v] = so[k]

(* A void refunds before it reverts: a void that Sentry may have been      *)
(* asked for, by the request or by any later retry of its row, has a       *)
(* refunded label (the order of operations in the docstring of void); and  *)
(* no label is refunded but by a void of its own order, although the label *)
(* cache is rewritten as a whole by ships of other orders.                 *)
RefundPrecedesRevert ==
  /\ \A k \in Keys : op[k] = "void" /\ status[k] # "none" =>
       target[k] \in Keys /\ label[target[k]] = "refunded"
  /\ \A k \in Keys : label[k] = "refunded" =>
       \E v \in Keys : op[v] = "void" /\ target[v] = k /\ so[v] = so[k]

(* A settled row says truly what became of the write: "success" of a ship  *)
(* or link means committed, "rejected" of anything means not committed,    *)
(* now and later.  Needs quiet retries and no late POST.                   *)
VerdictsAreTrue ==
  \A k \in Keys :
     /\ status[k] = "success" /\ op[k] # "void" => k \in committed
     /\ status[k] = "rejected" => k \notin committed

(* "success -- backend returned 2xx; row is now archival", "rejected -- ...*)
(* not retryable" (database.py): a settled row never changes again, unless *)
(* prune_terminal deletes it.  Needs quiet retries.                        *)
SettledIsFinal ==
  [][\A k \in Keys : Terminal(k) => status'[k] \in {status[k], "pruned"}]_vars

(***************************************************************************)
(* With quiet retries and no late POST, the table and its users implement  *)
(* the ledger that ship_attempts.py's docstring describes.                 *)
(***************************************************************************)
RecordState(k) ==
  CASE status[k] = "none" -> "none"
    [] status[k] \in {"pending", "unknown"} -> "open"
    [] status[k] = "success" -> IF k \in committed THEN "done" ELSE "moot"
    [] status[k] = "rejected" -> "refused"
    [] status[k] = "pruned" -> "forgotten"

Ledger == INSTANCE WriteLedger WITH
  Writes <- Keys,
  record <- [k \in Keys |-> RecordState(k)],
  effect <- committed,
  acked  <- {k \in Keys : told[k] = "success"}

(* Every behaviour of the detailed module is one of the ledger.            *)
ImplementsLedger == Ledger!Spec

-----------------------------------------------------------------------------
(***************************************************************************)
(* Liveness.  The server's threads run (weak fairness of the retry loop    *)
(* and of create_app), and an upstream that is asked about a row again and *)
(* again at last gives an answer that decides it (strong fairness): nothing*)
(* is assumed of the operators, of any single answer, or of crashes.       *)
(***************************************************************************)
DrainDecided(k) == DrainAnswered(k) /\ drainAnswer' \notin {"unknown", "garbled"}

Fairness ==
  /\ WF_vars(RetryLoop)
  /\ WF_vars(ServeWithoutRetry)
  /\ \A k \in Keys : SF_vars(DrainDecided(k))

FairSpec == Spec /\ Fairness

(* With the periodic retry, a pending or unknown row does not stay so for  *)
(* ever, however many rows are ahead of it ("every row with status in      *)
(* ('pending','unknown') is retried", database.py).                        *)
RecoverablesSettle == \A k \in Keys : Recoverable(k) ~> ~Recoverable(k)

(* The boot-time drain ends and the server comes up ("a bad batch cannot   *)
(* delay startup forever", find_recoverable).                              *)
BootEnds == server = "booting" ~> server = "up"

-----------------------------------------------------------------------------
(***************************************************************************)
(* What the documents say of the program and these models refute.          *)
(***************************************************************************)

(* "retry is always safe" (CHANGELOG v0.4.0), "idempotency-safe by         *)
(* construction" (retry_recoverable_attempts): the retry of a ship does    *)
(* not ship the order under a label that the operator has voided meanwhile *)
(* and was told is voided.                                                 *)
RetryIsSafe ==
  [][\A k \in committed' \ committed, v \in Keys :
       /\ drain = "wait" /\ drain' = "mark" /\ current = k
       /\ op[v] = "void" /\ told[v] = "success"
       => target[v] # k]_vars
=============================================================================
