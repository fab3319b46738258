--------------------------- MODULE ShippingProofs ---------------------------
(***************************************************************************)
(* Proofs about Shipping, for every set of keys and orders, every limit    *)
(* and every configuration.                                                *)
(*                                                                         *)
(* The inductive invariant has three parts beside the type invariant:      *)
(*   RowInv     where a row must already exist;                            *)
(*   AnswerInv  what an answer a thread holds says about Sentry;           *)
(*   LabelInv   the life of a label: bought once, cached or refunded only  *)
(*              afterwards, and never live again after a refund.           *)
(* OwnLabelInv and ShippedInv say which order a label and a ship are for.  *)
(* Two sections of their own follow: what holds when retries are quiet     *)
(* (ownership of rows, and the ledger), and the retry queue.               *)
(***************************************************************************)
EXTENDS Shipping, FiniteSetTheorems, WellFoundedInduction, TLAPS

RowInv ==
  /\ \A k \in Keys : pc[k] \in {"idle", "label", "refund", "insert"} => status[k] = "none"
  /\ \A k \in Keys : pc[k] \in {"send", "wait", "mark", "log", "reply"} => status[k] # "none"
  /\ \A k \in committed \cup late \cup batch : status[k] # "none"
  /\ drain \in {"wait", "mark"} => current \in Keys /\ status[current] # "none"

AnswerInv ==
  /\ \A k \in Keys : answer[k] = "ok" => k \in committed
  /\ \A k \in Keys : pc[k] = "log" => answer[k] = "ok"
  /\ drain = "mark" /\ drainAnswer = "ok" => current \in committed

LabelInv ==
  /\ \A k \in Keys : pc[k] \in {"idle", "label"} => label[k] = "none"
  /\ \A k \in Keys : pc[k] = "label" => op[k] = "ship"
  /\ \A k \in Keys : pc[k] = "refund" => op[k] = "void" /\ target[k] \in Keys
  /\ \A o \in Orders : cache[o] \in Keys => label[cache[o]] # "none"
  /\ \A k \in Keys : target[k] \in Keys => label[target[k]] # "none"
  /\ \A k \in Keys : op[k] = "void" /\ (pc[k] = "insert" \/ status[k] # "none") =>
       target[k] \in Keys /\ label[target[k]] = "refunded"
  /\ \A k \in Keys : op[k] = "ship" /\ (pc[k] = "insert" \/ status[k] # "none") =>
       label[k] # "none"

\* Cached, looked up or refunded, a label stays with the order it was bought for.
OwnLabelInv ==
  /\ \A k \in Keys : pc[k] = "idle" => target[k] = None
  /\ \A o \in Orders : cache[o] \in Keys => so[cache[o]] = o
  /\ \A k \in Keys : target[k] \in Keys => so[target[k]] = so[k] /\ op[k] = "void"
  /\ \A k \in Keys : label[k] = "refunded" =>
       \E v \in Keys : op[v] = "void" /\ target[v] = k /\ so[v] = so[k]

\* What an order stands shipped under.
ShippedInv ==
  \A o \in Orders : shippedBy[o] # None =>
    shippedBy[o] \in committed /\ so[shippedBy[o]] = o /\ op[shippedBy[o]] # "void"

-----------------------------------------------------------------------------
(* What the outcome of a POST makes of a row is a status the table knows.  *)
LEMMA VerdictType ==
  \A k, a : /\ Verdict(k, a) \in {"success", "rejected", "unknown"}
           /\ RetryVerdict(a) \in {"success", "rejected", "unknown"}
BY DEF Verdict, RetryVerdict

(* A POST leaves Sentry in a state of its type, whoever sent it.           *)
LEMMA ExecuteType ==
  ASSUME UpstreamTypeOK, NEW k \in Keys, NEW o \in Orders, NEW operation, NEW a,
         Execute(k, operation, o, a)
  PROVE  shippedBy' \in [Orders -> OptKey] /\ committed' \subseteq Keys
BY DEF UpstreamTypeOK, OptKey, Execute, Replay, Refuse, ShipWrite, VoidWrite, NotShipped,
       sentryVars

(* Every variable keeps its type: for any keys, orders, limit and          *)
(* configuration (the lifecycle of ship_order, void, manual_link and the   *)
(* retry loop over the ship_attempts table).                               *)
THEOREM TypeCorrect == Spec => []TypeOK
<1>1. Init => TypeOK
  BY DEF Init, TypeOK, AttemptsInit, AttemptsTypeOK, UpstreamInit, UpstreamTypeOK, OptKey,
         Statuses, PCs, Answers
<1>2. TypeOK /\ [Next]_vars => TypeOK'
  <2> SUFFICES ASSUME TypeOK, [Next]_vars PROVE TypeOK'
    OBVIOUS
  <2> USE DEF TypeOK, AttemptsTypeOK, UpstreamTypeOK
  <2>1. ASSUME NEW k \in Keys, ShipRequest(k) PROVE TypeOK'
    BY <2>1 DEF ShipRequest, PCs, attemptVars, upstreamVars, processVars, requestVars,
                localVars, drainVars
  <2>2. ASSUME NEW k \in Keys, GenerateLabel(k) PROVE TypeOK'
    BY <2>2 DEF GenerateLabel, SaveLabel, PCs, OptKey, attemptVars, sentryVars, processVars,
                requestVars, drainVars
  <2>3. ASSUME NEW k \in Keys, VoidRequest(k) PROVE TypeOK'
    BY <2>3 DEF VoidRequest, PCs, OptKey, attemptVars, upstreamVars, processVars, requestVars,
                localVars, drainVars
  <2>4. ASSUME NEW k \in Keys, RefundLabel(k) PROVE TypeOK'
    BY <2>4 DEF RefundLabel, PCs, attemptVars, sentryVars, processVars, requestVars,
                localVars, drainVars
  <2>5. ASSUME NEW k \in Keys, LinkRequest(k) PROVE TypeOK'
    BY <2>5 DEF LinkRequest, PCs, attemptVars, upstreamVars, processVars, requestVars,
                localVars, drainVars
  <2>6. ASSUME NEW k \in Keys, InsertAttempt(k) PROVE TypeOK'
    BY <2>6 DEF InsertAttempt, InsertPending, Statuses, PCs, upstreamVars, processVars,
                requestVars, localVars, drainVars
  <2>7. ASSUME NEW k \in Keys, SendCall(k) PROVE TypeOK'
    BY <2>7 DEF SendCall, PCs, attemptVars, upstreamVars, processVars, requestVars,
                localVars, drainVars
  <2>8. ASSUME NEW k \in Keys, CallAnswered(k) PROVE TypeOK'
    <3>1. shippedBy' \in [Orders -> OptKey] /\ committed' \subseteq Keys
      BY <2>8, ExecuteType DEF CallAnswered
    <3>2. answer' \in [Keys -> Answers]
      BY <2>8 DEF CallAnswered, Received, Answers
    <3> QED
      BY <2>8, <3>1, <3>2 DEF CallAnswered, PCs, attemptVars, processVars, requestVars,
                              localVars, drainVars
  <2>9. ASSUME NEW k \in Keys, CallTimesOut(k) PROVE TypeOK'
    BY <2>9 DEF CallTimesOut, Abandon, PCs, Answers, attemptVars, upstreamVars, processVars,
                requestVars, localVars, drainVars
  <2>10. ASSUME NEW k \in Keys, LateCallArrives(k) PROVE TypeOK'
    <3>1. shippedBy' \in [Orders -> OptKey] /\ committed' \subseteq Keys
      BY <2>10, ExecuteType DEF LateCallArrives
    <3> QED
      BY <2>10, <3>1 DEF LateCallArrives, attemptVars, processVars, requestVars, localVars,
                         drainVars
  <2>11. ASSUME NEW k \in Keys, MarkAttempt(k) PROVE TypeOK'
    <3>1. \A s \in Statuses : SetStatus(k, s) => AttemptsTypeOK'
      BY DEF SetStatus
    <3>2. AttemptsTypeOK'
      BY <2>11, <3>1, VerdictType DEF MarkAttempt, attemptVars, Statuses
    <3> QED
      BY <2>11, <3>2 DEF MarkAttempt, PCs, Answers, upstreamVars, processVars, requestVars,
                         localVars, drainVars
  <2>12. ASSUME NEW k \in Keys, LogHistory(k) PROVE TypeOK'
    BY <2>12 DEF LogHistory, StampVoided, PCs, attemptVars, upstreamVars, processVars,
                 requestVars, drainVars
  <2>13. ASSUME NEW k \in Keys, Reply(k) PROVE TypeOK'
    BY <2>13 DEF Reply, PCs, Answers, attemptVars, upstreamVars, processVars, requestVars,
                 localVars, drainVars
  <2>14. CASE DrainStart
    BY <2>14 DEF DrainStart, FindRecoverable, attemptVars, upstreamVars, processVars,
                 requestVars, localVars
  <2>15. ASSUME NEW k \in Keys, DrainNext(k) PROVE TypeOK'
    BY <2>15 DEF DrainNext, OptKey, attemptVars, upstreamVars, processVars, requestVars,
                 localVars
  <2>16. ASSUME NEW k \in Keys, DrainAnswered(k) PROVE TypeOK'
    <3>1. shippedBy' \in [Orders -> OptKey] /\ committed' \subseteq Keys
      BY <2>16, ExecuteType DEF DrainAnswered
    <3>2. drainAnswer' \in Answers
      BY <2>16 DEF DrainAnswered, Received, Answers
    <3> QED
      BY <2>16, <3>1, <3>2 DEF DrainAnswered, attemptVars, processVars, requestVars, localVars
  <2>17. ASSUME NEW k \in Keys, DrainTimesOut(k) PROVE TypeOK'
    BY <2>17 DEF DrainTimesOut, Abandon, Answers, attemptVars, upstreamVars, processVars,
                 requestVars, localVars
  <2>18. ASSUME NEW k \in Keys, DrainMark(k) PROVE TypeOK'
    <3>1. \A s \in Statuses : SetStatus(k, s) => AttemptsTypeOK'
      BY DEF SetStatus
    <3>2. AttemptsTypeOK'
      BY <2>18, <3>1, VerdictType DEF DrainMark, attemptVars, Statuses
    <3> QED
      BY <2>18, <3>2 DEF DrainMark, OptKey, Answers, upstreamVars, processVars, requestVars,
                         localVars
  <2>19. CASE DrainEnd
    BY <2>19 DEF DrainEnd, attemptVars, upstreamVars, requestVars, localVars
  <2>20. CASE ServeWithoutRetry
    BY <2>20 DEF ServeWithoutRetry, attemptVars, upstreamVars, requestVars, localVars,
                 drainVars
  <2>21. CASE Crash
    BY <2>21 DEF Crash, Abandon, InFlight, OptKey, PCs, Answers, attemptVars, upstreamVars,
                 requestVars, localVars
  <2>22. CASE Prune
    BY <2>22 DEF Prune, PruneTerminal, Statuses, upstreamVars, processVars, requestVars,
                 localVars, drainVars
  <2>23. CASE UNCHANGED vars
    BY <2>23 DEF vars, attemptVars, upstreamVars, processVars, requestVars, localVars,
                 drainVars
  <2> QED
    BY <2>1, <2>2, <2>3, <2>4, <2>5, <2>6, <2>7, <2>8, <2>9, <2>10, <2>11, <2>12, <2>13,
       <2>14, <2>15, <2>16, <2>17, <2>18, <2>19, <2>20, <2>21, <2>22, <2>23
       DEF Next, Request, RetryLoop
<1> QED
  BY <1>1, <1>2, PTL DEF Spec

-----------------------------------------------------------------------------
(* What a POST may do to the committed keys: nothing, or add its own; and  *)
(* "ok" is answered only for a committed key.                              *)
LEMMA ExecuteCommits ==
  ASSUME NEW k, NEW o, NEW operation, NEW a, Execute(k, operation, o, a)
  PROVE  /\ committed' = committed \/ committed' = committed \cup {k}
         /\ a = "ok" => k \in committed'
         /\ a # "ok" => committed' = committed
BY DEF Execute, Replay, Refuse, ShipWrite, VoidWrite, NotShipped, sentryVars

(* No operation on the table but insert_pending makes or unmakes the       *)
(* absence of a row that was never written.                                *)
LEMMA RowsStay ==
  ASSUME TypeOK
  PROVE  /\ \A k \in Keys, s \in Statuses \ {"none"} :
              SetStatus(k, s) => \A j \in Keys : status'[j] = "none" <=> status[j] = "none"
         /\ \A S : PruneTerminal(S) =>
              \A j \in Keys : status'[j] = "none" <=> status[j] = "none"
BY DEF TypeOK, AttemptsTypeOK, SetStatus, PruneTerminal, HasRow, Terminal

(* Where a thread, the retry loop or Sentry stands tells whether the row   *)
(* has been written.                                                       *)
THEOREM RowInvHolds == Spec => []RowInv
<1>1. Init => RowInv
  BY DEF Init, RowInv, AttemptsInit, UpstreamInit
<1>2. TypeOK /\ RowInv /\ [Next]_vars => RowInv'
  <2> SUFFICES ASSUME TypeOK, RowInv, [Next]_vars PROVE RowInv'
    OBVIOUS
  <2> USE DEF TypeOK, RowInv, attemptVars, upstreamVars, sentryVars, processVars, requestVars,
              localVars, drainVars
  <2>1. ASSUME NEW k \in Keys,
               ShipRequest(k) \/ GenerateLabel(k) \/ VoidRequest(k) \/ RefundLabel(k)
                 \/ LinkRequest(k)
        PROVE  RowInv'
    BY <2>1 DEF ShipRequest, GenerateLabel, VoidRequest, RefundLabel, LinkRequest
  <2>2. ASSUME NEW k \in Keys, InsertAttempt(k) PROVE RowInv'
    BY <2>2 DEF InsertAttempt, InsertPending, HasRow, AttemptsTypeOK
  <2>3. ASSUME NEW k \in Keys, SendCall(k) \/ LogHistory(k) \/ Reply(k) PROVE RowInv'
    BY <2>3 DEF SendCall, LogHistory, Reply
  <2>4. ASSUME NEW k \in Keys, CallAnswered(k) PROVE RowInv'
    <3>1. committed' = committed \/ committed' = committed \cup {k}
      BY <2>4, ExecuteCommits DEF CallAnswered
    <3> QED
      BY <2>4, <3>1 DEF CallAnswered
  <2>5. ASSUME NEW k \in Keys, CallTimesOut(k) PROVE RowInv'
    BY <2>5 DEF CallTimesOut, Abandon
  <2>6. ASSUME NEW k \in Keys, LateCallArrives(k) PROVE RowInv'
    <3>1. committed' = committed \/ committed' = committed \cup {k}
      BY <2>6, ExecuteCommits DEF LateCallArrives
    <3> QED
      BY <2>6, <3>1 DEF LateCallArrives
  <2>7. ASSUME NEW k \in Keys, MarkAttempt(k) PROVE RowInv'
    <3>1. \A j \in Keys : status'[j] = "none" <=> status[j] = "none"
      BY <2>7, RowsStay, VerdictType DEF MarkAttempt, Statuses
    <3> QED
      BY <2>7, <3>1 DEF MarkAttempt, UpstreamTypeOK
  <2>8. CASE DrainStart
    BY <2>8 DEF DrainStart, FindRecoverable, Recoverable
  <2>9. ASSUME NEW k \in Keys, DrainNext(k) \/ DrainTimesOut(k) PROVE RowInv'
    BY <2>9 DEF DrainNext, DrainTimesOut, Abandon
  <2>10. ASSUME NEW k \in Keys, DrainAnswered(k) PROVE RowInv'
    <3>1. committed' = committed \/ committed' = committed \cup {k}
      BY <2>10, ExecuteCommits DEF DrainAnswered
    <3> QED
      BY <2>10, <3>1 DEF DrainAnswered
  <2>11. ASSUME NEW k \in Keys, DrainMark(k) PROVE RowInv'
    <3>1. \A j \in Keys : status'[j] = "none" <=> status[j] = "none"
      BY <2>11, RowsStay, VerdictType DEF DrainMark, Statuses
    <3> QED
      BY <2>11, <3>1 DEF DrainMark, UpstreamTypeOK
  <2>12. CASE DrainEnd \/ ServeWithoutRetry
    BY <2>12 DEF DrainEnd, ServeWithoutRetry
  <2>13. CASE Crash
    BY <2>13 DEF Crash, Abandon, InFlight, Ended
  <2>14. CASE Prune
    <3>1. \A j \in Keys : status'[j] = "none" <=> status[j] = "none"
      BY <2>14, RowsStay DEF Prune
    <3> QED
      BY <2>14, <3>1 DEF Prune, UpstreamTypeOK
  <2>15. CASE UNCHANGED vars
    BY <2>15 DEF vars
  <2> QED
    BY <2>1, <2>2, <2>3, <2>4, <2>5, <2>6, <2>7, <2>8, <2>9, <2>10, <2>11, <2>12, <2>13,
       <2>14, <2>15 DEF Next, Request, RetryLoop
<1> QED
  BY <1>1, <1>2, TypeCorrect, PTL DEF Spec

-----------------------------------------------------------------------------
(* For a ship or a link, only "ok" is a success.                           *)
LEMMA SuccessMeansOk ==
  \A k, a : op[k] # "void" /\ Verdict(k, a) = "success" => a = "ok"
BY DEF Verdict

(* The retry marks a row "success" only after an "ok".                     *)
LEMMA RetrySuccessMeansOk == \A a : RetryVerdict(a) = "success" => a = "ok"
BY DEF RetryVerdict

(* What a caller sees as "ok" is an "ok" that Sentry computed.             *)
LEMMA ReceivedOk == \A a : "ok" \in Received(a) => a = "ok"
BY DEF Received

TruthInv == AnswerInv /\ AcksAreTrue /\ HistoryIsTrue

(* The answers a thread holds, what the browser is told and what           *)
(* ship_history records are backed by a commit under the same key, across  *)
(* lost and late answers, retries and restarts.                            *)
THEOREM TruthHolds == Spec => []TruthInv
<1>1. Init => TruthInv
  BY DEF Init, TruthInv, AnswerInv, AcksAreTrue, HistoryIsTrue, AttemptsInit
<1>2. TypeOK /\ TruthInv /\ [Next]_vars => TruthInv'
  <2> SUFFICES ASSUME TypeOK, TruthInv, [Next]_vars PROVE TruthInv'
    OBVIOUS
  <2> USE DEF TypeOK, TruthInv, AnswerInv, AcksAreTrue, HistoryIsTrue, attemptVars,
              upstreamVars, sentryVars, requestVars, localVars, drainVars
  <2>1. ASSUME NEW k \in Keys,
               ShipRequest(k) \/ GenerateLabel(k) \/ VoidRequest(k) \/ RefundLabel(k)
                 \/ LinkRequest(k)
        PROVE  TruthInv'
    BY <2>1 DEF ShipRequest, GenerateLabel, VoidRequest, RefundLabel, LinkRequest
  <2>2. ASSUME NEW k \in Keys, InsertAttempt(k) \/ SendCall(k) PROVE TruthInv'
    BY <2>2 DEF InsertAttempt, InsertPending, SendCall, AttemptsTypeOK
  <2>3. ASSUME NEW k \in Keys, CallAnswered(k) PROVE TruthInv'
    <3>1. /\ committed \subseteq committed'
          /\ answer'[k] = "ok" => k \in committed'
      <4>1. PICK a \in Answers : /\ Execute(k, op[k], so[k], a)
                                 /\ answer'[k] \in Received(a)
        BY <2>3 DEF CallAnswered
      <4> QED
        BY <4>1, ExecuteCommits, ReceivedOk
    <3> QED
      BY <2>3, <3>1 DEF CallAnswered
  <2>4. ASSUME NEW k \in Keys, CallTimesOut(k) PROVE TruthInv'
    BY <2>4 DEF CallTimesOut
  <2>5. ASSUME NEW k \in Keys, LateCallArrives(k) PROVE TruthInv'
    <3>1. committed \subseteq committed'
      BY <2>5, ExecuteCommits DEF LateCallArrives
    <3> QED
      BY <2>5, <3>1 DEF LateCallArrives
  <2>6. ASSUME NEW k \in Keys, MarkAttempt(k) PROVE TruthInv'
    <3>1. \A j \in Keys : op[j] # "void" /\ status'[j] = "success" => j \in committed
      BY <2>6, SuccessMeansOk DEF MarkAttempt, SetStatus, AttemptsTypeOK
    <3> QED
      BY <2>6, <3>1 DEF MarkAttempt
  <2>7. ASSUME NEW k \in Keys, LogHistory(k) PROVE TruthInv'
    BY <2>7 DEF LogHistory, StampVoided
  <2>8. ASSUME NEW k \in Keys, Reply(k) PROVE TruthInv'
    <3>1. Verdict(k, answer[k]) = "success" /\ op[k] # "void" => k \in committed
      BY SuccessMeansOk
    <3> QED
      BY <2>8, <3>1 DEF Reply
  <2>9. ASSUME NEW k \in Keys, DrainAnswered(k) PROVE TruthInv'
    <3>1. /\ committed \subseteq committed'
          /\ drainAnswer' = "ok" => k \in committed'
      <4>1. PICK a \in Answers : Execute(k, op[k], so[k], a) /\ drainAnswer' \in Received(a)
        BY <2>9 DEF DrainAnswered
      <4> QED
        BY <4>1, ExecuteCommits, ReceivedOk
    <3> QED
      BY <2>9, <3>1 DEF DrainAnswered
  <2>10. ASSUME NEW k \in Keys, DrainNext(k) \/ DrainTimesOut(k) PROVE TruthInv'
    BY <2>10 DEF DrainNext, DrainTimesOut
  <2>11. ASSUME NEW k \in Keys, DrainMark(k) PROVE TruthInv'
    <3>1. \A j \in Keys : op[j] # "void" /\ status'[j] = "success" => j \in committed
      BY <2>11, RetrySuccessMeansOk DEF DrainMark, SetStatus, AttemptsTypeOK
    <3> QED
      BY <2>11, <3>1 DEF DrainMark
  <2>12. CASE DrainStart \/ DrainEnd \/ ServeWithoutRetry
    BY <2>12 DEF DrainStart, DrainEnd, ServeWithoutRetry
  <2>13. CASE Crash
    BY <2>13 DEF Crash, Ended
  <2>14. CASE Prune
    BY <2>14 DEF Prune, PruneTerminal
  <2>15. CASE UNCHANGED vars
    BY <2>15 DEF vars
  <2> QED
    BY <2>1, <2>2, <2>3, <2>4, <2>5, <2>6, <2>7, <2>8, <2>9, <2>10, <2>11, <2>12, <2>13,
       <2>14, <2>15 DEF Next, Request, RetryLoop
<1> QED
  BY <1>1, <1>2, TypeCorrect, PTL DEF Spec

(* The browser is told of a successful ship or link, and prints its label, *)
(* only when Sentry has committed it; and so is the row marked, whatever   *)
(* the configuration, by the request and by every retry.                   *)
THEOREM AcksHold == Spec => []AcksAreTrue
<1>1. TruthInv => AcksAreTrue
  BY DEF TruthInv
<1> QED
  BY <1>1, TruthHolds, PTL

(* ship_history records only ships that Sentry has committed, and voids of *)
(* them only when Sentry has committed one of that order.                  *)
THEOREM HistoryHolds == Spec => []HistoryIsTrue
<1>1. TruthInv => HistoryIsTrue
  BY DEF TruthInv
<1> QED
  BY <1>1, TruthHolds, PTL

-----------------------------------------------------------------------------
(* A label is bought once and never lives again after its refund; a void   *)
(* that has reached its row has had its label refunded.                    *)
THEOREM LabelInvHolds == Spec => []LabelInv
<1>1. Init => LabelInv
  BY KeysAssumption DEF Init, LabelInv, AttemptsInit, UpstreamInit
<1>2. TypeOK /\ RowInv /\ LabelInv /\ [Next]_vars => LabelInv'
  <2> SUFFICES ASSUME TypeOK, RowInv, LabelInv, [Next]_vars PROVE LabelInv'
    OBVIOUS
  <2> USE DEF TypeOK, UpstreamTypeOK, LabelInv, attemptVars, upstreamVars, sentryVars,
              requestVars, localVars
  <2>1. ASSUME NEW k \in Keys, ShipRequest(k) \/ LinkRequest(k) PROVE LabelInv'
    BY <2>1 DEF ShipRequest, LinkRequest
  <2>2. ASSUME NEW k \in Keys, GenerateLabel(k) PROVE LabelInv'
    <3>1. label[k] = "none" /\ op[k] = "ship" /\ label' \in [Keys -> {"none", "live", "refunded"}]
      BY <2>2 DEF GenerateLabel
    <3>2. \A j \in Keys \ {k} : label'[j] = label[j]
      BY <2>2 DEF GenerateLabel
    <3>3. \A o \in Orders : cache'[o] \in Keys => label'[cache'[o]] # "none"
      BY <2>2, <3>1, <3>2, KeysAssumption DEF GenerateLabel, SaveLabel, Sold
    <3> QED
      BY <2>2, <3>1, <3>2, <3>3 DEF GenerateLabel
  <2>3. ASSUME NEW k \in Keys, VoidRequest(k) PROVE LabelInv'
    <3>1. status[k] = "none"
      BY <2>3 DEF VoidRequest, RowInv
    <3> QED
      BY <2>3, <3>1 DEF VoidRequest, OptKey
  <2>4. ASSUME NEW k \in Keys, RefundLabel(k) PROVE LabelInv'
    <3>1. target[k] \in Keys /\ \A j \in Keys : label[j] = "none" => j # target[k]
      BY <2>4 DEF RefundLabel
    <3> QED
      BY <2>4, <3>1 DEF RefundLabel
  <2>5. ASSUME NEW k \in Keys, InsertAttempt(k) PROVE LabelInv'
    BY <2>5 DEF InsertAttempt, InsertPending, AttemptsTypeOK
  <2>6. ASSUME NEW k \in Keys,
               SendCall(k) \/ CallAnswered(k) \/ CallTimesOut(k) \/ LateCallArrives(k)
                 \/ LogHistory(k) \/ Reply(k) \/ DrainNext(k) \/ DrainAnswered(k)
                 \/ DrainTimesOut(k)
        PROVE  LabelInv'
    BY <2>6 DEF SendCall, CallAnswered, CallTimesOut, LateCallArrives, LogHistory, Reply,
                DrainNext, DrainAnswered, DrainTimesOut
  <2>7. ASSUME NEW k \in Keys, MarkAttempt(k) \/ DrainMark(k) PROVE LabelInv'
    <3>1. \A j \in Keys : status'[j] = "none" <=> status[j] = "none"
      BY <2>7, RowsStay, VerdictType DEF MarkAttempt, DrainMark, Statuses
    <3> QED
      BY <2>7, <3>1 DEF MarkAttempt, DrainMark
  <2>8. CASE DrainStart \/ DrainEnd \/ ServeWithoutRetry
    BY <2>8 DEF DrainStart, DrainEnd, ServeWithoutRetry
  <2>9. CASE Crash
    BY <2>9 DEF Crash, Ended
  <2>10. CASE Prune
    <3>1. \A j \in Keys : status'[j] = "none" <=> status[j] = "none"
      BY <2>10, RowsStay DEF Prune
    <3> QED
      BY <2>10, <3>1 DEF Prune
  <2>11. CASE UNCHANGED vars
    BY <2>11 DEF vars
  <2> QED
    BY <2>1, <2>2, <2>3, <2>4, <2>5, <2>6, <2>7, <2>8, <2>9, <2>10, <2>11
       DEF Next, Request, RetryLoop
<1> QED
  BY <1>1, <1>2, TypeCorrect, RowInvHolds, PTL DEF Spec

(* A label is cached for, looked up by and refunded for the order it was   *)
(* bought for, and no other, though every save rewrites the whole cache.   *)
THEOREM OwnLabelInvHolds == Spec => []OwnLabelInv
<1>1. Init => OwnLabelInv
  BY KeysAssumption DEF Init, OwnLabelInv, UpstreamInit
<1>2. TypeOK /\ LabelInv /\ OwnLabelInv /\ [Next]_vars => OwnLabelInv'
  <2> SUFFICES ASSUME TypeOK, LabelInv, OwnLabelInv, [Next]_vars PROVE OwnLabelInv'
    OBVIOUS
  <2> USE KeysAssumption DEF TypeOK, UpstreamTypeOK, OwnLabelInv, upstreamVars, sentryVars,
              requestVars, localVars
  <2>1. ASSUME NEW k \in Keys, GenerateLabel(k) PROVE OwnLabelInv'
    <3>1. label[k] = "none" /\ label'[k] # "refunded"
      BY <2>1 DEF GenerateLabel, LabelInv
    <3>2. \A j \in Keys \ {k} : label'[j] = label[j]
      BY <2>1 DEF GenerateLabel
    <3>3. \A o \in Orders : cache'[o] \in Keys => so[cache'[o]] = o
      BY <2>1 DEF GenerateLabel, SaveLabel, Sold
    <3> QED
      BY <2>1, <3>1, <3>2, <3>3 DEF GenerateLabel
  <2>2. ASSUME NEW k \in Keys, VoidRequest(k) PROVE OwnLabelInv'
    <3>1. target[k] = None /\ \A j \in Keys \ {k} : target'[j] = target[j]
      BY <2>2 DEF VoidRequest
    <3>2. target'[k] \in Keys => so[target'[k]] = so[k] /\ op[k] = "void"
      BY <2>2 DEF VoidRequest
    <3> QED
      BY <2>2, <3>1, <3>2 DEF VoidRequest
  <2>3. ASSUME NEW k \in Keys, RefundLabel(k) PROVE OwnLabelInv'
    <3>1. target[k] \in Keys /\ op[k] = "void" /\ so[target[k]] = so[k]
      BY <2>3 DEF RefundLabel, LabelInv
    <3>2. \A j \in Keys : label'[j] = label[j] \/ j = target[k]
      BY <2>3, <3>1 DEF RefundLabel
    <3> QED
      BY <2>3, <3>1, <3>2 DEF RefundLabel
  <2>4. CASE UNCHANGED <<label, cache, target, op, so>>
             /\ \A k \in Keys : pc'[k] = "idle" => pc[k] = "idle"
    BY <2>4
  <2>5. ASSUME NEW k \in Keys,
               ShipRequest(k) \/ LinkRequest(k) \/ InsertAttempt(k) \/ SendCall(k)
                 \/ CallAnswered(k) \/ CallTimesOut(k) \/ MarkAttempt(k) \/ LogHistory(k)
                 \/ Reply(k) \/ LateCallArrives(k)
        PROVE  OwnLabelInv'
    BY <2>4, <2>5 DEF ShipRequest, LinkRequest, InsertAttempt, SendCall, CallAnswered,
                      CallTimesOut, MarkAttempt, LogHistory, Reply, LateCallArrives
  <2>6. CASE RetryLoop \/ ServeWithoutRetry \/ Prune \/ UNCHANGED vars
    BY <2>4, <2>6 DEF RetryLoop, DrainStart, DrainNext, DrainAnswered, DrainTimesOut,
                      DrainMark, DrainEnd, ServeWithoutRetry, Prune, vars
  <2>7. CASE Crash
    BY <2>4, <2>7 DEF Crash, Ended
  <2> QED
    BY <2>1, <2>2, <2>3, <2>5, <2>6, <2>7 DEF Next, Request
<1> QED
  BY <1>1, <1>2, TypeCorrect, LabelInvHolds, PTL DEF Spec

(* No void is asked of Sentry, by void or by a retry of its row, without a *)
(* refunded label; and no label is refunded but by a void of its order.    *)
THEOREM RefundsPrecede == Spec => []RefundPrecedesRevert
<1>1. LabelInv /\ OwnLabelInv => RefundPrecedesRevert
  BY DEF LabelInv, OwnLabelInv, RefundPrecedesRevert
<1> QED
  BY <1>1, LabelInvHolds, OwnLabelInvHolds, PTL

-----------------------------------------------------------------------------
(* What a POST does to the order it is about, and to no other.             *)
LEMMA ExecuteShips ==
  ASSUME UpstreamTypeOK, NEW k \in Keys, NEW o \in Orders, NEW a, Execute(k, op[k], o, a)
  PROVE  /\ committed \subseteq committed'
         /\ \A q \in Orders :
              \/ shippedBy'[q] \in {shippedBy[q], None}
              \/ q = o /\ shippedBy'[q] = k /\ k \in committed' /\ op[k] # "void"
BY DEF UpstreamTypeOK, Execute, Replay, Refuse, ShipWrite, VoidWrite, NotShipped, sentryVars

(* An order stands shipped under a committed ship or link of its own.      *)
THEOREM ShippedInvHolds == Spec => []ShippedInv
<1>1. Init => ShippedInv
  BY DEF Init, ShippedInv, UpstreamInit
<1>2. TypeOK /\ RowInv /\ ShippedInv /\ [Next]_vars => ShippedInv'
  <2> SUFFICES ASSUME TypeOK, RowInv, ShippedInv, [Next]_vars PROVE ShippedInv'
    OBVIOUS
  <2>1. ASSUME NEW k \in Keys, CallAnswered(k) \/ LateCallArrives(k) \/ DrainAnswered(k)
        PROVE  ShippedInv'
    <3>1. UpstreamTypeOK /\ so[k] \in Orders
      BY DEF TypeOK
    <3>2. \E a \in Answers : Execute(k, op[k], so[k], a)
      BY <2>1 DEF CallAnswered, LateCallArrives, DrainAnswered
    <3>3. /\ committed \subseteq committed'
          /\ \A q \in Orders :
               \/ shippedBy'[q] \in {shippedBy[q], None}
               \/ q = so[k] /\ shippedBy'[q] = k /\ k \in committed' /\ op[k] # "void"
      BY <3>1, <3>2, ExecuteShips
    <3>4. UNCHANGED <<op, so>>
      BY <2>1 DEF CallAnswered, LateCallArrives, DrainAnswered, requestVars
    <3> QED
      BY <3>3, <3>4 DEF ShippedInv
  <2>2. CASE UNCHANGED <<shippedBy, committed, op, so>>
    BY <2>2 DEF ShippedInv
  <2> QED
    BY <2>1, <2>2
       DEF Next, Request, RetryLoop, ShipRequest, GenerateLabel, VoidRequest, RefundLabel,
           LinkRequest, InsertAttempt, SendCall, CallTimesOut, MarkAttempt, LogHistory, Reply,
           DrainStart, DrainNext, DrainTimesOut, DrainMark, DrainEnd, ServeWithoutRetry, Crash,
           Prune, upstreamVars, sentryVars, requestVars, vars
<1> QED
  BY <1>1, <1>2, TypeCorrect, RowInvHolds, PTL DEF Spec

(* Write-ahead: no POST of ship_order, void, manual_link or of the retry   *)
(* loop, under way, lost, late or committed, is without its row, nor one   *)
(* that ships without its label; and no order stands shipped but under a   *)
(* write of its own.                                                       *)
THEOREM RowsPrecedeWrites == Spec => []WriteAhead
<1>1. TypeOK /\ RowInv /\ LabelInv /\ ShippedInv => WriteAhead
  <2> SUFFICES ASSUME TypeOK, RowInv, LabelInv, ShippedInv PROVE WriteAhead
    OBVIOUS
  <2>1. \A k \in committed \cup late \cup InFlight : k \in Keys /\ status[k] # "none"
    BY DEF TypeOK, UpstreamTypeOK, RowInv, InFlight
  <2> QED
    BY <2>1 DEF LabelInv, ShippedInv, WriteAhead
<1> QED
  BY <1>1, TypeCorrect, RowInvHolds, LabelInvHolds, ShippedInvHolds, PTL

-----------------------------------------------------------------------------
(***************************************************************************)
(* With quiet retries and without late POSTs, Shipping implements          *)
(* WriteLedger: for every set of keys and orders, every limit, any number  *)
(* of crashes, with or without the retry at boot, the periodic retry and   *)
(* pruning.                                                                *)
(*                                                                         *)
(* The argument is ownership.  A row that is not settled is written by one *)
(* thread at a time: its own request while that runs, and afterwards the   *)
(* retry loop that read the row.  Hence OwnerInv: what a retry holds is    *)
(* not settled and its request has ended, no request runs while the server *)
(* boots, and a request that still has to mark its row finds it pending.   *)
(* TrueInv says what a row's status, and an answer about to be written to  *)
(* it, imply about Sentry.                                                 *)
(***************************************************************************)
OwnerInv ==
  /\ server = "booting" => \A k \in Keys : Ended(k)
  /\ \A k \in Keys : pc[k] \in {"send", "wait", "mark"} => status[k] = "pending"
  /\ \A k \in Keys : pc[k] \in {"log", "reply"} => status[k] = Verdict(k, answer[k])
  /\ drain = "off" => batch = {}
  /\ \A k \in batch : Recoverable(k) /\ Ended(k)
  /\ drain \in {"wait", "mark"} =>
       current \in Keys \ batch /\ Recoverable(current) /\ Ended(current)
  /\ \A k \in Keys : told[k] = "success" => pc[k] = "done"

TrueInv ==
  /\ late = {}
  /\ VerdictsAreTrue
  /\ \A k \in Keys : pc[k] = "mark" /\ answer[k] \in {"not_shipped", "rejected"} =>
       k \notin committed
  /\ drain = "mark" /\ drainAnswer \in {"not_shipped", "rejected"} => current \notin committed
  /\ drain = "mark" /\ drainAnswer = "ok" => current \in committed

LedgerInv == TypeOK /\ RowInv /\ TruthInv /\ OwnerInv /\ TrueInv

-----------------------------------------------------------------------------
(* Quiet retries only restrict when the retry loop starts.                 *)
LEMMA QuietIsSpec == QuietSpec => Spec
<1>1. [Next /\ Quiet]_vars => [Next]_vars
  OBVIOUS
<1> QED
  BY <1>1, PTL DEF QuietSpec, Spec

(* While create_app runs no request does, so the retry at boot is quiet: a *)
(* server without the periodic retry has quiet retries only.               *)
THEOREM BootRetryIsQuiet == ASSUME ~PollRetry PROVE Spec => QuietSpec
<1> DEFINE BootInv == server = "booting" => \A k \in Keys : Ended(k)
<1>1. Init => BootInv
  BY DEF Init, Ended
<1>2. TypeOK /\ BootInv /\ [Next]_vars => BootInv'
  BY DEF TypeOK, Next, Request, RetryLoop, ShipRequest, GenerateLabel, VoidRequest,
         RefundLabel, LinkRequest, InsertAttempt, SendCall, CallAnswered, CallTimesOut,
         LateCallArrives, MarkAttempt, LogHistory, Reply, DrainStart, DrainNext,
         DrainAnswered, DrainTimesOut, DrainMark, DrainEnd, ServeWithoutRetry, Crash, Prune,
         Ended, processVars, vars
<1>3. TypeOK /\ BootInv /\ [Next]_vars => [Next /\ Quiet]_vars
  <2> SUFFICES ASSUME TypeOK, BootInv, Next, drain = "off", drain' = "next"
               PROVE  \A k \in batch' : Ended(k)
    BY DEF Quiet
  <2>1. DrainStart
    BY DEF Next, Request, RetryLoop, ShipRequest, GenerateLabel, VoidRequest, RefundLabel,
           LinkRequest, InsertAttempt, SendCall, CallAnswered, CallTimesOut, LateCallArrives,
           MarkAttempt, LogHistory, Reply, DrainNext, DrainAnswered, DrainTimesOut, DrainMark,
           DrainEnd, ServeWithoutRetry, Crash, Prune, drainVars
  <2> QED
    BY <2>1 DEF DrainStart, FindRecoverable, TypeOK
<1> QED
  BY <1>1, <1>2, <1>3, TypeCorrect, PTL DEF Spec, QuietSpec

(* A row that is marked becomes what the outcome makes of it, and no other *)
(* row changes.                                                            *)
LEMMA MarkOne ==
  ASSUME TypeOK, NEW k \in Keys, HasRow(k), NEW s, SetStatus(k, s)
  PROVE  status' = [status EXCEPT ![k] = s]
BY DEF SetStatus

(* Each row is written by one owner at a time: its request or the retry.   *)
THEOREM OwnerInvHolds == QuietSpec => []OwnerInv
<1>1. Init => OwnerInv
  BY DEF Init, OwnerInv, Ended
<1>2. TypeOK /\ RowInv /\ OwnerInv /\ [Next /\ Quiet]_vars => OwnerInv'
  <2> SUFFICES ASSUME TypeOK, RowInv, OwnerInv, [Next /\ Quiet]_vars PROVE OwnerInv'
    OBVIOUS
  <2> USE DEF TypeOK, AttemptsTypeOK, OwnerInv, Ended, Recoverable, Verdict, attemptVars,
              upstreamVars, sentryVars, processVars, requestVars, localVars, drainVars
  <2>1. ASSUME NEW k \in Keys,
               ShipRequest(k) \/ GenerateLabel(k) \/ VoidRequest(k) \/ RefundLabel(k)
                 \/ LinkRequest(k)
        PROVE  OwnerInv'
    BY <2>1 DEF ShipRequest, GenerateLabel, VoidRequest, RefundLabel, LinkRequest, RowInv
  <2>2. ASSUME NEW k \in Keys, InsertAttempt(k) PROVE OwnerInv'
    BY <2>2 DEF InsertAttempt, InsertPending, HasRow, RowInv
  <2>3. ASSUME NEW k \in Keys, SendCall(k) \/ LogHistory(k) PROVE OwnerInv'
    BY <2>3 DEF SendCall, LogHistory
  <2>4. ASSUME NEW k \in Keys, CallAnswered(k) PROVE OwnerInv'
    BY <2>4 DEF CallAnswered
  <2>5. ASSUME NEW k \in Keys, CallTimesOut(k) PROVE OwnerInv'
    BY <2>5 DEF CallTimesOut
  <2>6. ASSUME NEW k \in Keys, MarkAttempt(k) PROVE OwnerInv'
    <3>1. CASE answer[k] = "garbled"
      BY <2>6, <3>1 DEF MarkAttempt
    <3>2. CASE answer[k] # "garbled"
      <4>1. status' = [status EXCEPT ![k] = Verdict(k, answer[k])]
        BY <2>6, <3>2, MarkOne DEF MarkAttempt, HasRow
      <4>2. k \notin batch /\ (drain \in {"wait", "mark"} => current # k)
        BY <2>6 DEF MarkAttempt
      <4> QED
        BY <2>6, <3>2, <4>1, <4>2 DEF MarkAttempt
    <3> QED
      BY <3>1, <3>2
  <2>7. ASSUME NEW k \in Keys, Reply(k) PROVE OwnerInv'
    BY <2>7 DEF Reply
  <2>8. CASE DrainStart
    <3>1. Quiet
      BY DEF Quiet, vars
    <3> QED
      BY <2>8, <3>1 DEF DrainStart, FindRecoverable, Quiet
  <2>9. ASSUME NEW k \in Keys, DrainNext(k) \/ DrainAnswered(k) PROVE OwnerInv'
    BY <2>9 DEF DrainNext, DrainAnswered
  <2>10. ASSUME NEW k \in Keys, DrainTimesOut(k) PROVE OwnerInv'
    BY <2>10 DEF DrainTimesOut
  <2>11. ASSUME NEW k \in Keys, DrainMark(k) PROVE OwnerInv'
    <3>1. \A j \in Keys : j # k => status'[j] = status[j]
      BY <2>11 DEF DrainMark, SetStatus
    <3> QED
      BY <2>11, <3>1 DEF DrainMark
  <2>12. CASE DrainEnd \/ ServeWithoutRetry
    BY <2>12 DEF DrainEnd, ServeWithoutRetry
  <2>13. CASE Crash
    BY <2>13 DEF Crash
  <2>14. CASE Prune
    BY <2>14 DEF Prune, PruneTerminal, Terminal
  <2>15. ASSUME NEW k \in Keys, LateCallArrives(k) PROVE OwnerInv'
    BY <2>15 DEF LateCallArrives
  <2>16. CASE UNCHANGED vars
    BY <2>16 DEF vars
  <2> QED
    BY <2>1, <2>2, <2>3, <2>4, <2>5, <2>6, <2>7, <2>8, <2>9, <2>10, <2>11, <2>12, <2>13,
       <2>14, <2>15, <2>16 DEF Next, Request, RetryLoop
<1> QED
  BY <1>1, <1>2, QuietIsSpec, TypeCorrect, RowInvHolds, PTL DEF QuietSpec

-----------------------------------------------------------------------------
(* A refusal that a caller sees is the one Sentry computed, and Sentry     *)
(* refuses only a key that has not committed.                              *)
LEMMA RefusalMeans ==
  /\ \A a, r : r \in Received(a) /\ r \in {"not_shipped", "rejected"} => a = r
  /\ \A k, operation, o, a :
       Execute(k, operation, o, a) /\ a \in {"not_shipped", "rejected"} => k \notin committed'
BY DEF Received, Execute, Replay, Refuse, ShipWrite, VoidWrite, NotShipped, sentryVars

(* What a mark writes: nothing but an "ok" or a void of an order that is   *)
(* not shipped is a success, and nothing but a refusal is "rejected".      *)
LEMMA VerdictMeans ==
  \A k, a : /\ Verdict(k, a) = "success" /\ op[k] # "void" => a = "ok"
            /\ Verdict(k, a) = "rejected" => a \in {"not_shipped", "rejected"}
            /\ RetryVerdict(a) = "success" => a = "ok"
            /\ RetryVerdict(a) = "rejected" => a \in {"not_shipped", "rejected"}
BY DEF Verdict, RetryVerdict

(* "success" means committed and "rejected" means not committed.           *)
THEOREM TrueInvHolds == ASSUME ~LateCalls PROVE QuietSpec => []TrueInv
<1>1. Init => TrueInv
  BY DEF Init, TrueInv, VerdictsAreTrue, AttemptsInit, UpstreamInit
<1>2. TypeOK /\ RowInv /\ AnswerInv /\ OwnerInv /\ TrueInv /\ [Next /\ Quiet]_vars => TrueInv'
  <2> SUFFICES ASSUME TypeOK, RowInv, AnswerInv, OwnerInv, TrueInv, [Next /\ Quiet]_vars
               PROVE  TrueInv'
    OBVIOUS
  <2> USE DEF TypeOK, AttemptsTypeOK, TrueInv, VerdictsAreTrue, attemptVars, upstreamVars,
              sentryVars, processVars, requestVars, localVars, drainVars
  <2>1. ASSUME NEW k \in Keys,
               ShipRequest(k) \/ GenerateLabel(k) \/ VoidRequest(k) \/ RefundLabel(k)
                 \/ LinkRequest(k)
        PROVE  TrueInv'
    BY <2>1 DEF ShipRequest, GenerateLabel, VoidRequest, RefundLabel, LinkRequest
  <2>2. ASSUME NEW k \in Keys, InsertAttempt(k) PROVE TrueInv'
    BY <2>2 DEF InsertAttempt, InsertPending
  <2>3. ASSUME NEW k \in Keys, SendCall(k) \/ LogHistory(k) \/ Reply(k) PROVE TrueInv'
    BY <2>3 DEF SendCall, LogHistory, Reply
  <2>4. ASSUME NEW k \in Keys, CallAnswered(k) PROVE TrueInv'
    <3>1. PICK a \in Answers : Execute(k, op[k], so[k], a) /\ answer'[k] \in Received(a)
      BY <2>4 DEF CallAnswered
    <3>2. /\ committed' = committed \/ committed' = committed \cup {k}
          /\ a # "ok" => committed' = committed
      BY <3>1, ExecuteCommits
    <3>3. answer'[k] \in {"not_shipped", "rejected"} => k \notin committed'
      BY <3>1, RefusalMeans
    <3>4. status[k] = "pending" /\ (drain = "mark" => current # k)
      BY <2>4 DEF CallAnswered, OwnerInv, Ended
    <3> QED
      BY <2>4, <3>2, <3>3, <3>4 DEF CallAnswered
  <2>5. ASSUME NEW k \in Keys, CallTimesOut(k) PROVE TrueInv'
    BY <2>5 DEF CallTimesOut, Abandon
  <2>6. ASSUME NEW k \in Keys, MarkAttempt(k) PROVE TrueInv'
    <3>1. CASE answer[k] = "garbled"
      BY <2>6, <3>1 DEF MarkAttempt
    <3>2. CASE answer[k] # "garbled"
      <4>1. status' = [status EXCEPT ![k] = Verdict(k, answer[k])]
        BY <2>6, <3>2, MarkOne DEF MarkAttempt, HasRow, OwnerInv
      <4>2. /\ Verdict(k, answer[k]) = "success" /\ op[k] # "void" => k \in committed
            /\ Verdict(k, answer[k]) = "rejected" => k \notin committed
        BY <2>6, VerdictMeans DEF MarkAttempt, AnswerInv
      <4> QED
        BY <2>6, <3>2, <4>1, <4>2 DEF MarkAttempt
    <3> QED
      BY <3>1, <3>2
  <2>7. ASSUME NEW k \in Keys, DrainAnswered(k) PROVE TrueInv'
    <3>1. PICK a \in Answers : Execute(k, op[k], so[k], a) /\ drainAnswer' \in Received(a)
      BY <2>7 DEF DrainAnswered
    <3>2. /\ committed' = committed \/ committed' = committed \cup {k}
          /\ a # "ok" => committed' = committed
          /\ a = "ok" => k \in committed'
      BY <3>1, ExecuteCommits
    <3>3. drainAnswer' \in {"not_shipped", "rejected"} => k \notin committed'
      BY <3>1, RefusalMeans
    <3>4. drainAnswer' = "ok" => k \in committed'
      BY <3>1, <3>2, ReceivedOk
    <3>5. status[k] # "rejected" /\ Ended(k)
      BY <2>7 DEF DrainAnswered, OwnerInv, Recoverable
    <3> QED
      BY <2>7, <3>2, <3>3, <3>4, <3>5 DEF DrainAnswered, Ended
  <2>8. ASSUME NEW k \in Keys, DrainMark(k) PROVE TrueInv'
    <3>1. CASE drainAnswer = "garbled"
      BY <2>8, <3>1 DEF DrainMark
    <3>2. CASE drainAnswer # "garbled"
      <4>1. status' = [status EXCEPT ![k] = RetryVerdict(drainAnswer)]
        BY <2>8, <3>2, MarkOne DEF DrainMark, HasRow, OwnerInv, Recoverable
      <4>2. /\ RetryVerdict(drainAnswer) = "success" => k \in committed
            /\ RetryVerdict(drainAnswer) = "rejected" => k \notin committed
        BY <2>8, VerdictMeans DEF DrainMark
      <4> QED
        BY <2>8, <3>2, <4>1, <4>2 DEF DrainMark
    <3> QED
      BY <3>1, <3>2
  <2>9. ASSUME NEW k \in Keys, DrainNext(k) \/ DrainTimesOut(k) PROVE TrueInv'
    BY <2>9 DEF DrainNext, DrainTimesOut, Abandon
  <2>10. CASE DrainStart \/ DrainEnd \/ ServeWithoutRetry
    BY <2>10 DEF DrainStart, DrainEnd, ServeWithoutRetry
  <2>11. CASE Crash
    BY <2>11 DEF Crash, Ended, Abandon
  <2>12. CASE Prune
    BY <2>12 DEF Prune, PruneTerminal, Terminal
  <2>13. ASSUME NEW k \in Keys, LateCallArrives(k) PROVE TrueInv'
    BY <2>13 DEF LateCallArrives
  <2>14. CASE UNCHANGED vars
    BY <2>14 DEF vars
  <2> QED
    BY <2>1, <2>2, <2>3, <2>4, <2>5, <2>6, <2>7, <2>8, <2>9, <2>10, <2>11, <2>12, <2>13,
       <2>14 DEF Next, Request, RetryLoop
<1>3. TruthInv => AnswerInv
  BY DEF TruthInv
<1> QED
  BY <1>1, <1>2, <1>3, QuietIsSpec, TypeCorrect, RowInvHolds, TruthHolds, OwnerInvHolds, PTL
     DEF QuietSpec

(* A settled row says truly what became of the write upstream, across      *)
(* lost answers, crashes, the retry at boot and any quiet periodic retry.  *)
THEOREM VerdictsWhenQuiet == ASSUME ~LateCalls PROVE QuietSpec => []VerdictsAreTrue
<1>1. TrueInv => VerdictsAreTrue
  BY DEF TrueInv
<1> QED
  BY <1>1, TrueInvHolds, PTL

(* In particular on a server that retries at boot only.                    *)
COROLLARY VerdictsHold == ASSUME ~PollRetry, ~LateCalls PROVE Spec => []VerdictsAreTrue
BY VerdictsWhenQuiet, BootRetryIsQuiet

-----------------------------------------------------------------------------
(* The table's invariants together, as the steps below use them.           *)
THEOREM LedgerInvHolds == ASSUME ~LateCalls PROVE QuietSpec => []LedgerInv
BY QuietIsSpec, TypeCorrect, RowInvHolds, TruthHolds, OwnerInvHolds, TrueInvHolds, PTL
   DEF LedgerInv

(* Marking: whoever marks a row holds an open one, which it leaves open or *)
(* settles with what is true of the write.                                 *)
LEMMA MarkStep ==
  ASSUME LedgerInv, NEW k \in Keys, MarkAttempt(k) \/ DrainMark(k)
  PROVE  /\ Recoverable(k)
         /\ \E s \in {"pending", "unknown", "success", "rejected"} :
              /\ status' = [status EXCEPT ![k] = s]
              /\ s = "success" /\ op[k] # "void" => k \in committed
              /\ s = "rejected" => k \notin committed
<1> USE DEF LedgerInv, TypeOK, AttemptsTypeOK
<1>1. Recoverable(k)
  BY DEF OwnerInv, MarkAttempt, DrainMark, Recoverable
<1>2. HasRow(k)
  BY <1>1 DEF HasRow, Recoverable
<1>3. CASE MarkAttempt(k)
  <2>1. CASE answer[k] = "garbled"
    BY <1>1, <1>3, <2>1 DEF MarkAttempt, attemptVars, Recoverable
  <2>2. CASE answer[k] # "garbled"
    <3>1. status' = [status EXCEPT ![k] = Verdict(k, answer[k])]
      BY <1>2, <1>3, <2>2, MarkOne DEF MarkAttempt
    <3>2. /\ Verdict(k, answer[k]) = "success" /\ op[k] # "void" => k \in committed
          /\ Verdict(k, answer[k]) = "rejected" => k \notin committed
      BY <1>3, VerdictMeans DEF MarkAttempt, TruthInv, AnswerInv, TrueInv
    <3> QED
      BY <1>1, <3>1, <3>2, VerdictType
  <2> QED
    BY <2>1, <2>2
<1>4. CASE DrainMark(k)
  <2>1. CASE drainAnswer = "garbled"
    BY <1>1, <1>4, <2>1 DEF DrainMark, attemptVars, Recoverable
  <2>2. CASE drainAnswer # "garbled"
    <3>1. status' = [status EXCEPT ![k] = RetryVerdict(drainAnswer)]
      BY <1>2, <1>4, <2>2, MarkOne DEF DrainMark
    <3>2. /\ RetryVerdict(drainAnswer) = "success" => k \in committed
          /\ RetryVerdict(drainAnswer) = "rejected" => k \notin committed
      BY <1>4, VerdictMeans DEF DrainMark, TrueInv
    <3> QED
      BY <1>1, <3>1, <3>2, VerdictType
  <2> QED
    BY <2>1, <2>2
<1> QED
  BY <1>3, <1>4

(* "Row is now archival", "not retryable": a settled row never changes     *)
(* again but by pruning.  Late POSTs do not matter here.                   *)
THEOREM SettledWhenQuiet == QuietSpec => SettledIsFinal
<1> DEFINE Final == \A k \in Keys : Terminal(k) => status'[k] \in {status[k], "pruned"}
<1>1. TypeOK /\ OwnerInv /\ [Next /\ Quiet]_vars => [Final]_vars
  <2> SUFFICES ASSUME TypeOK, OwnerInv, Next PROVE Final
    OBVIOUS
  <2> USE DEF TypeOK, AttemptsTypeOK
  <2>1. ASSUME NEW k \in Keys, InsertAttempt(k) PROVE Final
    BY <2>1 DEF InsertAttempt, InsertPending, HasRow, Terminal
  <2>2. ASSUME NEW k \in Keys, MarkAttempt(k) \/ DrainMark(k) PROVE Final
    <3>1. Recoverable(k)
      BY <2>2 DEF OwnerInv, MarkAttempt, DrainMark, Recoverable
    <3>2. \A j \in Keys : j # k => status'[j] = status[j]
      BY <2>2 DEF MarkAttempt, DrainMark, SetStatus, attemptVars
    <3> QED
      BY <3>1, <3>2 DEF Recoverable, Terminal
  <2>3. CASE Prune
    BY <2>3 DEF Prune, PruneTerminal
  <2>4. CASE UNCHANGED attemptVars
    BY <2>4 DEF attemptVars
  <2> QED
    BY <2>1, <2>2, <2>3, <2>4
       DEF Next, Request, RetryLoop, ShipRequest, GenerateLabel, VoidRequest, RefundLabel,
           LinkRequest, SendCall, CallAnswered, CallTimesOut, LateCallArrives, LogHistory,
           Reply, DrainStart, DrainNext, DrainAnswered, DrainTimesOut, DrainEnd,
           ServeWithoutRetry, Crash
<1> QED
  BY <1>1, QuietIsSpec, TypeCorrect, OwnerInvHolds, PTL DEF QuietSpec, SettledIsFinal

(* In particular on a server that retries at boot only.                    *)
COROLLARY SettledStays == ASSUME ~PollRetry PROVE Spec => SettledIsFinal
BY SettledWhenQuiet, BootRetryIsQuiet

-----------------------------------------------------------------------------
(* The refinement.  The ledger's record of a row, its effects and its      *)
(* acknowledgements, in this state and in the next.                        *)
Rec == [k \in Keys |-> RecordState(k)]
Acked == {k \in Keys : told[k] = "success"}

(* Writing one row changes the record of that row only.                    *)
LEMMA OneRecord ==
  ASSUME status \in [Keys -> Statuses], NEW k \in Keys, NEW s,
         status' = [status EXCEPT ![k] = s], committed' = committed
  PROVE  Rec' = [Rec EXCEPT ![k] = RecordState(k)']
<1>1. \A j \in Keys : j # k => RecordState(j)' = RecordState(j)
  <2> TAKE j \in Keys
  <2> HAVE j # k
  <2>1. status'[j] = status[j]
    OBVIOUS
  <2> QED
    BY <2>1 DEF RecordState
<1> QED
  BY <1>1 DEF Rec

(* A step that leaves the rows, Sentry and what was told alone, or tells   *)
(* of an error, is a stutter of the ledger.                                *)
LEMMA StutterStep ==
  ASSUME UNCHANGED <<status, committed>>,
         \A k \in Keys : told'[k] = "success" <=> told[k] = "success"
  PROVE  UNCHANGED <<Rec, committed, Acked>>
BY DEF Rec, Acked, RecordState

(* A POST that Sentry executes takes effect once, while its row is open.   *)
LEMMA EffectStep ==
  ASSUME NEW k \in Keys, Recoverable(k),
         committed' = committed \/ committed' = committed \cup {k},
         UNCHANGED <<status, told>>
  PROVE  Ledger!TakeEffect(k) \/ UNCHANGED <<Rec, committed, Acked>>
<1>1. Rec[k] = "open" /\ Acked' = Acked
  BY DEF Rec, Acked, RecordState, Recoverable
<1>2. \A j \in Keys : RecordState(j)' = RecordState(j)
  BY DEF RecordState, Recoverable
<1>3. Rec' = Rec
  BY <1>2 DEF Rec
<1> QED
  BY <1>1, <1>3 DEF Ledger!TakeEffect, Rec, Acked

(* A mark settles an open record, truly, or leaves it open.                *)
LEMMA SettleStep ==
  ASSUME LedgerInv, NEW k \in Keys, MarkAttempt(k) \/ DrainMark(k)
  PROVE  Ledger!Settle(k) \/ UNCHANGED <<Rec, committed, Acked>>
<1>1. UNCHANGED <<committed, told>>
  BY DEF MarkAttempt, DrainMark, upstreamVars
<1>2. PICK s \in {"pending", "unknown", "success", "rejected"} :
         /\ status' = [status EXCEPT ![k] = s]
         /\ s = "success" /\ op[k] # "void" => k \in committed
         /\ s = "rejected" => k \notin committed
  BY MarkStep
<1>3. Recoverable(k) /\ status \in [Keys -> Statuses]
  BY MarkStep DEF LedgerInv, TypeOK, AttemptsTypeOK
<1>4. Rec' = [Rec EXCEPT ![k] = RecordState(k)']
  BY <1>1, <1>2, <1>3, OneRecord
<1>5. Rec[k] = "open"
  BY <1>3 DEF Rec, RecordState, Recoverable
<1>6. Acked' = Acked
  BY <1>1 DEF Acked
<1>7. RecordState(k)' \in {"open"} \cup (IF k \in committed THEN {"done"} ELSE {"moot", "refused"})
  BY <1>1, <1>2, <1>3 DEF RecordState
<1>8. CASE RecordState(k)' = "open"
  <2>1. Rec' = Rec
    BY <1>4, <1>5, <1>8 DEF Rec
  <2> QED
    BY <1>1, <1>6, <2>1
<1>9. CASE RecordState(k)' # "open"
  <2>1. RecordState(k)' \in IF k \in committed THEN {"done"} ELSE {"moot", "refused"}
    BY <1>7, <1>9
  <2> QED
    BY <1>1, <1>4, <1>5, <1>6, <2>1 DEF Ledger!Settle, Rec, Acked
<1> QED
  BY <1>8, <1>9

(* The operator is told of a success only on a settled record.             *)
LEMMA AcknowledgeStep ==
  ASSUME LedgerInv, NEW k \in Keys, Reply(k)
  PROVE  Ledger!Acknowledge(k) \/ UNCHANGED <<Rec, committed, Acked>>
<1> USE DEF LedgerInv, TypeOK
<1>1. /\ UNCHANGED <<status, committed>>
      /\ told' = told \/ told' = [told EXCEPT ![k] =
                   IF Verdict(k, answer[k]) = "success" THEN "success" ELSE "error"]
  BY DEF Reply, attemptVars, upstreamVars
<1>2. status[k] = Verdict(k, answer[k]) /\ told[k] # "success"
  BY DEF Reply, OwnerInv
<1>3. Rec' = Rec
  BY <1>1 DEF Rec, RecordState
<1>4. CASE told'[k] = "success" /\ told' # told
  <2>1. Rec[k] \in {"done", "moot"}
    BY <1>1, <1>2, <1>4 DEF Rec, RecordState
  <2>2. Acked' = Acked \cup {k}
    BY <1>1, <1>4 DEF Acked
  <2> QED
    BY <1>1, <1>3, <2>1, <2>2 DEF Ledger!Acknowledge, Rec, Acked
<1>5. CASE ~(told'[k] = "success" /\ told' # told)
  <2>1. \A j \in Keys : told'[j] = "success" <=> told[j] = "success"
    BY <1>1, <1>2, <1>5
  <2> QED
    BY <1>1, <2>1, StutterStep
<1> QED
  BY <1>4, <1>5

(* insert_pending opens the record.                                        *)
LEMMA RecordStep ==
  ASSUME LedgerInv, NEW k \in Keys, InsertAttempt(k)
  PROVE  Ledger!Record(k)
<1> USE DEF LedgerInv, TypeOK, AttemptsTypeOK
<1>1. status[k] = "none" /\ status' = [status EXCEPT ![k] = "pending"]
  BY DEF InsertAttempt, InsertPending, RowInv
<1>2. UNCHANGED <<committed, told>>
  BY DEF InsertAttempt, upstreamVars
<1>3. Rec' = [Rec EXCEPT ![k] = "open"] /\ Rec[k] = "none"
  <2>1. Rec' = [Rec EXCEPT ![k] = RecordState(k)']
    BY <1>1, <1>2, OneRecord
  <2>2. RecordState(k)' = "open" /\ RecordState(k) = "none"
    BY <1>1 DEF RecordState
  <2> QED
    BY <2>1, <2>2 DEF Rec
<1>4. Acked' = Acked
  BY <1>2 DEF Acked
<1> QED
  BY <1>2, <1>3, <1>4 DEF Ledger!Record, Rec, Acked

(* prune_terminal forgets settled records only.                            *)
LEMMA ForgetStep ==
  ASSUME LedgerInv, Prune
  PROVE  \E W \in SUBSET Keys : Ledger!Forget(W)
<1> USE DEF LedgerInv, TypeOK, AttemptsTypeOK
<1>1. UNCHANGED <<committed, told>>
  BY DEF Prune, upstreamVars
<1>2. PICK S \in SUBSET Keys : status' = [k \in Keys |->
                                  IF k \in S /\ Terminal(k) THEN "pruned" ELSE status[k]]
  BY DEF Prune, PruneTerminal
<1> DEFINE W == {k \in S : Terminal(k)}
<1>3. \A k \in W : Rec[k] \in Ledger!Settled
  BY DEF Rec, RecordState, Terminal, Ledger!Settled
<1>4. Rec' = [k \in Keys |-> IF k \in W THEN "forgotten" ELSE Rec[k]]
  <2>1. \A k \in W : RecordState(k)' = "forgotten"
    BY <1>2 DEF RecordState
  <2>2. \A k \in Keys \ W : RecordState(k)' = RecordState(k)
    <3> TAKE k \in Keys \ W
    <3>1. status'[k] = status[k]
      BY <1>2
    <3> QED
      BY <1>1, <3>1 DEF RecordState
  <2> HIDE DEF W
  <2> QED
    BY <2>1, <2>2 DEF Rec
<1>5. Acked' = Acked
  BY <1>1 DEF Acked
<1> QED
  BY <1>1, <1>3, <1>4, <1>5 DEF Ledger!Forget, Rec, Acked

(* ship_attempts and its users keep the ledger's promise: a write is       *)
(* recorded before it takes effect, takes effect once and only while its   *)
(* record is open, and a settled record is final and true.                 *)
THEOREM LedgerWhenQuiet == ASSUME ~LateCalls PROVE QuietSpec => ImplementsLedger
<1>1. Init => Ledger!LedgerInit
  BY DEF Init, AttemptsInit, UpstreamInit, Ledger!LedgerInit, RecordState
<1>2. LedgerInv /\ [Next /\ Quiet]_vars => [Ledger!LedgerNext]_<<Rec, committed, Acked>>
  <2> SUFFICES ASSUME LedgerInv, [Next /\ Quiet]_vars
               PROVE  Ledger!LedgerNext \/ UNCHANGED <<Rec, committed, Acked>>
    OBVIOUS
  <2>1. ASSUME NEW k \in Keys, InsertAttempt(k) PROVE Ledger!LedgerNext
    BY <2>1, RecordStep DEF Ledger!LedgerNext
  <2>2. ASSUME NEW k \in Keys, MarkAttempt(k) \/ DrainMark(k)
        PROVE  Ledger!LedgerNext \/ UNCHANGED <<Rec, committed, Acked>>
    BY <2>2, SettleStep DEF Ledger!LedgerNext
  <2>3. ASSUME NEW k \in Keys, Reply(k)
        PROVE  Ledger!LedgerNext \/ UNCHANGED <<Rec, committed, Acked>>
    BY <2>3, AcknowledgeStep DEF Ledger!LedgerNext
  <2>4. ASSUME NEW k \in Keys, CallAnswered(k) \/ DrainAnswered(k) \/ LateCallArrives(k)
        PROVE  Ledger!LedgerNext \/ UNCHANGED <<Rec, committed, Acked>>
    <3>1. committed' = committed \/ committed' = committed \cup {k}
      BY <2>4, ExecuteCommits DEF CallAnswered, DrainAnswered, LateCallArrives
    <3>2. Recoverable(k)
      BY <2>4 DEF CallAnswered, DrainAnswered, LateCallArrives, LedgerInv, OwnerInv, TrueInv,
                  Recoverable
    <3>3. UNCHANGED <<status, told>>
      BY <2>4 DEF CallAnswered, DrainAnswered, LateCallArrives, attemptVars
    <3> QED
      BY <3>1, <3>2, <3>3, EffectStep DEF Ledger!LedgerNext
  <2>5. CASE Prune
    BY <2>5, ForgetStep DEF Ledger!LedgerNext
  <2>6. ASSUME NEW k \in Keys,
               ShipRequest(k) \/ GenerateLabel(k) \/ VoidRequest(k) \/ RefundLabel(k)
        PROVE  UNCHANGED <<Rec, committed, Acked>>
    <3>1. UNCHANGED <<status, committed>> /\ told[k] # "success"
      BY <2>6 DEF ShipRequest, GenerateLabel, VoidRequest, RefundLabel, attemptVars,
                  upstreamVars, sentryVars, LedgerInv, OwnerInv
    <3>2. told' = told \/ told' = [told EXCEPT ![k] = "error"]
      BY <2>6 DEF ShipRequest, GenerateLabel, VoidRequest, RefundLabel
    <3> QED
      BY <3>1, <3>2, StutterStep DEF LedgerInv, TypeOK
  <2>7. CASE UNCHANGED <<status, committed, told>>
    BY <2>7, StutterStep
  <2> QED
    BY <2>1, <2>2, <2>3, <2>4, <2>5, <2>6, <2>7
       DEF Next, Request, RetryLoop, vars, LinkRequest, SendCall, CallTimesOut, LogHistory,
           DrainStart, DrainNext, DrainTimesOut, DrainEnd, ServeWithoutRetry, Crash,
           attemptVars, upstreamVars
<1> QED
  BY <1>1, <1>2, LedgerInvHolds, PTL DEF QuietSpec, ImplementsLedger, Ledger!Spec, Rec, Acked,
     Ledger!ledgerVars

(* In particular on a server that retries at boot only.                    *)
COROLLARY LedgerImplemented == ASSUME ~PollRetry, ~LateCalls PROVE Spec => ImplementsLedger
BY LedgerWhenQuiet, BootRetryIsQuiet

-----------------------------------------------------------------------------
(* What the operator was told had succeeded is settled, or forgotten after *)
(* it was settled: nothing that comes later finds it open or refused.      *)
AcksAreSettled ==
  \A k \in Keys : told[k] = "success" => RecordState(k) \in {"done", "moot", "forgotten"}

(* The ledger keeps that promise, whoever implements it.                   *)
LEMMA LedgerAcksSettled ==
  Ledger!Spec => [](\A k \in Acked : Rec[k] \in {"done", "moot", "forgotten"})
<1> DEFINE Promise == \A k \in Acked : Rec[k] \in {"done", "moot", "forgotten"}
<1>1. Ledger!LedgerInit => Promise
  BY DEF Ledger!LedgerInit, Acked
<1>2. Promise /\ [Ledger!LedgerNext]_<<Rec, committed, Acked>> => Promise'
  <2> SUFFICES ASSUME Promise, [Ledger!LedgerNext]_<<Rec, committed, Acked>> PROVE Promise'
    OBVIOUS
  <2>1. Acked \subseteq Keys /\ Rec = [k \in Keys |-> Rec[k]]
    BY DEF Acked, Rec
  <2>2. ASSUME NEW k \in Keys, Ledger!Record(k) \/ Ledger!Settle(k) PROVE Promise'
    <3>1. k \notin Acked /\ Acked' = Acked
      BY <2>2 DEF Ledger!Record, Ledger!Settle, Rec, Acked
    <3>2. \A j \in Keys \ {k} : Rec'[j] = Rec[j]
      BY <2>2 DEF Ledger!Record, Ledger!Settle, Rec, Acked
    <3> QED
      BY <2>1, <3>1, <3>2
  <2>3. ASSUME NEW k \in Keys, Ledger!TakeEffect(k) PROVE Promise'
    BY <2>3 DEF Ledger!TakeEffect, Rec, Acked
  <2>4. ASSUME NEW k \in Keys, Ledger!Acknowledge(k) PROVE Promise'
    BY <2>4 DEF Ledger!Acknowledge, Rec, Acked
  <2>5. ASSUME NEW W \in SUBSET Keys, Ledger!Forget(W) PROVE Promise'
    <3>1. Acked' = Acked /\ \A j \in Keys : Rec'[j] \in {"forgotten", Rec[j]}
      BY <2>5 DEF Ledger!Forget, Rec, Acked
    <3> QED
      BY <2>1, <3>1
  <2>6. CASE UNCHANGED <<Rec, committed, Acked>>
    BY <2>6
  <2> QED
    BY <2>2, <2>3, <2>4, <2>5, <2>6 DEF Ledger!LedgerNext
<1> QED
  BY <1>1, <1>2, PTL DEF Ledger!Spec, Ledger!ledgerVars, Rec, Acked

(* Hence, with quiet retries, so does ShippingService: a success shown to  *)
(* the operator is final.                                                  *)
THEOREM AcksStand == ASSUME ~LateCalls PROVE QuietSpec => []AcksAreSettled
<1>1. (\A k \in Acked : Rec[k] \in {"done", "moot", "forgotten"}) => AcksAreSettled
  BY DEF Acked, Rec, AcksAreSettled
<1> QED
  BY <1>1, LedgerWhenQuiet, LedgerAcksSettled, PTL DEF ImplementsLedger

-----------------------------------------------------------------------------
(***************************************************************************)
(* The retry queue.  Rows are read oldest first and at most RetryLimit of  *)
(* them: so a pass is short, and a row's place in the queue never worsens. *)
(* With the fairness of FairSpec these are why passes end and why every    *)
(* open row is settled at last, which the run "live" checks.               *)
(***************************************************************************)
Ahead(k) == {j \in Keys : Recoverable(j) /\ Older(j, k)}

QueueInv ==
  /\ \A k \in Keys : created[k] <= lastRow
  /\ \A j, k \in Keys : j # k /\ status[j] # "none" /\ status[k] # "none" =>
       created[j] # created[k]

\* find_recoverable's limit: a pass of the retry loop makes at most RetryLimit calls.
BatchIsBounded == Cardinality(batch) <= RetryLimit

\* What is left to do in this pass of the retry loop, in steps.
RetryWork ==
  3 * Cardinality(batch) + (CASE drain = "off" -> 0 [] drain = "next" -> 1
                              [] drain = "mark" -> 2 [] drain = "wait" -> 3)

\* Every step of a pass brings its end nearer, and nothing puts it off.
PassEnds ==
  [][/\ RetryLoop /\ ~DrainStart => RetryWork' < RetryWork
     /\ RetryWork' > RetryWork => DrainStart /\ RetryWork' <= 3 * RetryLimit + 1]_vars

\* A row the next pass would read stays among those until it is settled.
PlacesAreKept ==
  [][\A k \in FindRecoverable : Recoverable(k)' => k \in FindRecoverable']_vars

(* Rows are numbered in the order in which insert_pending writes them.     *)
THEOREM QueueInvHolds == Spec => []QueueInv
<1>1. Init => QueueInv
  BY DEF Init, AttemptsInit, QueueInv
<1>2. TypeOK /\ RowInv /\ QueueInv /\ [Next]_vars => QueueInv'
  <2> SUFFICES ASSUME TypeOK, RowInv, QueueInv, [Next]_vars PROVE QueueInv'
    OBVIOUS
  <2> USE DEF TypeOK, AttemptsTypeOK, QueueInv
  <2>1. ASSUME NEW k \in Keys, InsertAttempt(k) PROVE QueueInv'
    BY <2>1 DEF InsertAttempt, InsertPending
  <2>2. CASE /\ UNCHANGED <<created, lastRow>>
             /\ \A j \in Keys : status'[j] = "none" <=> status[j] = "none"
    BY <2>2
  <2>3. ASSUME NEW k \in Keys, MarkAttempt(k) \/ DrainMark(k) PROVE QueueInv'
    <3>1. UNCHANGED <<created, lastRow>>
      BY <2>3 DEF MarkAttempt, DrainMark, SetStatus, attemptVars
    <3>2. \A j \in Keys : status'[j] = "none" <=> status[j] = "none"
      BY <2>3, RowsStay, VerdictType DEF MarkAttempt, DrainMark, Statuses, attemptVars
    <3> QED
      BY <2>2, <3>1, <3>2
  <2>4. CASE Prune
    <3>1. UNCHANGED <<created, lastRow>>
      BY <2>4 DEF Prune, PruneTerminal
    <3>2. \A j \in Keys : status'[j] = "none" <=> status[j] = "none"
      BY <2>4, RowsStay DEF Prune
    <3> QED
      BY <2>2, <3>1, <3>2
  <2>5. CASE UNCHANGED attemptVars
    BY <2>2, <2>5 DEF attemptVars
  <2> QED
    BY <2>1, <2>3, <2>4, <2>5
       DEF Next, Request, RetryLoop, ShipRequest, GenerateLabel, VoidRequest, RefundLabel,
           LinkRequest, SendCall, CallAnswered, CallTimesOut, LateCallArrives, LogHistory,
           Reply, DrainStart, DrainNext, DrainAnswered, DrainTimesOut, DrainEnd,
           ServeWithoutRetry, Crash, vars
<1> QED
  BY <1>1, <1>2, TypeCorrect, RowInvHolds, PTL DEF Spec

-----------------------------------------------------------------------------
(* A set of natural numbers that is not empty has a smallest element.      *)
LEMMA SmallestNat ==
  ASSUME NEW T, T \subseteq Nat, T # {}
  PROVE  \E x \in T : \A y \in T : x <= y
<1>1. PICK x \in T : \A y \in T : ~(<<y, x>> \in OpToRel(<, Nat))
  BY NatLessThanWellFounded, WFMin
<1>2. \A y \in T : ~(y < x)
  BY <1>1 DEF OpToRel
<1> QED
  BY <1>2

(* Of rows that have been read there is a youngest.                        *)
LEMMA YoungestRow ==
  ASSUME TypeOK, QueueInv, NEW S, S \subseteq Keys, S # {}
  PROVE  \E k \in S : \A j \in S : created[j] <= created[k]
<1> USE DEF TypeOK, AttemptsTypeOK, QueueInv
<1> DEFINE T == {lastRow - created[k] : k \in S}
<1>1. T \subseteq Nat /\ T # {}
  OBVIOUS
<1>2. PICK x \in T : \A y \in T : x <= y
  BY <1>1, SmallestNat
<1>3. PICK k \in S : x = lastRow - created[k]
  OBVIOUS
<1>4. \A j \in S : lastRow - created[k] <= lastRow - created[j]
  BY <1>2, <1>3
<1> QED
  BY <1>4

(* find_recoverable returns at most RetryLimit rows: all but the youngest  *)
(* of them are ahead of that one.                                          *)
LEMMA FewFound ==
  ASSUME TypeOK, QueueInv
  PROVE  IsFiniteSet(FindRecoverable) /\ Cardinality(FindRecoverable) <= RetryLimit
<1> DEFINE F == FindRecoverable
<1>1. F \subseteq Keys /\ IsFiniteSet(F) /\ Cardinality(F) \in Nat
  BY KeysAssumption, FS_Subset, FS_CardinalityType DEF FindRecoverable
<1>2. CASE F = {}
  BY <1>2, FS_EmptySet, RetryLimitAssumption
<1>3. CASE F # {}
  <2>1. PICK k \in F : \A j \in F : created[j] <= created[k]
    BY <1>1, <1>3, YoungestRow
  <2>2. F \ {k} \subseteq Ahead(k)
    BY <1>1, <2>1 DEF FindRecoverable, Ahead, Older, QueueInv, Recoverable, TypeOK,
                      AttemptsTypeOK
  <2>3. IsFiniteSet(Ahead(k)) /\ Cardinality(Ahead(k)) \in Nat
    BY KeysAssumption, FS_Subset, FS_CardinalityType DEF Ahead
  <2>4. Cardinality(F \ {k}) <= Cardinality(Ahead(k))
    BY <2>2, <2>3, FS_Subset
  <2>5. Cardinality(F \ {k}) = Cardinality(F) - 1
    BY <1>1, FS_RemoveElement
  <2>6. Cardinality(Ahead(k)) < RetryLimit
    BY DEF FindRecoverable, Ahead
  <2> QED
    BY <1>1, <2>3, <2>4, <2>5, <2>6, RetryLimitAssumption
<1> QED
  BY <1>1, <1>2, <1>3

(* "So a bad batch cannot delay startup forever" (find_recoverable): the   *)
(* rows a pass has still to retry are never more than its limit.           *)
THEOREM BatchBounded == Spec => []BatchIsBounded
<1>1. Init => BatchIsBounded
  BY FS_EmptySet, RetryLimitAssumption DEF Init, BatchIsBounded
<1>2. TypeOK /\ QueueInv /\ BatchIsBounded /\ [Next]_vars => BatchIsBounded'
  <2> SUFFICES ASSUME TypeOK, QueueInv, BatchIsBounded, [Next]_vars PROVE BatchIsBounded'
    OBVIOUS
  <2>1. CASE DrainStart
    BY <2>1, FewFound DEF DrainStart, BatchIsBounded
  <2>2. CASE batch' \subseteq batch
    <3>1. IsFiniteSet(batch)
      BY KeysAssumption, FS_Subset DEF TypeOK
    <3>2. /\ Cardinality(batch') <= Cardinality(batch)
          /\ Cardinality(batch') \in Nat /\ Cardinality(batch) \in Nat
      BY <2>2, <3>1, FS_Subset, FS_CardinalityType
    <3> QED
      BY <3>2, RetryLimitAssumption DEF BatchIsBounded
  <2> QED
    BY <2>1, <2>2
       DEF Next, Request, RetryLoop, ShipRequest, GenerateLabel, VoidRequest, RefundLabel,
           LinkRequest, InsertAttempt, SendCall, CallAnswered, CallTimesOut, LateCallArrives,
           MarkAttempt, LogHistory, Reply, DrainNext, DrainAnswered, DrainTimesOut, DrainMark,
           DrainEnd, ServeWithoutRetry, Crash, Prune, drainVars, vars
<1> QED
  BY <1>1, <1>2, TypeCorrect, QueueInvHolds, PTL DEF Spec

(* A pass of the retry loop cannot go on for ever, nor make more than      *)
(* RetryLimit calls, however they end: the measure RetryWork falls at each *)
(* step of the loop and rises at none but the start of a pass.             *)
THEOREM PassesEnd == Spec => PassEnds
<1> DEFINE Step == /\ RetryLoop /\ ~DrainStart => RetryWork' < RetryWork
                   /\ RetryWork' > RetryWork => DrainStart /\ RetryWork' <= 3 * RetryLimit + 1
<1>1. TypeOK => RetryWork \in Nat
  <2> SUFFICES ASSUME TypeOK PROVE RetryWork \in Nat
    OBVIOUS
  <2>1. Cardinality(batch) \in Nat
    BY KeysAssumption, FS_Subset, FS_CardinalityType DEF TypeOK
  <2> QED
    BY <2>1 DEF TypeOK, RetryWork
<1>2. TypeOK' => (RetryWork \in Nat)'
  BY <1>1, PTL
<1>3. TypeOK /\ TypeOK' /\ QueueInv /\ [Next]_vars => [Step]_vars
  <2> SUFFICES ASSUME TypeOK, TypeOK', QueueInv, Next PROVE Step
    OBVIOUS
  <2>1. /\ IsFiniteSet(batch) /\ Cardinality(batch) \in Nat
        /\ Cardinality({}) = 0
    BY KeysAssumption, FS_Subset, FS_CardinalityType, FS_EmptySet DEF TypeOK
  <2>2. CASE DrainStart
    <3>1. /\ Cardinality(batch') <= RetryLimit /\ Cardinality(batch') \in Nat
          /\ drain' = "next"
      BY <2>2, FewFound, FS_CardinalityType DEF DrainStart
    <3> QED
      BY <2>2, <3>1, RetryLimitAssumption DEF RetryWork
  <2>3. ASSUME NEW k \in Keys, DrainNext(k) PROVE RetryWork' < RetryWork
    <3>1. Cardinality(batch') = Cardinality(batch) - 1
      BY <2>1, <2>3, FS_RemoveElement DEF DrainNext
    <3> QED
      BY <2>1, <2>3, <3>1 DEF DrainNext, RetryWork
  <2>4. ASSUME NEW k \in Keys, DrainAnswered(k) \/ DrainTimesOut(k)
        PROVE  RetryWork' < RetryWork
    BY <2>1, <2>4 DEF DrainAnswered, DrainTimesOut, RetryWork
  <2>5. ASSUME NEW k \in Keys, DrainMark(k) PROVE RetryWork' < RetryWork
    <3>1. batch' = batch \/ batch' = {}
      BY <2>5 DEF DrainMark
    <3> QED
      BY <2>1, <2>5, <3>1 DEF DrainMark, RetryWork
  <2>6. CASE DrainEnd
    BY <2>1, <2>6 DEF DrainEnd, RetryWork
  <2>7. ASSUME Crash PROVE RetryWork' <= RetryWork
    <3>1. RetryWork' = 0
      BY <2>1, <2>7 DEF Crash, RetryWork
    <3> QED
      BY <1>1, <3>1
  <2>8. ASSUME UNCHANGED <<drain, batch>> PROVE RetryWork' = RetryWork
    BY <2>8 DEF RetryWork
  <2>9. CASE RetryLoop
    <3>1. ~DrainStart => RetryWork' < RetryWork
      BY <2>3, <2>4, <2>5, <2>6, <2>9 DEF RetryLoop
    <3> QED
      BY <1>1, <1>2, <2>2, <3>1
  <2>10. CASE ~RetryLoop
    <3>1. Crash \/ UNCHANGED <<drain, batch>>
      BY <2>10
         DEF Next, Request, ShipRequest, GenerateLabel, VoidRequest, RefundLabel, LinkRequest,
             InsertAttempt, SendCall, CallAnswered, CallTimesOut, LateCallArrives,
             MarkAttempt, LogHistory, Reply, ServeWithoutRetry, Prune, drainVars
    <3> QED
      BY <1>1, <1>2, <2>7, <2>8, <2>10, <3>1
  <2> QED
    BY <2>9, <2>10
<1> QED
  BY <1>3, TypeCorrect, QueueInvHolds, PTL DEF Spec, PassEnds

(* A step writes one new row, or opens none: settled rows are not reopened *)
(* by quiet retries.                                                       *)
LEMMA OpensAtTheBack ==
  ASSUME TypeOK, RowInv, OwnerInv, Next
  PROVE  \/ \E i \in Keys : /\ status[i] = "none"
                            /\ status' = [status EXCEPT ![i] = "pending"]
                            /\ created' = [created EXCEPT ![i] = lastRow + 1]
         \/ created' = created /\ \A j \in Keys : Recoverable(j)' => Recoverable(j)
<1> USE DEF TypeOK, AttemptsTypeOK
<1> DEFINE OpensNone == created' = created /\ \A j \in Keys : Recoverable(j)' => Recoverable(j)
<1>1. ASSUME NEW i \in Keys, InsertAttempt(i)
      PROVE  /\ status[i] = "none"
             /\ status' = [status EXCEPT ![i] = "pending"]
             /\ created' = [created EXCEPT ![i] = lastRow + 1]
  BY <1>1 DEF InsertAttempt, InsertPending, RowInv
<1>2. ASSUME NEW k \in Keys, MarkAttempt(k) \/ DrainMark(k) PROVE OpensNone
  <2>1. Recoverable(k)
    BY <1>2 DEF OwnerInv, MarkAttempt, DrainMark, Recoverable
  <2>2. created' = created /\ \A j \in Keys : j # k => status'[j] = status[j]
    BY <1>2 DEF MarkAttempt, DrainMark, SetStatus, attemptVars
  <2> QED
    BY <2>1, <2>2 DEF Recoverable
<1>3. CASE Prune
  BY <1>3 DEF Prune, PruneTerminal, Recoverable
<1>4. CASE UNCHANGED attemptVars
  BY <1>4 DEF attemptVars, Recoverable
<1> QED
  BY <1>1, <1>2, <1>3, <1>4
     DEF Next, Request, RetryLoop, ShipRequest, GenerateLabel, VoidRequest, RefundLabel,
         LinkRequest, SendCall, CallAnswered, CallTimesOut, LateCallArrives, LogHistory,
         Reply, DrainStart, DrainNext, DrainAnswered, DrainTimesOut, DrainEnd,
         ServeWithoutRetry, Crash

(* No row is overtaken: what find_recoverable would return now it would    *)
(* return until it is settled, however many rows are written meanwhile.    *)
THEOREM NoRowIsOvertaken == QuietSpec => PlacesAreKept
<1> DEFINE Kept == \A k \in FindRecoverable : Recoverable(k)' => k \in FindRecoverable'
<1>1. TypeOK /\ RowInv /\ OwnerInv /\ QueueInv /\ [Next /\ Quiet]_vars => [Kept]_vars
  <2> SUFFICES ASSUME TypeOK, RowInv, OwnerInv, QueueInv, Next,
                      NEW k \in FindRecoverable, Recoverable(k)'
               PROVE  k \in FindRecoverable'
    OBVIOUS
  <2>1. k \in Keys /\ Recoverable(k) /\ Cardinality(Ahead(k)) < RetryLimit
    BY DEF FindRecoverable, Ahead
  <2>2. Ahead(k)' \subseteq Ahead(k)
    <3>1. CASE created' = created /\ \A j \in Keys : Recoverable(j)' => Recoverable(j)
      BY <3>1 DEF Ahead, Older
    <3>2. ASSUME NEW i \in Keys, status[i] = "none",
                 status' = [status EXCEPT ![i] = "pending"],
                 created' = [created EXCEPT ![i] = lastRow + 1]
          PROVE  Ahead(k)' \subseteq Ahead(k)
      <4>1. i # k /\ created'[k] <= lastRow
        BY <2>1, <3>2 DEF Recoverable, QueueInv, TypeOK, AttemptsTypeOK
      <4>2. i \notin Ahead(k)'
        BY <2>1, <3>2, <4>1 DEF Ahead, Older, QueueInv, TypeOK, AttemptsTypeOK
      <4> QED
        BY <2>1, <3>2, <4>1, <4>2 DEF Ahead, Older, Recoverable, TypeOK, AttemptsTypeOK
    <3> QED
      BY <3>1, <3>2, OpensAtTheBack
  <2>3. /\ Cardinality(Ahead(k)') <= Cardinality(Ahead(k))
        /\ Cardinality(Ahead(k)') \in Nat /\ Cardinality(Ahead(k)) \in Nat
    <3>1. IsFiniteSet(Ahead(k))
      BY KeysAssumption, FS_Subset DEF Ahead
    <3> QED
      BY <2>2, <3>1, FS_Subset, FS_CardinalityType
  <2>4. Cardinality(Ahead(k)') < RetryLimit
    BY <2>1, <2>3, RetryLimitAssumption
  <2> QED
    BY <2>1, <2>4 DEF FindRecoverable, Ahead
<1> QED
  BY <1>1, QuietIsSpec, TypeCorrect, RowInvHolds, OwnerInvHolds, QueueInvHolds, PTL
     DEF QuietSpec, PlacesAreKept

=============================================================================
