---------------------------- MODULE BackendHealth ----------------------------
(***************************************************************************)
(* BackendHealth (app/services/backend_health.py): the read-through cache  *)
(* in front of backend.health() that every station's connectivity dot      *)
(* polls.  A poll reads the clock before it takes the lock; it may then    *)
(* wait while another poll probes, for as long as the probe takes.         *)
(***************************************************************************)
EXTENDS Integers, Sequences

CONSTANTS
  Threads,     \* request threads
  TTL,         \* cache_ttl_seconds, in ticks
  Threshold,   \* failure_threshold
  MaxTime,     \* bound: ticks in one behaviour
  NoThread     \* the lock is free

ASSUME HealthAssumption ==
  /\ TTL \in Nat \ {0}
  /\ Threshold \in Nat \ {0}
  /\ MaxTime \in Nat
  /\ NoThread \notin Threads

Never == -1    \* no probe, or no success, yet

VARIABLES
  now,           \* time.monotonic()
  lastProbe,     \* _last_probe_at
  lastSuccess,   \* _last_success_at
  failures,      \* _consecutive_failures
  state,         \* _last_state
  lock,          \* holder of _lock
  pc,            \* [Threads -> "idle", "lock", "probe" or "snapshot"]
  asked,         \* [Threads -> the time its poll read before taking the lock]
  outcomes       \* the answers of the probes so far; no part of the code reads it

healthVars == <<lastProbe, lastSuccess, failures, state>>
vars == <<now, healthVars, lock, pc, asked, outcomes>>

TypeOK ==
  /\ now \in Nat
  /\ lastProbe \in Nat \cup {Never}
  /\ lastSuccess \in Nat \cup {Never}
  /\ failures \in Nat
  /\ state \in {"unknown", "ok", "degraded", "down"}
  /\ lock \in Threads \cup {NoThread}
  /\ pc \in [Threads -> {"idle", "lock", "probe", "snapshot"}]
  /\ asked \in [Threads -> Nat]
  /\ outcomes \in Seq(BOOLEAN)

Init ==
  /\ now = 0
  /\ lastProbe = Never
  /\ lastSuccess = Never
  /\ failures = 0
  /\ state = "unknown"
  /\ lock = NoThread
  /\ pc = [t \in Threads |-> "idle"]
  /\ asked = [t \in Threads |-> 0]
  /\ outcomes = <<>>

Tick ==
  /\ now < MaxTime
  /\ now' = now + 1
  /\ UNCHANGED <<healthVars, lock, pc, asked, outcomes>>

\* status() reads the clock.
Poll(t) ==
  /\ pc[t] = "idle"
  /\ asked' = [asked EXCEPT ![t] = now]
  /\ pc' = [pc EXCEPT ![t] = "lock"]
  /\ UNCHANGED <<now, healthVars, lock, outcomes>>

\* A mistake the runs must detect: the age is that of the last success.
Bug_SinceSuccess(t) == lastSuccess = Never \/ asked[t] - lastSuccess >= TTL

\* The cache is too old for this poll, as seen under the lock.
Stale(t) == lastProbe = Never \/ asked[t] - lastProbe >= TTL

\* The lock is taken; a stale cache makes this poll the one that probes.
Acquire(t) ==
  /\ pc[t] = "lock"
  /\ lock = NoThread
  /\ lock' = t
  /\ IF Stale(t)
       THEN lastProbe' = now /\ pc' = [pc EXCEPT ![t] = "probe"]
       ELSE pc' = [pc EXCEPT ![t] = "snapshot"] /\ UNCHANGED lastProbe
  /\ UNCHANGED <<now, lastSuccess, failures, state, asked, outcomes>>

\* A mistake the runs must detect: a success does not clear the count of failures.
Bug_KeepsCount(t) ==
  /\ pc[t] = "probe"
  /\ lastSuccess' = lastProbe
  /\ state' = "ok"
  /\ outcomes' = Append(outcomes, TRUE)
  /\ pc' = [pc EXCEPT ![t] = "snapshot"]
  /\ UNCHANGED <<now, lastProbe, failures, lock, asked>>

\* backend.health() answers 200.
ProbeSucceeds(t) ==
  /\ pc[t] = "probe"
  /\ lastSuccess' = lastProbe
  /\ failures' = 0
  /\ state' = "ok"
  /\ outcomes' = Append(outcomes, TRUE)
  /\ pc' = [pc EXCEPT ![t] = "snapshot"]
  /\ UNCHANGED <<now, lastProbe, lock, asked>>

\* A mistake the runs must detect: the dot stays as it was until the backend is down.
Bug_KeepsState(t) ==
  /\ pc[t] = "probe"
  /\ failures' = failures + 1
  /\ state' = IF failures' >= Threshold THEN "down" ELSE state
  /\ outcomes' = Append(outcomes, FALSE)
  /\ pc' = [pc EXCEPT ![t] = "snapshot"]
  /\ UNCHANGED <<now, lastProbe, lastSuccess, lock, asked>>

\* It answers anything else, times out or raises.
ProbeFails(t) ==
  /\ pc[t] = "probe"
  /\ failures' = failures + 1
  /\ state' = IF failures' >= Threshold THEN "down" ELSE "degraded"
  /\ outcomes' = Append(outcomes, FALSE)
  /\ pc' = [pc EXCEPT ![t] = "snapshot"]
  /\ UNCHANGED <<now, lastProbe, lastSuccess, lock, asked>>

\* The snapshot is the reply; the lock is released.
Snapshot(t) ==
  /\ pc[t] = "snapshot"
  /\ lock' = NoThread
  /\ pc' = [pc EXCEPT ![t] = "idle"]
  /\ UNCHANGED <<now, healthVars, asked, outcomes>>

Next ==
  \/ Tick
  \/ \E t \in Threads :
       Poll(t) \/ Acquire(t) \/ ProbeSucceeds(t) \/ ProbeFails(t) \/ Snapshot(t)

Spec == Init /\ [][Next]_vars

-----------------------------------------------------------------------------
(* "concurrent polls from multiple pack stations do not turn into a        *)
(* stampede": two probes are at least TTL apart, although polls decide     *)
(* with the time they read before they waited for the lock.                *)
ProbesAreSpaced ==
  [][lastProbe # Never /\ lastProbe' # lastProbe => lastProbe' - lastProbe >= TTL]_vars

(* "ok: last probe succeeded within cache_ttl_seconds": what a poll is     *)
(* about to report as ok was confirmed less than TTL before the poll came  *)
(* in, however long it waited for the lock.                                *)
OkIsRecent ==
  \A t \in Threads : pc[t] = "snapshot" /\ state = "ok" =>
     lastSuccess # Never /\ asked[t] - lastSuccess < TTL

\* The probes numbered from a on have all failed.
FailedSince(a) == \A i \in a .. Len(outcomes) : ~outcomes[i]

(* "down: failure_threshold consecutive failures since the last success":  *)
(* down is reported exactly when the last Threshold probes have all        *)
(* failed, whichever polls made them.                                      *)
DownIsEarned ==
  state = "down" <=> Len(outcomes) >= Threshold
                     /\ FailedSince(Len(outcomes) - Threshold + 1)
=============================================================================
