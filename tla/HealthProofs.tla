---------------------------- MODULE HealthProofs ----------------------------
(***************************************************************************)
(* BackendHealth, for any number of threads, any TTL and any threshold.    *)
(*                                                                         *)
(* The inductive invariant adds to the properties: clocks read in the past *)
(* (ClockInv), one thread inside the lock (LockInv), and what the cached   *)
(* state stands for (StateInv): the count of failures is the length of the *)
(* run of failed probes that the probes so far end in.                     *)
(***************************************************************************)
EXTENDS BackendHealth, TLAPS

ClockInv ==
  /\ lastProbe <= now
  /\ \A t \in Threads : asked[t] <= now

LockInv ==
  \A t \in Threads : pc[t] \in {"probe", "snapshot"} => lock = t

\* Between the start of a probe and its answer the state is that of the probe before.
StateInv ==
  /\ state = "ok" /\ (\A t \in Threads : pc[t] # "probe")
       => lastSuccess = lastProbe /\ lastProbe # Never
  /\ state = "down" <=> failures >= Threshold

RunInv ==
  /\ failures <= Len(outcomes)
  /\ \A i \in Len(outcomes) - failures + 1 .. Len(outcomes) : ~outcomes[i]
  /\ failures < Len(outcomes) => outcomes[Len(outcomes) - failures]

\* A poll that has probed, or that leaves the lock, has a cache young enough for it.
FreshInv ==
  \A t \in Threads : pc[t] \in {"probe", "snapshot"} =>
     lastProbe # Never /\ asked[t] - lastProbe < TTL

HealthInv == TypeOK /\ ClockInv /\ LockInv /\ StateInv /\ RunInv /\ FreshInv

(* HealthInv is inductive: each step of status(), with the lock where the  *)
(* code takes it, keeps the cache consistent.                              *)
THEOREM HealthInvHolds == Spec => []HealthInv
<1>. USE HealthAssumption
<1>1. Init => HealthInv
  <2>. SUFFICES ASSUME Init PROVE HealthInv
    OBVIOUS
  <2>1. <<>> \in Seq(BOOLEAN) /\ Len(<<>>) = 0
    OBVIOUS
  <2>. QED
    BY <2>1 DEF Init, HealthInv, TypeOK, ClockInv, LockInv, StateInv, RunInv, FreshInv, Never
<1>2. HealthInv /\ [Next]_vars => HealthInv'
  <2>. SUFFICES ASSUME HealthInv, [Next]_vars PROVE HealthInv'
    OBVIOUS
  <2>. USE DEF HealthInv
  <2>1. CASE Tick
    BY <2>1 DEF Tick, healthVars, TypeOK, ClockInv, LockInv, StateInv, RunInv, FreshInv, Never
  <2>2. ASSUME NEW t \in Threads, Poll(t)
        PROVE  HealthInv'
    BY <2>2 DEF Poll, healthVars, TypeOK, ClockInv, LockInv, StateInv, RunInv, FreshInv, Never
  <2>3. ASSUME NEW t \in Threads, Acquire(t)
        PROVE  HealthInv'
    <3>1. TypeOK' /\ ClockInv' /\ LockInv'
      BY <2>3 DEF Acquire, TypeOK, ClockInv, LockInv, Never
    <3>2. StateInv' /\ RunInv'
      <4>1. CASE Stale(t)
        <5>1. pc'[t] = "probe"
          BY <2>3, <4>1 DEF Acquire, TypeOK
        <5>. QED  BY <2>3, <5>1 DEF Acquire, StateInv, RunInv
      <4>2. CASE ~Stale(t)
        <5>1. \A u \in Threads : pc[u] # "probe" \/ u = t
          BY <2>3 DEF Acquire, LockInv
        <5>2. pc[t] # "probe"
          BY <2>3 DEF Acquire
        <5>. QED  BY <2>3, <4>2, <5>1, <5>2 DEF Acquire, StateInv, RunInv
      <4>. QED  BY <4>1, <4>2
    <3>3. FreshInv'
      <4>1. \A u \in Threads : pc[u] \notin {"probe", "snapshot"}
        BY <2>3 DEF Acquire, LockInv
      <4>2. /\ lastProbe' # Never
            /\ asked[t] - lastProbe' < TTL
        <5>1. lastProbe \in Int /\ asked[t] \in Int /\ now \in Nat /\ asked[t] <= now
          BY DEF TypeOK, ClockInv, Never
        <5>2. CASE Stale(t)
          BY <2>3, <5>1, <5>2 DEF Acquire, Never
        <5>3. CASE ~Stale(t)
          BY <2>3, <5>1, <5>3 DEF Acquire, Stale
        <5>. QED  BY <5>2, <5>3
      <4>3. \A u \in Threads : pc'[u] \in {"probe", "snapshot"} => u = t
        BY <2>3, <4>1 DEF Acquire, TypeOK
      <4>. QED  BY <2>3, <4>2, <4>3 DEF Acquire, FreshInv
    <3>. QED  BY <3>1, <3>2, <3>3
  <2>4. ASSUME NEW t \in Threads, ProbeSucceeds(t) \/ ProbeFails(t)
        PROVE  HealthInv'
    <3>1. TypeOK' /\ ClockInv' /\ LockInv'
      <4>1. outcomes' \in Seq(BOOLEAN)
        <5>1. \A b \in BOOLEAN : Append(outcomes, b) \in Seq(BOOLEAN)
          BY DEF TypeOK
        <5>. QED  BY <2>4, <5>1 DEF ProbeSucceeds, ProbeFails
      <4>2. failures' \in Nat
        <5>1. failures' = 0 \/ failures' = failures + 1
          BY <2>4 DEF ProbeSucceeds, ProbeFails
        <5>. QED  BY <5>1 DEF TypeOK
      <4>3. lastSuccess' \in Nat \cup {Never}
        BY <2>4 DEF ProbeSucceeds, ProbeFails, TypeOK
      <4>4. /\ state' \in {"unknown", "ok", "degraded", "down"}
            /\ UNCHANGED <<now, lastProbe, lock, asked>>
        BY <2>4 DEF ProbeSucceeds, ProbeFails
      <4>5. /\ pc' \in [Threads -> {"idle", "lock", "probe", "snapshot"}]
            /\ \A u \in Threads : pc'[u] \in {"probe", "snapshot"} =>
                                  pc[u] \in {"probe", "snapshot"}
        BY <2>4 DEF ProbeSucceeds, ProbeFails, TypeOK
      <4>. QED  BY <4>1, <4>2, <4>3, <4>4, <4>5 DEF TypeOK, ClockInv, LockInv
    <3>2. StateInv'
      <4>0. failures \in Nat /\ lastProbe # Never
        BY <2>4 DEF ProbeSucceeds, ProbeFails, TypeOK, FreshInv
      <4>1. CASE ProbeSucceeds(t)
        BY <4>0, <4>1 DEF ProbeSucceeds, StateInv
      <4>2. CASE ProbeFails(t)
        BY <4>0, <4>2 DEF ProbeFails, StateInv
      <4>. QED  BY <2>4, <4>1, <4>2
    <3>3. RunInv'
      <4>1. CASE ProbeSucceeds(t)
        BY <4>1 DEF ProbeSucceeds, TypeOK, RunInv
      <4>2. CASE ProbeFails(t)
        BY <4>2 DEF ProbeFails, TypeOK, RunInv
      <4>. QED  BY <2>4, <4>1, <4>2
    <3>4. FreshInv'
      BY <2>4 DEF ProbeSucceeds, ProbeFails, TypeOK, ClockInv, LockInv, FreshInv, Never
    <3>. QED  BY <3>1, <3>2, <3>3, <3>4
  <2>5. ASSUME NEW t \in Threads, Snapshot(t)
        PROVE  HealthInv'
    BY <2>5 DEF Snapshot, healthVars, TypeOK, ClockInv, LockInv, StateInv, RunInv, FreshInv, Never
  <2>6. CASE UNCHANGED vars
    BY <2>6 DEF vars, healthVars, TypeOK, ClockInv, LockInv, StateInv, RunInv, FreshInv
  <2>. QED  BY <2>1, <2>2, <2>3, <2>4, <2>5, <2>6 DEF Next
<1>. QED  BY <1>1, <1>2, PTL DEF Spec

(* The cache's fields have their types.                                    *)
THEOREM HealthTypeCorrect == Spec => []TypeOK
<1>1. HealthInv => TypeOK
  BY DEF HealthInv
<1>. QED  BY <1>1, HealthInvHolds, PTL

(* "ok: last probe succeeded within cache_ttl_seconds", seen from each     *)
(* poll, whatever the others did while it waited for the lock.             *)
THEOREM OkHolds == Spec => []OkIsRecent
<1>1. HealthInv => OkIsRecent
  <2>. SUFFICES ASSUME HealthInv, NEW t \in Threads, pc[t] = "snapshot", state = "ok"
                PROVE  lastSuccess # Never /\ asked[t] - lastSuccess < TTL
    BY DEF OkIsRecent
  <2>. USE DEF HealthInv
  <2>1. \A u \in Threads : pc[u] # "probe"
    BY DEF LockInv
  <2>. QED  BY <2>1 DEF StateInv, FreshInv
<1>. QED  BY <1>1, HealthInvHolds, PTL

(* "down: failure_threshold consecutive failures since the last success":  *)
(* the count that decides is the run of failures the probes end in.        *)
THEOREM DownHolds == Spec => []DownIsEarned
<1>1. HealthInv => DownIsEarned
  <2>. SUFFICES ASSUME HealthInv PROVE DownIsEarned
    OBVIOUS
  <2>1. failures \in Nat /\ Len(outcomes) \in Nat /\ Threshold \in Nat \ {0}
    BY HealthAssumption DEF HealthInv, TypeOK
  <2>2. failures >= Threshold => Len(outcomes) >= Threshold
                                 /\ FailedSince(Len(outcomes) - Threshold + 1)
    BY <2>1 DEF HealthInv, RunInv, FailedSince
  <2>3. ASSUME Len(outcomes) >= Threshold, FailedSince(Len(outcomes) - Threshold + 1)
        PROVE  failures >= Threshold
    <3>. SUFFICES ASSUME failures < Threshold PROVE FALSE
      BY <2>1
    <3>1. outcomes[Len(outcomes) - failures]
      BY <2>1, <2>3 DEF HealthInv, RunInv
    <3>2. ~outcomes[Len(outcomes) - failures]
      BY <2>1, <2>3 DEF FailedSince
    <3>. QED  BY <3>1, <3>2
  <2>. QED  BY <2>2, <2>3 DEF DownIsEarned, HealthInv, StateInv
<1>. QED  BY <1>1, HealthInvHolds, PTL

(* "concurrent polls do not turn into a stampede": two probes are at least *)
(* TTL apart, because a poll's own reading of the clock is never ahead of  *)
(* the time at which it holds the lock.                                    *)
THEOREM SpacedProbes == Spec => ProbesAreSpaced
<1>1. HealthInv /\ [Next]_vars =>
        [lastProbe # Never /\ lastProbe' # lastProbe => lastProbe' - lastProbe >= TTL]_vars
  <2>. SUFFICES ASSUME HealthInv, Next, lastProbe # Never, lastProbe' # lastProbe
                PROVE  lastProbe' - lastProbe >= TTL
    OBVIOUS
  <2>1. PICK t \in Threads : Acquire(t) /\ Stale(t)
    BY DEF Next, Tick, Poll, Acquire, ProbeSucceeds, ProbeFails, Snapshot, healthVars
  <2>2. lastProbe \in Nat /\ asked[t] \in Nat /\ now \in Nat /\ asked[t] <= now
    BY DEF HealthInv, TypeOK, ClockInv
  <2>. QED  BY <2>1, <2>2, HealthAssumption DEF Acquire, Stale
<1>. QED  BY <1>1, HealthInvHolds, PTL DEF Spec, ProbesAreSpaced

(* So the backend is spared: however many stations poll, and however their *)
(* polls overlap, it has answered no more than one probe per TTL since the *)
(* process started, and the first.                                         *)
BackendIsSpared == TTL * Len(outcomes) <= now + TTL

\* Probes answered, and the one that may be under way.
Probes == Len(outcomes) + (IF \E t \in Threads : pc[t] = "probe" THEN 1 ELSE 0)

SpareInv ==
  IF lastProbe = Never THEN Probes = 0 ELSE TTL * Probes <= lastProbe + TTL

(* The bound holds with any number of stations, each poll deciding by the  *)
(* time at which it came in.                                               *)
THEOREM FewProbes == Spec => []BackendIsSpared
<1>. USE HealthAssumption
<1>1. Init => SpareInv
  BY DEF Init, SpareInv, Probes, Never
<1>2. HealthInv /\ SpareInv /\ [Next]_vars => SpareInv'
  <2>. SUFFICES ASSUME HealthInv, SpareInv, [Next]_vars PROVE SpareInv'
    OBVIOUS
  <2>. USE DEF HealthInv
  <2>1. CASE UNCHANGED lastProbe /\ Probes' = Probes
    BY <2>1 DEF SpareInv
  <2>2. CASE Tick \/ UNCHANGED vars
    BY <2>1, <2>2 DEF Tick, Probes, healthVars, vars
  <2>3. ASSUME NEW t \in Threads, Poll(t) \/ Snapshot(t) PROVE SpareInv'
    <3>1. \A u \in Threads : pc'[u] = "probe" <=> pc[u] = "probe"
      BY <2>3 DEF Poll, Snapshot, TypeOK
    <3>. QED  BY <2>1, <2>3, <3>1 DEF Poll, Snapshot, Probes, healthVars
  <2>4. ASSUME NEW t \in Threads, ProbeSucceeds(t) \/ ProbeFails(t) PROVE SpareInv'
    <3>1. Len(outcomes') = Len(outcomes) + 1
      <4>1. \A b \in BOOLEAN : Len(Append(outcomes, b)) = Len(outcomes) + 1
        BY DEF TypeOK
      <4>. QED  BY <2>4, <4>1 DEF ProbeSucceeds, ProbeFails
    <3>2. pc[t] = "probe" /\ \A u \in Threads : pc'[u] # "probe"
      BY <2>4 DEF ProbeSucceeds, ProbeFails, TypeOK, LockInv
    <3>3. Probes' = Probes
      BY <3>1, <3>2 DEF Probes, TypeOK
    <3>. QED  BY <2>1, <2>4, <3>3 DEF ProbeSucceeds, ProbeFails
  <2>5. ASSUME NEW t \in Threads, Acquire(t) PROVE SpareInv'
    <3>1. \A u \in Threads : pc[u] # "probe"
      BY <2>5 DEF Acquire, LockInv
    <3>2. CASE ~Stale(t)
      <4>1. \A u \in Threads : pc'[u] # "probe"
        BY <2>5, <3>1, <3>2 DEF Acquire, TypeOK
      <4>. QED  BY <2>1, <2>5, <3>1, <3>2, <4>1 DEF Acquire, Probes
    <3>3. CASE Stale(t)
      <4>1. pc'[t] = "probe" /\ lastProbe' = now /\ outcomes' = outcomes
        BY <2>5, <3>3 DEF Acquire, TypeOK
      <4>2. Probes \in Nat /\ Probes' = Probes + 1
        BY <3>1, <4>1 DEF Probes, TypeOK
      <4>3. TTL * (Probes + 1) = TTL * Probes + TTL
        BY <4>2
      <4>4. now \in Nat /\ asked[t] \in Nat /\ asked[t] <= now /\ TTL * Probes \in Nat
        BY <4>2 DEF TypeOK, ClockInv
      <4>5. lastProbe' # Never
        BY <4>1, <4>4 DEF Never
      <4>6. TTL * Probes <= now
        <5>1. CASE lastProbe = Never
          <6>1. TTL * Probes = 0
            BY <5>1 DEF SpareInv
          <6>. QED  BY <4>4, <6>1
        <5>2. CASE lastProbe # Never
          BY <3>3, <4>4, <5>2 DEF Stale, SpareInv, TypeOK
        <5>. QED  BY <5>1, <5>2
      <4>7. TTL * Probes' <= lastProbe' + TTL
        BY <4>1, <4>2, <4>3, <4>4, <4>6
      <4>. QED  BY <4>5, <4>7 DEF SpareInv
    <3>. QED  BY <3>2, <3>3
  <2>. QED  BY <2>2, <2>3, <2>4, <2>5 DEF Next
<1>3. HealthInv /\ SpareInv => BackendIsSpared
  <2>. SUFFICES ASSUME HealthInv, SpareInv PROVE TTL * Len(outcomes) <= now + TTL
    BY DEF BackendIsSpared
  <2>1. /\ now \in Nat /\ Len(outcomes) \in Nat
        /\ lastProbe = Never \/ (lastProbe \in Nat /\ lastProbe <= now)
    BY DEF HealthInv, TypeOK, ClockInv
  <2>2. CASE lastProbe = Never
    <3>1. Len(outcomes) = 0
      BY <2>1, <2>2 DEF SpareInv, Probes
    <3>. QED  BY <2>1, <3>1
  <2>3. CASE lastProbe # Never
    <3>1. /\ TTL * Probes <= lastProbe + TTL
          /\ Probes = Len(outcomes) \/ Probes = Len(outcomes) + 1
      BY <2>3 DEF SpareInv, Probes
    <3>2. TTL * (Len(outcomes) + 1) = TTL * Len(outcomes) + TTL /\ TTL * Len(outcomes) \in Nat
      BY <2>1
    <3>. QED  BY <2>1, <2>3, <3>1, <3>2
  <2>. QED  BY <2>2, <2>3
<1>. QED  BY <1>1, <1>2, <1>3, HealthInvHolds, PTL DEF Spec
=============================================================================
