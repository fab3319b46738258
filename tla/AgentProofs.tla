---------------------------- MODULE AgentProofs ----------------------------
(***************************************************************************)
(* Proofs about Agent, for any number of prints and weighings and any      *)
(* readings of 16 bits.                                                    *)
(***************************************************************************)
EXTENDS Agent, TLAPS

USE AgentAssumption

(* Two's complement in two bytes: what the agent puts together again is    *)
(* the value the scale has taken apart.                                    *)
LEMMA WordIs ==
  ASSUME NEW v \in Int, -32768 <= v, v <= 32767
  PROVE  /\ v % 65536 = IF v < 0 THEN v + 65536 ELSE v
         /\ (v % 65536) % 256 = v % 256
<1>1. CASE v >= 0
  BY <1>1
<1>2. CASE v < 0
  <2>1. v % 65536 = v + 65536
    BY <1>2
  <2>2. (v + 65536) % 256 = v % 256
    OBVIOUS
  <2> QED
    BY <1>2, <2>1, <2>2
<1> QED
  BY <1>1, <1>2

LEMMA ValueIsDecoded ==
  ASSUME NEW v \in Int, -32768 <= v, v <= 32767,
         NEW raw, raw = (v % 256) + 256 * ((v % 65536) \div 256)
  PROVE  v = IF raw > 32767 THEN raw - 65536 ELSE raw
<1>1. PICK word \in Int : word = v % 65536
  OBVIOUS
<1>2. word = 256 * (word \div 256) + (word % 256)
  OBVIOUS
<1>3. raw = word
  BY <1>1, <1>2, WordIs
<1>4. word = IF v < 0 THEN v + 65536 ELSE v
  BY <1>1, WordIs
<1> QED
  BY <1>3, <1>4

LEMMA ExponentIsDecoded ==
  ASSUME NEW e \in Int, -4 <= e, e <= 127
  PROVE  e = IF e % 256 > 127 THEN (e % 256) - 256 ELSE e % 256
<1>1. CASE e >= 0
  <2>1. e % 256 = e
    BY <1>1
  <2> QED
    BY <2>1
<1>2. CASE e < 0
  <2>1. e % 256 = e + 256
    BY <1>2
  <2> QED
    BY <1>2, <2>1
<1> QED
  BY <1>1, <1>2

(* The weight the scale shows, in 1/160000 pound, before the least weight. *)
Shown16(reading) ==
  reading.value * 10 ^ (4 + reading.exponent) * (IF reading.unit = Ounces THEN 1 ELSE 16)

LEMMA ShownIsDecoded ==
  ASSUME NEW reading \in Readings
  PROVE  /\ Shown16(reading) \in Int
         /\ Weight16(Report(reading)) = IF Shown16(reading) < 10000 THEN 10000 ELSE Shown16(reading)
<1> DEFINE report == Report(reading)
<1>1. /\ reading.value \in Int /\ -32768 <= reading.value /\ reading.value <= 32767
      /\ reading.exponent \in Int /\ -4 <= reading.exponent /\ reading.exponent <= 127
  OBVIOUS
<1>2. /\ report.low = reading.value % 256 /\ report.high = (reading.value % 65536) \div 256
      /\ report.exponent = reading.exponent % 256 /\ report.unit = reading.unit
  BY DEF Report
<1> HIDE DEF report
<1> DEFINE raw == report.low + 256 * report.high
           value == IF raw > 32767 THEN raw - 65536 ELSE raw
           exponent == IF report.exponent > 127 THEN report.exponent - 256 ELSE report.exponent
<1>3. raw = (reading.value % 256) + 256 * ((reading.value % 65536) \div 256)
  BY <1>2
<1> HIDE DEF raw
<1>4. value = reading.value
  BY <1>1, <1>3, ValueIsDecoded
<1>5. exponent = reading.exponent
  BY <1>1, <1>2, ExponentIsDecoded
<1>6. Shown16(reading) \in Int
  <2>1. 10 ^ (4 + reading.exponent) \in Int
    BY <1>1
  <2>2. (IF reading.unit = Ounces THEN 1 ELSE 16) \in Int
    OBVIOUS
  <2> DEFINE power == 10 ^ (4 + reading.exponent)
             share == IF reading.unit = Ounces THEN 1 ELSE 16
  <2> HIDE DEF power, share
  <2>3. reading.value * power * share \in Int
    BY <1>1, <2>1, <2>2 DEF power, share
  <2> QED
    BY <2>3 DEF Shown16, power, share
<1>7. Weight16(report) =
        LET weighed == value * 10 ^ (4 + exponent) * (IF report.unit = Ounces THEN 1 ELSE 16)
        IN  IF weighed < 10000 THEN 10000 ELSE weighed
  BY DEF Weight16, raw
<1> HIDE DEF value, exponent
<1>8. Weight16(report) = IF Shown16(reading) < 10000 THEN 10000 ELSE Shown16(reading)
  BY <1>2, <1>4, <1>5, <1>7 DEF Shown16
<1> QED
  BY <1>6, <1>8 DEF report

LEMMA RoundedIs ==
  ASSUME NEW x \in Int, x >= 10000, NEW t \in Rounded(x)
  PROVE  /\ t \in Nat /\ 16 * t - x \in -8..8
         /\ x = 10000 => t = 625
<1>1. PICK below \in Int : below = x \div 16 /\ 16 * below <= x /\ x < 16 * below + 16
  OBVIOUS
<1>2. t \in {below, below + 1} /\ 16 * t - x \in -8..8
  BY <1>1 DEF Rounded
<1> QED
  BY <1>1, <1>2

-----------------------------------------------------------------------------
(* What a weighing has answered is what the scale showed, decoded.         *)
WeightInv ==
  \A w \in Weighings : answer[w] = "success" =>
    shown[w] \in Readings /\ weight[w] \in Rounded(Weight16(Report(shown[w])))

(* A print alone has the file to itself from the moment it has emptied it. *)
PrintInv ==
  /\ \A p \in Prints : pc[p] = "idle" => paper[p] = None /\ answer[p] = None
  /\ \A p \in alone :
       /\ \A q \in Busy : q = p
       /\ pc[p] # "idle"
       /\ pc[p] \in {"open", "write", "copy"} => paper[p] = None /\ answer[p] = None
       /\ pc[p] = "write" => temp = Empty
       /\ pc[p] = "copy" => temp = p
  /\ PrintsAreOwn

(* Every variable keeps its type: a weight that is answered is a natural   *)
(* number of 1/10000 pound.                                                *)
THEOREM AgentTypeCorrect == Spec => []TypeOK
<1>1. Init => TypeOK
  BY DEF Init, TypeOK
<1>2. TypeOK /\ [Next]_vars => TypeOK'
  <2> SUFFICES ASSUME TypeOK, [Next]_vars PROVE TypeOK'
    OBVIOUS
  <2> USE DEF TypeOK
  <2>1. ASSUME NEW p \in Prints, PrintRequest(p) PROVE TypeOK'
    BY <2>1 DEF PrintRequest, Goto, scaleVars
  <2>2. ASSUME NEW p \in Prints, OpenTemp(p) PROVE TypeOK'
    BY <2>2 DEF OpenTemp, GivesUp, Goto, Say, scaleVars
  <2>3. ASSUME NEW p \in Prints, WriteTemp(p) PROVE TypeOK'
    BY <2>3 DEF WriteTemp, GivesUp, Goto, Say, scaleVars
  <2>4. ASSUME NEW p \in Prints, CopyTemp(p) PROVE TypeOK'
    BY <2>4 DEF CopyTemp, Goto, Say, scaleVars
  <2>5. ASSUME NEW p \in Prints, RemoveTemp(p) PROVE TypeOK'
    BY <2>5 DEF RemoveTemp, Goto, scaleVars
  <2>6. ASSUME NEW w \in Weighings, ScaleRequest(w) PROVE TypeOK'
    BY <2>6 DEF ScaleRequest, Goto, printVars, scaleVars
  <2>7. ASSUME NEW w \in Weighings, ScaleAttempt(w) PROVE TypeOK'
    <3>1. ASSUME NEW reading \in Readings, NEW t \in Rounded(Weight16(Report(reading)))
          PROVE  t \in Nat
      BY ShownIsDecoded, RoundedIs
    <3>2. weight' = weight \/ \E reading \in Readings :
                                \E t \in Rounded(Weight16(Report(reading))) :
                                   weight' = [weight EXCEPT ![w] = t]
      BY <2>7 DEF ScaleAttempt, scaleVars
    <3>3. weight' \in [Weighings -> Nat \cup {None}]
      BY <3>1, <3>2
    <3>4. shown' \in [Weighings -> Readings \cup {None}]
      BY <2>7 DEF ScaleAttempt, scaleVars
    <3>5. attempt' \in [Weighings -> 0..2]
      BY <2>7 DEF ScaleAttempt, scaleVars
    <3>6. /\ pc' \in [Prints \cup Weighings ->
                        {"idle", "open", "write", "copy", "remove", "attempt", "done"}]
          /\ answer' \in [Prints \cup Weighings -> {"success", "error", None}]
      BY <2>7 DEF ScaleAttempt, Goto, Say
    <3> QED
      BY <2>7, <3>3, <3>4, <3>5, <3>6 DEF ScaleAttempt, printVars
  <2>8. CASE UNCHANGED vars
    BY <2>8 DEF vars, printVars, scaleVars
  <2> QED
    BY <2>1, <2>2, <2>3, <2>4, <2>5, <2>6, <2>7, <2>8 DEF Next
<1> QED
  BY <1>1, <1>2, PTL DEF Spec

(* The weight answered is what the scale showed, for every value of 16     *)
(* bits and every exponent.                                                *)
THEOREM WeightHolds == Spec => []WeightIsScales
<1>1. Init => WeightInv
  BY DEF Init, WeightInv
<1>2. TypeOK /\ WeightInv /\ [Next]_vars => WeightInv'
  <2> SUFFICES ASSUME TypeOK, WeightInv, [Next]_vars PROVE WeightInv'
    OBVIOUS
  <2>1. ASSUME NEW p \in Prints,
               PrintRequest(p) \/ OpenTemp(p) \/ WriteTemp(p) \/ CopyTemp(p) \/ RemoveTemp(p)
        PROVE  WeightInv'
    <3>1. UNCHANGED <<shown, weight>> /\ \A w \in Weighings : answer'[w] = answer[w]
      BY <2>1 DEF PrintRequest, OpenTemp, WriteTemp, CopyTemp, RemoveTemp, GivesUp, Say,
                  scaleVars, TypeOK
    <3> QED
      BY <3>1 DEF WeightInv
  <2>2. ASSUME NEW w \in Weighings, ScaleAttempt(w) PROVE WeightInv'
    <3>1. ASSUME NEW reading \in Readings, NEW t \in Rounded(Weight16(Report(reading))),
                 shown' = [shown EXCEPT ![w] = reading], weight' = [weight EXCEPT ![w] = t],
                 Say(w, "success")
          PROVE  WeightInv'
      <4>1. shown'[w] = reading /\ weight'[w] = t
        BY <3>1 DEF TypeOK
      <4>2. \A v \in Weighings \ {w} :
              shown'[v] = shown[v] /\ weight'[v] = weight[v] /\ answer'[v] = answer[v]
        BY <3>1 DEF TypeOK, Say
      <4> QED
        BY <4>1, <4>2 DEF WeightInv
    <3>2. ASSUME UNCHANGED <<shown, weight>>, answer' = answer \/ Say(w, "error")
          PROVE  WeightInv'
      <4>1. \A v \in Weighings : answer'[v] = "success" => answer[v] = "success"
        BY <3>2 DEF TypeOK, Say
      <4> QED
        BY <3>2, <4>1 DEF WeightInv
    <3> QED
      BY <2>2, <3>1, <3>2 DEF ScaleAttempt, scaleVars
  <2>3. ASSUME UNCHANGED <<shown, weight, answer>> PROVE WeightInv'
    BY <2>3 DEF WeightInv
  <2> QED
    BY <2>1, <2>2, <2>3 DEF Next, ScaleRequest, vars, scaleVars
<1>3. WeightInv => WeightIsScales
  <2> SUFFICES ASSUME WeightInv, NEW w \in Weighings, answer[w] = "success",
                      shown[w].unit \in {Ounces, Pounds}
               PROVE  LET share == IF shown[w].unit = Pounds THEN 16 ELSE 1
                          weighed == shown[w].value * 10 ^ (4 + shown[w].exponent) * share
                      IN IF weighed <= 10000 THEN weight[w] = 625
                                             ELSE 16 * weight[w] - weighed \in -8..8
    BY DEF WeightIsScales
  <2>1. shown[w] \in Readings /\ weight[w] \in Rounded(Weight16(Report(shown[w])))
    BY DEF WeightInv
  <2> DEFINE weighed == Shown16(shown[w])
  <2>2. weighed \in Int /\ Weight16(Report(shown[w])) = IF weighed < 10000 THEN 10000 ELSE weighed
    BY <2>1, ShownIsDecoded
  <2>3. weighed = shown[w].value * 10 ^ (4 + shown[w].exponent)
                    * (IF shown[w].unit = Pounds THEN 16 ELSE 1)
    BY DEF Shown16, Ounces, Pounds
  <2> HIDE DEF weighed
  <2>4. IF weighed <= 10000 THEN weight[w] = 625 ELSE 16 * weight[w] - weighed \in -8..8
    <3>1. CASE weighed <= 10000
      BY <2>1, <2>2, <3>1, RoundedIs
    <3>2. CASE weighed > 10000
      BY <2>1, <2>2, <3>2, RoundedIs
    <3> QED
      BY <2>2, <3>1, <3>2
  <2> QED
    BY <2>3, <2>4
<1> QED
  BY <1>1, <1>2, <1>3, AgentTypeCorrect, PTL DEF Spec

(* A print that no other overlaps prints its own label or nothing.         *)
THEOREM OwnPrints == Spec => []PrintsAreOwn
<1>1. Init => PrintInv
  BY DEF Init, PrintInv, PrintsAreOwn, Busy
<1>2. TypeOK /\ PrintInv /\ [Next]_vars => PrintInv'
  <2> SUFFICES ASSUME TypeOK, PrintInv, [Next]_vars PROVE PrintInv'
    OBVIOUS
  <2>1. ASSUME NEW p \in Prints, PrintRequest(p) PROVE PrintInv'
    BY <2>1 DEF PrintRequest, Goto, PrintInv, PrintsAreOwn, Busy, TypeOK
  <2>2. ASSUME NEW p \in Prints, OpenTemp(p) PROVE PrintInv'
    BY <2>2 DEF OpenTemp, GivesUp, Goto, Say, PrintInv, PrintsAreOwn, Busy, TypeOK
  <2>3. ASSUME NEW p \in Prints, WriteTemp(p) PROVE PrintInv'
    BY <2>3 DEF WriteTemp, GivesUp, Goto, Say, PrintInv, PrintsAreOwn, Busy, TypeOK
  <2>4. ASSUME NEW p \in Prints, CopyTemp(p) PROVE PrintInv'
    BY <2>4 DEF CopyTemp, Goto, Say, PrintInv, PrintsAreOwn, Busy, TypeOK
  <2>5. ASSUME NEW p \in Prints, RemoveTemp(p) PROVE PrintInv'
    BY <2>5 DEF RemoveTemp, Goto, PrintInv, PrintsAreOwn, Busy, TypeOK
  <2>6. ASSUME NEW w \in Weighings, ScaleRequest(w) \/ ScaleAttempt(w) PROVE PrintInv'
    <3>1. UNCHANGED <<temp, paper, alone>>
          /\ \A p \in Prints : pc'[p] = pc[p] /\ answer'[p] = answer[p]
      BY <2>6 DEF ScaleRequest, ScaleAttempt, Goto, Say, printVars, TypeOK
    <3>2. Busy' = Busy
      BY <3>1 DEF Busy
    <3> QED
      BY <3>1, <3>2 DEF PrintInv, PrintsAreOwn, TypeOK
  <2>7. CASE UNCHANGED vars
    BY <2>7 DEF vars, printVars, PrintInv, PrintsAreOwn, Busy
  <2> QED
    BY <2>1, <2>2, <2>3, <2>4, <2>5, <2>6, <2>7 DEF Next
<1>3. PrintInv => PrintsAreOwn
  BY DEF PrintInv
<1> QED
  BY <1>1, <1>2, <1>3, AgentTypeCorrect, PTL DEF Spec

-----------------------------------------------------------------------------
(***************************************************************************)
(* Why every request is answered at last (the run "agent" checks that it   *)
(* is, under the fairness of Spec): the steps a request still needs become *)
(* fewer with each that serves it, those of other requests take none back, *)
(* and a request that has made them all has its answer.                    *)
(***************************************************************************)
StepsLeft(r) ==
  CASE pc[r] = "idle" -> 5 [] pc[r] = "open" -> 4 [] pc[r] = "write" -> 3
    [] pc[r] = "copy" -> 2 [] pc[r] = "remove" -> 1 [] pc[r] = "done" -> 0
    [] pc[r] = "attempt" -> 3 - attempt[r]

EachStepCounts ==
  [][\A r \in Prints \cup Weighings :
       /\ pc[r] # "idle" /\ Serve(r) => StepsLeft(r)' < StepsLeft(r)
       /\ StepsLeft(r)' <= StepsLeft(r)]_vars

DoneIsAnswered ==
  \A r \in Prints \cup Weighings : pc[r] = "done" => answer[r] \in {"success", "error"}

\* A weighing has an attempt left while it runs; a print has its answer before it cleans up.
TurnInv ==
  /\ \A w \in Weighings : pc[w] \in {"idle", "attempt", "done"} /\ attempt[w] \in 0..2
  /\ \A p \in Prints : pc[p] # "attempt"
  /\ \A r \in Prints \cup Weighings :
       pc[r] \in {"remove", "done"} => answer[r] \in {"success", "error"}

(* The scale is never tried more than three times, and no thread ends      *)
(* before it has said something.                                           *)
THEOREM TurnInvHolds == Spec => []TurnInv
<1>1. Init => TurnInv
  BY DEF Init, TurnInv
<1>2. TypeOK /\ TurnInv /\ [Next]_vars => TurnInv'
  <2> SUFFICES ASSUME TypeOK, TurnInv, [Next]_vars PROVE TurnInv'
    OBVIOUS
  <2> USE DEF TypeOK, TurnInv
  <2>1. ASSUME NEW p \in Prints, PrintRequest(p) PROVE TurnInv'
    BY <2>1 DEF PrintRequest, Goto, scaleVars
  <2>2. ASSUME NEW p \in Prints, OpenTemp(p) \/ WriteTemp(p) PROVE TurnInv'
    BY <2>2 DEF OpenTemp, WriteTemp, GivesUp, Goto, Say, scaleVars
  <2>3. ASSUME NEW p \in Prints, CopyTemp(p) \/ RemoveTemp(p) PROVE TurnInv'
    BY <2>3 DEF CopyTemp, RemoveTemp, Goto, Say, scaleVars
  <2>4. ASSUME NEW w \in Weighings, ScaleRequest(w) PROVE TurnInv'
    BY <2>4 DEF ScaleRequest, Goto, scaleVars
  <2>5. ASSUME NEW w \in Weighings, ScaleAttempt(w) PROVE TurnInv'
    BY <2>5 DEF ScaleAttempt, Goto, Say, scaleVars
  <2>6. CASE UNCHANGED vars
    BY <2>6 DEF vars, scaleVars
  <2> QED
    BY <2>1, <2>2, <2>3, <2>4, <2>5, <2>6 DEF Next
<1> QED
  BY <1>1, <1>2, AgentTypeCorrect, PTL DEF Spec

(* A request is never done without an answer.                              *)
THEOREM NoSilence == Spec => []DoneIsAnswered
<1>1. TurnInv => DoneIsAnswered
  BY DEF TurnInv, DoneIsAnswered
<1> QED
  BY <1>1, TurnInvHolds, PTL

(* Serving a request brings it nearer to its end.                          *)
LEMMA ServingCounts ==
  ASSUME TypeOK, TurnInv, NEW r \in Prints \cup Weighings, Serve(r)
  PROVE  StepsLeft(r)' < StepsLeft(r)
<1> USE DEF TypeOK, TurnInv, Goto
<1>1. CASE r \in Prints /\ (OpenTemp(r) \/ WriteTemp(r))
  BY <1>1 DEF OpenTemp, WriteTemp, GivesUp, StepsLeft
<1>2. CASE r \in Prints /\ (CopyTemp(r) \/ RemoveTemp(r))
  BY <1>2 DEF CopyTemp, RemoveTemp, StepsLeft
<1>3. CASE r \in Weighings /\ ScaleAttempt(r)
  <2>1. pc[r] = "attempt" /\ attempt[r] \in 0..2
    BY <1>3 DEF ScaleAttempt
  <2>2. \/ pc'[r] = "done"
        \/ pc'[r] = "attempt" /\ attempt'[r] = attempt[r] + 1
    BY <1>3 DEF ScaleAttempt
  <2> QED
    BY <2>1, <2>2 DEF StepsLeft
<1> QED
  BY <1>1, <1>2, <1>3 DEF Serve

(* A step of one request leaves what the others still need as it is.       *)
LEMMA OthersStay ==
  ASSUME TypeOK, TurnInv, NEW r \in Prints \cup Weighings, NEW q \in Prints \cup Weighings, q # r,
         Serve(r) \/ (r \in Prints /\ PrintRequest(r)) \/ (r \in Weighings /\ ScaleRequest(r))
  PROVE  StepsLeft(q)' = StepsLeft(q)
<1> USE DEF TypeOK, Goto
<1>1. pc'[q] = pc[q]
  BY DEF Serve, PrintRequest, OpenTemp, WriteTemp, CopyTemp, RemoveTemp, GivesUp, ScaleRequest,
         ScaleAttempt
<1>2. q \in Weighings => attempt'[q] = attempt[q]
  BY DEF Serve, PrintRequest, OpenTemp, WriteTemp, CopyTemp, RemoveTemp, ScaleRequest,
         ScaleAttempt, scaleVars
<1>3. q \in Prints => pc[q] # "attempt"
  BY DEF TurnInv
<1> QED
  BY <1>1, <1>2, <1>3 DEF StepsLeft

(* Retries included, each request is a few steps from its answer.          *)
THEOREM StepsRunOut == Spec => EachStepCounts
<1> DEFINE Counts(r) == /\ pc[r] # "idle" /\ Serve(r) => StepsLeft(r)' < StepsLeft(r)
                        /\ StepsLeft(r)' <= StepsLeft(r)
<1>1. TypeOK /\ TurnInv => \A r \in Prints \cup Weighings : StepsLeft(r) \in 0..5
  <2> SUFFICES ASSUME TypeOK, TurnInv, NEW r \in Prints \cup Weighings
               PROVE  StepsLeft(r) \in 0..5
    OBVIOUS
  <2>1. CASE pc[r] = "attempt"
    <3>1. attempt[r] \in 0..2
      BY <2>1 DEF TurnInv
    <3> QED
      BY <2>1, <3>1 DEF StepsLeft
  <2>2. CASE pc[r] # "attempt"
    BY <2>2 DEF TypeOK, StepsLeft
  <2> QED
    BY <2>1, <2>2
<1>2. (TypeOK /\ TurnInv)' => (\A r \in Prints \cup Weighings : StepsLeft(r) \in 0..5)'
  BY <1>1, PTL
<1>3. TypeOK /\ TypeOK' /\ TurnInv /\ TurnInv' /\ [Next]_vars =>
        [\A r \in Prints \cup Weighings : Counts(r)]_vars
  <2> SUFFICES ASSUME TypeOK, TypeOK', TurnInv, TurnInv', Next,
                      NEW r \in Prints \cup Weighings
               PROVE  Counts(r)
    OBVIOUS
  <2>1. StepsLeft(r) \in 0..5 /\ StepsLeft(r)' \in 0..5
    BY <1>1, <1>2
  <2>2. Serve(r) => StepsLeft(r)' < StepsLeft(r)
    BY ServingCounts
  <2>3. PICK q \in Prints \cup Weighings :
          Serve(q) \/ (q \in Prints /\ PrintRequest(q)) \/ (q \in Weighings /\ ScaleRequest(q))
    BY DEF Next, Serve
  <2>4. CASE q # r
    <3>1. StepsLeft(r)' = StepsLeft(r)
      BY <2>3, <2>4, OthersStay
    <3> QED
      BY <2>1, <2>2, <3>1
  <2>5. CASE q = r /\ ~Serve(q)
    <3>1. pc[r] = "idle"
      BY <2>3, <2>5 DEF PrintRequest, ScaleRequest
    <3>2. StepsLeft(r) = 5
      BY <3>1 DEF StepsLeft
    <3> QED
      BY <2>1, <2>5, <3>2
  <2> QED
    BY <2>1, <2>2, <2>3, <2>4, <2>5
<1> QED
  BY <1>3, AgentTypeCorrect, TurnInvHolds, PTL DEF Spec, EachStepCounts
=============================================================================
