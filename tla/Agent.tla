-------------------------------- MODULE Agent --------------------------------
(***************************************************************************)
(* The workstation's agent (agent/agent.py): a threaded server that prints *)
(* labels and reads the scale for the station's page.  All prints of a     *)
(* station go through one temporary file; a reading is decoded from the    *)
(* bytes of the scale's report after up to three attempts.                 *)
(*                                                                         *)
(* A print is known by the label it brings, a label by its ZPL.  Weights   *)
(* are counted in 1/10000 pound.                                           *)
(***************************************************************************)
EXTENDS Integers

CONSTANTS
  Prints,     \* requests to /print
  Weighings,  \* requests to /scale
  Readings,   \* what the scale may show: value, exponent and unit
  None,       \* nothing: no file, no answer
  Empty,      \* an empty file
  Mixed       \* an old label, or what two prints have written over each other

Ounces == 11
Pounds == 12

ASSUME AgentAssumption ==
  /\ Prints \cap Weighings = {}
  /\ None \notin Prints \cup {"success", "error"} /\ Empty \notin Prints \cup {None}
  /\ Mixed \notin Prints \cup {None, Empty}
  /\ Readings \subseteq [value : Int, exponent : Int, unit : 0..255]
  /\ \A reading \in Readings :
       /\ -32768 <= reading.value /\ reading.value <= 32767
       /\ -4 <= reading.exponent /\ reading.exponent <= 127

VARIABLES
  temp,     \* what is in _temp_label.zpl
  pc,       \* [Prints \cup Weighings -> where the request stands]
  paper,    \* [Prints -> what its copy sent to the printer]
  answer,   \* [Prints \cup Weighings -> "success", "error" or None]
  attempt,  \* [Weighings -> attempts made]
  shown,    \* [Weighings -> what the scale showed when it was read]
  weight,   \* [Weighings -> the weight answered]
  alone     \* prints that no other print has overlapped so far, for the properties only

printVars == <<temp, paper, alone>>
scaleVars == <<attempt, shown, weight>>
vars == <<printVars, scaleVars, pc, answer>>

Busy == {p \in Prints : pc[p] \notin {"idle", "done"}}

TypeOK ==
  /\ temp \in Prints \cup {None, Empty, Mixed}
  /\ pc \in [Prints \cup Weighings ->
               {"idle", "open", "write", "copy", "remove", "attempt", "done"}]
  /\ paper \in [Prints -> Prints \cup {None, Empty, Mixed}]
  /\ answer \in [Prints \cup Weighings -> {"success", "error", None}]
  /\ attempt \in [Weighings -> 0..2]
  /\ shown \in [Weighings -> Readings \cup {None}]
  /\ weight \in [Weighings -> Nat \cup {None}]
  /\ alone \subseteq Prints

\* An agent that was stopped may have left the file behind.
Init ==
  /\ temp \in {None, Empty, Mixed}
  /\ pc = [r \in Prints \cup Weighings |-> "idle"]
  /\ paper = [p \in Prints |-> None]
  /\ answer = [r \in Prints \cup Weighings |-> None]
  /\ attempt = [w \in Weighings |-> 0]
  /\ shown = [w \in Weighings |-> None]
  /\ weight = [w \in Weighings |-> None]
  /\ alone = {}

Goto(r, next) == pc' = [pc EXCEPT ![r] = next]
Say(r, word) == answer' = [answer EXCEPT ![r] = word]

(***************************************************************************)
(* /print.                                                                 *)
(***************************************************************************)
PrintRequest(p) ==
  /\ pc[p] = "idle"
  /\ Goto(p, "open")
  /\ alone' = IF Busy = {} THEN {p} ELSE {}
  /\ UNCHANGED <<temp, paper, answer, scaleVars>>

\* An exception that leaves open, write or the copy: on to the finally clause.
GivesUp(p) == Goto(p, "remove") /\ Say(p, "error")

\* A mistake the runs must detect: the file is opened without being emptied.
Bug_OpenKeeps(p) ==
  /\ pc[p] = "open"
  /\ \/ temp' = (IF temp = None THEN Empty ELSE temp) /\ Goto(p, "write") /\ UNCHANGED answer
     \/ GivesUp(p) /\ UNCHANGED temp
  /\ UNCHANGED <<paper, alone, scaleVars>>

OpenTemp(p) ==
  /\ pc[p] = "open"
  /\ \/ temp' = Empty /\ Goto(p, "write") /\ UNCHANGED answer
     \/ GivesUp(p) /\ UNCHANGED temp
  /\ UNCHANGED <<paper, alone, scaleVars>>

\* What another print has written since the file was opened lies under this one's text.
WriteTemp(p) ==
  /\ pc[p] = "write"
  /\ \/ /\ temp' \in IF temp = Empty THEN {p} ELSE {p, Mixed}
        /\ Goto(p, "copy")
        /\ UNCHANGED answer
     \/ GivesUp(p) /\ temp' \in {temp, Mixed}
  /\ UNCHANGED <<paper, alone, scaleVars>>

(* The copy command takes up to 10 s, in which other prints may rewrite    *)
(* the file under it; it fails without a file, may fail with one, and when *)
(* it is stopped after 10 s it may have done its work.                     *)
CopyTemp(p) ==
  /\ pc[p] = "copy"
  /\ LET content == {temp} \cup (IF Busy = {p} THEN {} ELSE {Mixed}) IN
     \/ /\ temp # None
        /\ \E c \in content : paper' = [paper EXCEPT ![p] = c]
        /\ Say(p, "success")
     \/ /\ \E c \in content \cup {None} : paper' = [paper EXCEPT ![p] = c]
        /\ Say(p, "error")
  /\ Goto(p, "remove")
  /\ UNCHANGED <<temp, alone, scaleVars>>

\* finally: the file goes, unless it is open or cannot be removed; the answer is sent.
RemoveTemp(p) ==
  /\ pc[p] = "remove"
  /\ \/ UNCHANGED temp
     \/ temp' = None /\ \A q \in Prints : pc[q] # "write"
  /\ Goto(p, "done")
  /\ UNCHANGED <<paper, alone, answer, scaleVars>>

(***************************************************************************)
(* /scale.  A report: the value as two bytes, the exponent as one, two's   *)
(* complement all, and the unit.                                           *)
(***************************************************************************)
Report(reading) ==
  [low      |-> reading.value % 256,
   high     |-> (reading.value % 65536) \div 256,
   exponent |-> reading.exponent % 256,
   unit     |-> reading.unit]

\* A mistake the runs must detect: the least value keeps its sign bit.
Bug_Weight16(report) ==
  LET raw == report.low + 256 * report.high
      value == IF raw > 32768 THEN raw - 65536 ELSE raw
      exponent == IF report.exponent > 127 THEN report.exponent - 256 ELSE report.exponent
      share == IF report.unit = Ounces THEN 1 ELSE 16
      weighed == value * 10 ^ (4 + exponent) * share
  IN IF weighed < 10000 THEN 10000 ELSE weighed

(* The report's weight in 1/160000 pound; a sixteenth pound at least.      *)
Weight16(report) ==
  LET raw == report.low + 256 * report.high
      value == IF raw > 32767 THEN raw - 65536 ELSE raw
      exponent == IF report.exponent > 127 THEN report.exponent - 256 ELSE report.exponent
      share == IF report.unit = Ounces THEN 1 ELSE 16
      weighed == value * 10 ^ (4 + exponent) * share
  IN IF weighed < 10000 THEN 10000 ELSE weighed

\* round(weight, 4); between two neighbours the floating-point error decides.
Rounded(weight16) ==
  LET below == weight16 \div 16 IN {t \in {below, below + 1} : 16 * t - weight16 \in -8..8}

ScaleRequest(w) ==
  /\ pc[w] = "idle"
  /\ Goto(w, "attempt")
  /\ UNCHANGED <<printVars, scaleVars, answer>>

\* A mistake the runs must detect: the last attempt is not known for the last.
Bug_ScaleAttempt(w) ==
  /\ pc[w] = "attempt"
  /\ \/ \E reading \in Readings :
          /\ shown' = [shown EXCEPT ![w] = reading]
          /\ \E t \in Rounded(Weight16(Report(reading))) : weight' = [weight EXCEPT ![w] = t]
          /\ Say(w, "success") /\ Goto(w, "done")
          /\ UNCHANGED attempt
     \/ attempt' = [attempt EXCEPT ![w] = (@ + 1) % 3] /\ UNCHANGED <<shown, weight, answer, pc>>
  /\ UNCHANGED printVars

(* The device is opened, polled ten times and closed: a report, or none;   *)
(* or an exception, after which the next attempt is made, if any is left.  *)
ScaleAttempt(w) ==
  /\ pc[w] = "attempt"
  /\ \/ \E reading \in Readings :
          /\ shown' = [shown EXCEPT ![w] = reading]
          /\ \E t \in Rounded(Weight16(Report(reading))) : weight' = [weight EXCEPT ![w] = t]
          /\ Say(w, "success") /\ Goto(w, "done")
          /\ UNCHANGED attempt
     \/ Say(w, "error") /\ Goto(w, "done") /\ UNCHANGED scaleVars
     \/ /\ attempt[w] < 2
        /\ attempt' = [attempt EXCEPT ![w] = @ + 1]
        /\ UNCHANGED <<shown, weight, answer, pc>>
     \/ /\ attempt[w] = 2
        /\ Say(w, "error") /\ Goto(w, "done")
        /\ UNCHANGED scaleVars
  /\ UNCHANGED printVars

Serve(r) ==
  \/ r \in Prints /\ (OpenTemp(r) \/ WriteTemp(r) \/ CopyTemp(r) \/ RemoveTemp(r))
  \/ r \in Weighings /\ ScaleAttempt(r)

Next ==
  \/ \E p \in Prints :
       PrintRequest(p) \/ OpenTemp(p) \/ WriteTemp(p) \/ CopyTemp(p) \/ RemoveTemp(p)
  \/ \E w \in Weighings : ScaleRequest(w) \/ ScaleAttempt(w)

(* A thread runs, and every call it makes ends: the copy is stopped after  *)
(* 10 s, the device is read without waiting.                               *)
Spec == Init /\ [][Next]_vars /\ \A r \in Prints \cup Weighings : WF_vars(Serve(r))

-----------------------------------------------------------------------------
(* A print that no other overlaps sends its own label or nothing, and its  *)
(* own if it answers success, whatever earlier prints, failed, overlapped  *)
(* or stopped, have left in the shared file ("Label sent to printer").     *)
PrintsAreOwn ==
  \A p \in alone :
    /\ paper[p] \in {p, None}
    /\ answer[p] = "success" => paper[p] = p

(* The weight answered is what the scale showed, ounces or pounds, to the  *)
(* nearest 1/10000 pound, or one ounce if that is more: neither the sign   *)
(* bits of value and exponent nor the unit are lost on the way.            *)
WeightIsScales ==
  \A w \in Weighings :
    answer[w] = "success" /\ shown[w].unit \in {Ounces, Pounds} =>
      LET share == IF shown[w].unit = Pounds THEN 16 ELSE 1
          weighed == shown[w].value * 10 ^ (4 + shown[w].exponent) * share
      IN IF weighed <= 10000 THEN weight[w] = 625
                             ELSE 16 * weight[w] - weighed \in -8..8

(* Every request to the agent is answered at last, with all its retries    *)
(* and whatever fails: the page's callbacks rely on it.                    *)
RequestsAreAnswered ==
  \A r \in Prints \cup Weighings : pc[r] \notin {"idle", "done"} ~> pc[r] = "done"
=============================================================================
