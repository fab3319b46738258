------------------------------- MODULE MCAgent -------------------------------
(* Values for the run of Agent: both ends of the value's range, readings   *)
(* below zero, and a scale that shows kilograms (unit 3).  (TLC's integers *)
(* have 32 bits, which bounds value and exponent together.)                *)
EXTENDS Agent

Shows(value, exponent, unit) == [value |-> value, exponent |-> exponent, unit |-> unit]

MCReadings ==
  [value : {-32768, -1, 0, 1, 7, 125, 255, 256, 32767}, exponent : {-3, -2, -1},
   unit : {Ounces, Pounds}]
    \cup {Shows(32767, -4, Pounds), Shows(35, 0, Ounces), Shows(3, 1, Pounds), Shows(120, -2, 3)}
=============================================================================
