----------------------------- MODULE MCStation -----------------------------
(* Values for the runs of Station.                                         *)
EXTENDS Station

MCDialog ==
  [o \in Orders |-> CASE o \in {"A", "X"} -> "amazon" [] o = "H" -> "highvalue"
                       [] o = "P" -> "pickup" [] o = "F" -> None]
MCItems == [o \in Orders |-> 1]
=============================================================================
