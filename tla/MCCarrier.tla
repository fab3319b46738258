----------------------------- MODULE MCCarrier -----------------------------
(* Values for the runs of Carrier.                                         *)
EXTENDS Carrier

Box(l, w, h) == [l |-> l, w |-> w, h |-> h]

DefaultRules ==
  [crossover |-> 3, dimWarn |-> 10, dimOverride |-> 15, longest |-> 30,
   maxWeight |-> 15, ruralPaid |-> 5, upsPaid |-> 5]

ReasonKeys == {"USPS_BOX", "UPS_BOX", "WEIGHT_USPS", "WEIGHT_UPS", "OB_USPS", "OB_UPS",
               "DIM_OVERRIDE"}

Outfitted ==
  [rules    |-> DefaultRules,
   reasons  |-> [key \in ReasonKeys |-> key],
   boxes    |-> [b \in {"1", "2", "3"} |->
                   CASE b = "1" -> [size |-> Box(12, 4, 9), preference |-> "USPS"]
                     [] b = "2" -> [size |-> Box(20, 12, 10), preference |-> "WEIGHT_THRESHOLD"]
                     [] OTHER -> [size |-> Box(16, 14, 4), preference |-> "UPS"]],
   fedex    |-> [f \in {"FDXENV", "FDXMED", "FDXLRG"} |->
                   CASE f = "FDXENV" -> [size |-> Box(13, 10, 1), type |-> "03"]
                     [] f = "FDXMED" -> [size |-> Box(9, 13, 5), type |-> "14"]
                     [] OTHER -> [size |-> Box(18, 13, 12), type |-> "15"]],
   oneRate  |-> <<"FDXENV", "FDXMED", "FDXLRG">>,
   methods  |-> Overrides,
   services |-> DOMAIN ServiceCarrier]

\* Fewer reasons, other preferences and thresholds.
Retuned ==
  [Outfitted EXCEPT
     !.rules = [DefaultRules EXCEPT !.ruralPaid = 10, !.maxWeight = 5],
     !.reasons = [key \in {"USPS_BOX", "OB_UPS"} |-> key],
     !.boxes = [b \in {"1", "2"} |-> [size |-> Box(20, 12, 10),
                                     preference |-> IF b = "1" THEN "UPS" ELSE "USPS"]]]

\* A fresh installation: no methods, no services, no boxes.
Fresh ==
  [Outfitted EXCEPT !.boxes = << >>, !.fedex = << >>, !.oneRate = << >>,
                    !.methods = {}, !.services = {}]

MCConfigs == {Outfitted, Retuned, Fresh}

MCOrders ==
  [method : {{"ups"}, {"usps", "priority"}, {"priority"}, {"fedex", "2day"}, {}},
   rural : BOOLEAN, poBox : BOOLEAN, abroad : {FALSE}, paid : {0, 7}]
    \cup {[method |-> {"ups"}, rural |-> TRUE, poBox |-> FALSE, abroad |-> TRUE, paid |-> 0]}

MCSizes == {Box(10, 8, 6), Box(31, 4, 4)}
=============================================================================
