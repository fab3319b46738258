---------------------------- MODULE CarrierRules ----------------------------
(***************************************************************************)
(* The carrier engine's decisions (app/services/carrier.py) and ShipRush's *)
(* choice of a service (shiprush.py, _resolve_carrier), as operators over  *)
(* what they read of the settings.                                         *)
(*                                                                         *)
(* A ship method is the set of the words the code looks for in its text.   *)
(* A box size is a record of inches, a weight a number of pounds; what is  *)
(* read of the settings (a "view") is a record with the fields             *)
(*   rules    the thresholds of carrier_rules                              *)
(*   reasons  [reason keys that are set -> text]                           *)
(*   boxes    [box -> its size and preference]                             *)
(*   fedex    [FedEx box -> its size and packaging type]                   *)
(*   oneRate  the sequence fedex_one_rate_order                            *)
(***************************************************************************)
EXTENDS Integers, Sequences

CONSTANTS
  None,     \* no carrier, no box
  NoText    \* the empty text of a reason that is not set

CurrentCarrier(method) ==
  IF "fedex" \in method THEN "FEDEX"
  ELSE IF "ups" \in method THEN "UPS"
  ELSE IF method \cap {"usps", "ground advantage", "priority", "first class", "media"} # {}
    THEN "USPS"
  ELSE None

Preference(view, box) ==
  IF box \in DOMAIN view.boxes THEN view.boxes[box].preference ELSE None

DimWeightOver(size, limit) == size.l * size.w * size.h > 139 * limit
LongSideOver(size, limit) == size.l > limit \/ size.w > limit \/ size.h > limit

TooBigForUsps(rules, size, weight) ==
  \/ weight > rules.maxWeight
  \/ DimWeightOver(size, rules.dimOverride)
  \/ LongSideOver(size, rules.longest)

(* What the box's preference, or the size of a box without one, speaks for. *)
Preferred(view, box, size, weight) ==
  CASE Preference(view, box) = "UPS" -> <<"UPS", "UPS_BOX">>
    [] Preference(view, box) = "USPS" -> <<"USPS", "USPS_BOX">>
    [] Preference(view, box) = "WEIGHT_THRESHOLD" ->
         IF weight <= view.rules.crossover THEN <<"USPS", "WEIGHT_USPS">>
                                           ELSE <<"UPS", "WEIGHT_UPS">>
    [] OTHER ->
         IF DimWeightOver(size, view.rules.dimWarn) \/ LongSideOver(size, view.rules.longest)
           THEN <<"UPS", "OB_UPS">>
           ELSE <<"USPS", "OB_USPS">>

DetermineCarrier(view, box, size, weight) ==
  LET preferred == Preferred(view, box, size, weight)
      choice == IF preferred[1] = "USPS" /\ TooBigForUsps(view.rules, size, weight)
                  THEN <<"UPS", "DIM_OVERRIDE">>
                  ELSE preferred
  IN [carrier |-> choice[1],
      reason  |-> IF choice[2] \in DOMAIN view.reasons THEN view.reasons[choice[2]] ELSE NoText]

\* A mistake the runs must detect: a reason that is not set is read as the empty text.
Bug_IsDimOverride(view, reason) ==
  reason = IF "DIM_OVERRIDE" \in DOMAIN view.reasons THEN view.reasons["DIM_OVERRIDE"] ELSE NoText

(* The reason is told from the others by its text; one that is not set     *)
(* equals no text.                                                         *)
IsDimOverride(view, reason) ==
  "DIM_OVERRIDE" \in DOMAIN view.reasons /\ reason = view.reasons["DIM_OVERRIDE"]

\* A mistake the runs must detect: the surcharge rule does not ask for a rural ZIP.
Bug_SurchargeAnywhere(view, order, box, optimal) ==
  /\ CurrentCarrier(order.method) = "UPS"
  /\ order.paid <= view.rules.ruralPaid
  /\ optimal = "USPS" \/ Preference(view, box) = "USPS"

AvoidsSurcharge(view, order, box, optimal) ==
  /\ order.rural /\ CurrentCarrier(order.method) = "UPS"
  /\ order.paid <= view.rules.ruralPaid
  /\ optimal = "USPS" \/ Preference(view, box) = "USPS"

\* A mistake the runs must detect: a PO box is no reason to stay with USPS.
Bug_KeepsNoPoBox(view, order, optimal) ==
  LET current == CurrentCarrier(order.method) IN
  \/ /\ optimal.carrier = "USPS" /\ current = "UPS"
     /\ order.paid > view.rules.upsPaid
  \/ /\ optimal.carrier = "UPS" /\ current = "USPS"
     /\ order.rural /\ ~IsDimOverride(view, optimal.reason)

(* The customer has paid for UPS; rural, though not too big; a PO box.     *)
KeepsCurrent(view, order, optimal) ==
  LET current == CurrentCarrier(order.method) IN
  \/ /\ optimal.carrier = "USPS" /\ current = "UPS"
     /\ order.paid > view.rules.upsPaid
  \/ /\ optimal.carrier = "UPS" /\ current = "USPS"
     /\ order.poBox \/ (order.rural /\ ~IsDimOverride(view, optimal.reason))

(* check_carrier_conflict: the carrier to suggest, or None.  It reads the  *)
(* settings (view), calls determine_carrier, which reads them again        *)
(* (inner), and compares what that returns with what it has read itself.   *)
CheckConflict(view, inner, order, box, size, weight) ==
  LET optimal == DetermineCarrier(inner, box, size, weight)
      current == CurrentCarrier(order.method)
  IN IF "fedex" \in order.method \/ order.abroad THEN None
     ELSE IF AvoidsSurcharge(view, order, box, optimal.carrier) THEN "USPS"
     ELSE IF current # None /\ optimal.carrier # current /\ ~KeepsCurrent(view, order, optimal)
       THEN optimal.carrier
     ELSE None

-----------------------------------------------------------------------------
LeastOf(a, b) == IF a <= b THEN a ELSE b
MostOf(a, b) == IF a <= b THEN b ELSE a

Least(size) == LeastOf(size.l, LeastOf(size.w, size.h))
Most(size) == MostOf(size.l, MostOf(size.w, size.h))
Middle(size) == size.l + size.w + size.h - Least(size) - Most(size)

\* A mistake the runs must detect: sides are compared as they come.
Bug_BoxFits(inside, box) == inside.l <= box.l /\ inside.w <= box.w /\ inside.h <= box.h

(* Both boxes' sides are sorted and compared one by one.                   *)
BoxFits(inside, box) ==
  /\ Least(inside) <= Least(box)
  /\ Middle(inside) <= Middle(box)
  /\ Most(inside) <= Most(box)

(* What a package is shipped as: the box, its size, the packaging code.    *)
Packed(box, size, code) == [box |-> box, size |-> size, code |-> code]
AsFedexBox(fedex, box) == Packed(box, fedex[box].size, fedex[box].type)

FirstOf(indices) == CHOOSE i \in indices : \A j \in indices : i <= j

OneRateFits(view, size) ==
  {i \in DOMAIN view.oneRate :
     view.oneRate[i] \in DOMAIN view.fedex /\ BoxFits(size, view.fedex[view.oneRate[i]].size)}

(* The first box of fedex_one_rate_order that fits, else the last one.     *)
BestFedexOneRateBox(view, size) ==
  LET fits == OneRateFits(view, size)
      final == view.oneRate[Len(view.oneRate)]
  IN IF fits # {} THEN AsFedexBox(view.fedex, view.oneRate[FirstOf(fits)])
     ELSE IF view.oneRate # <<>> /\ final \in DOMAIN view.fedex
       THEN AsFedexBox(view.fedex, final)
     ELSE Packed(None, size, "02")

DefaultSize == [l |-> 12, w |-> 10, h |-> 6]

(* resolve_box_dims; "OB" is the customer's own box, measured by hand.     *)
(* Again inner is what best_fedex_one_rate_box reads for itself.           *)
ResolveBoxDims(view, inner, box, method, measured) ==
  IF box = "OB" THEN Packed(box, measured, "02")
  ELSE IF "fedex" \in method THEN
         IF box = "FXENV" /\ "FDXENV" \in DOMAIN view.fedex
           THEN AsFedexBox(view.fedex, "FDXENV")
         ELSE IF box \in DOMAIN view.fedex THEN AsFedexBox(view.fedex, box)
         ELSE IF box \in DOMAIN view.boxes THEN BestFedexOneRateBox(inner, view.boxes[box].size)
         ELSE Packed(box, DefaultSize, "02")
  ELSE IF box \in DOMAIN view.fedex THEN AsFedexBox(view.fedex, box)
  ELSE IF box \in DOMAIN view.boxes THEN Packed(box, view.boxes[box].size, "02")
  ELSE Packed(box, DefaultSize, "02")

(* The same for the operator's change to FedEx One Rate, which keeps what  *)
(* was resolved before for a box that is in neither list.                  *)
OneRateOverride(view, inner, box, packed) ==
  IF box \in DOMAIN view.fedex THEN AsFedexBox(view.fedex, box)
  ELSE IF box \in DOMAIN view.boxes THEN BestFedexOneRateBox(inner, view.boxes[box].size)
  ELSE packed

-----------------------------------------------------------------------------
ServiceCarrier ==
  [UPS_GROUND |-> "UPS", UPS_NEXT_DAY |-> "UPS", UPS_2ND_DAY |-> "UPS", UPS_3_DAY |-> "UPS",
   USPS_GROUND_ADV |-> "USPS", USPS_PRIORITY |-> "USPS", USPS_MEDIA_MAIL |-> "USPS",
   USPS_FIRST_CLASS |-> "USPS", USPS_PARCEL |-> "USPS",
   FEDEX_GROUND |-> "FEDEX", FEDEX_2DAY |-> "FEDEX", FEDEX_OVERNIGHT |-> "FEDEX",
   FEDEX_ONE_RATE |-> "FEDEX"]

(* The slots for the first word of the table that the method has, then the *)
(* default; without such a word, the slots that come last.                 *)
ByWord(method, table, default, otherwise) ==
  LET named == {i \in DOMAIN table : table[i][1] \in method}
  IN IF named = {} THEN otherwise ELSE <<table[FirstOf(named)][2], default>>

UspsServices ==
  << <<"priority", "USPS_PRIORITY">>, <<"media", "USPS_MEDIA_MAIL">>,
     <<"first", "USPS_FIRST_CLASS">>, <<"parcel", "USPS_PARCEL">> >>
FedexServices ==
  << <<"2day", "FEDEX_2DAY">>, <<"overnight", "FEDEX_OVERNIGHT">>,
     <<"one rate", "FEDEX_ONE_RATE">> >>
UpsServices ==
  << <<"next day", "UPS_NEXT_DAY">>, <<"2nd day", "UPS_2ND_DAY">>, <<"3 day", "UPS_3_DAY">> >>

(* The slots of shiprush_services tried for a method, in order.            *)
MethodSlots(method) ==
  IF method \cap {"usps", "post", "media"} # {}
    THEN ByWord(method, UspsServices, "USPS_GROUND_ADV", <<"USPS_GROUND_ADV", "UPS_GROUND">>)
  ELSE IF "fedex" \in method
    THEN ByWord(method, FedexServices, "FEDEX_GROUND", <<"FEDEX_GROUND">>)
  ELSE ByWord(method, UpsServices, "UPS_GROUND", <<"UPS_GROUND">>)

\* A mistake the runs must detect: an override yields to a method that names a carrier.
Bug_MethodFirst(method, override) ==
  IF CurrentCarrier(method) # None THEN MethodSlots(method)
  ELSE IF override = "UPS" THEN <<"UPS_GROUND">>
  ELSE IF override = "USPS" THEN <<"USPS_GROUND_ADV">>
  ELSE IF override = "FEDEX_ONE_RATE_2DAY" THEN <<"FEDEX_ONE_RATE">>
  ELSE MethodSlots(method)

Slots(method, override) ==
  IF override = "UPS" THEN <<"UPS_GROUND">>
  ELSE IF override = "USPS" THEN <<"USPS_GROUND_ADV">>
  ELSE IF override = "FEDEX_ONE_RATE_2DAY" THEN <<"FEDEX_ONE_RATE">>
  ELSE MethodSlots(method)

(* _resolve_carrier: the carrier of the first slot that is configured; the *)
(* fallback is UPS Ground.                                                 *)
LabelCarrier(services, method, override) ==
  LET slots == Slots(method, override)
      found == {i \in DOMAIN slots : slots[i] \in services}
  IN IF found = {} THEN "UPS"
     ELSE ServiceCarrier[slots[FirstOf(found)]]
=============================================================================
