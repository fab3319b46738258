--------------------------- MODULE CarrierProofs ---------------------------
(***************************************************************************)
(* Proofs about Carrier, for any settings, orders, boxes and weights and   *)
(* any edits between any two reads.                                        *)
(***************************************************************************)
EXTENDS Carrier, TLAPS

LEMMA Sorted ==
  ASSUME NEW s \in BoxSizes
  PROVE  /\ Least(s) \in Nat /\ Middle(s) \in Nat /\ Most(s) \in Nat
         /\ Least(s) <= Middle(s) /\ Middle(s) <= Most(s)
         /\ \/ s.l = Least(s) /\ s.w = Middle(s) /\ s.h = Most(s)
            \/ s.l = Least(s) /\ s.h = Middle(s) /\ s.w = Most(s)
            \/ s.w = Least(s) /\ s.l = Middle(s) /\ s.h = Most(s)
            \/ s.w = Least(s) /\ s.h = Middle(s) /\ s.l = Most(s)
            \/ s.h = Least(s) /\ s.l = Middle(s) /\ s.w = Most(s)
            \/ s.h = Least(s) /\ s.w = Middle(s) /\ s.l = Most(s)
<1>1. s.l \in Nat /\ s.w \in Nat /\ s.h \in Nat
  BY DEF BoxSizes
<1>2. CASE s.l <= s.w /\ s.w <= s.h
  <2>1. Least(s) = s.l /\ Most(s) = s.h
    BY <1>1, <1>2 DEF Least, Most, LeastOf, MostOf
  <2>2. Middle(s) = s.w
    BY <1>1, <2>1 DEF Middle
  <2> QED
    BY <1>1, <1>2, <2>1, <2>2
<1>3. CASE s.l <= s.h /\ s.h <= s.w
  <2>1. Least(s) = s.l /\ Most(s) = s.w
    BY <1>1, <1>3 DEF Least, Most, LeastOf, MostOf
  <2>2. Middle(s) = s.h
    BY <1>1, <2>1 DEF Middle
  <2> QED
    BY <1>1, <1>3, <2>1, <2>2
<1>4. CASE s.w <= s.l /\ s.l <= s.h
  <2>1. Least(s) = s.w /\ Most(s) = s.h
    BY <1>1, <1>4 DEF Least, Most, LeastOf, MostOf
  <2>2. Middle(s) = s.l
    BY <1>1, <2>1 DEF Middle
  <2> QED
    BY <1>1, <1>4, <2>1, <2>2
<1>5. CASE s.w <= s.h /\ s.h <= s.l
  <2>1. Least(s) = s.w /\ Most(s) = s.l
    BY <1>1, <1>5 DEF Least, Most, LeastOf, MostOf
  <2>2. Middle(s) = s.h
    BY <1>1, <2>1 DEF Middle
  <2> QED
    BY <1>1, <1>5, <2>1, <2>2
<1>6. CASE s.h <= s.l /\ s.l <= s.w
  <2>1. Least(s) = s.h /\ Most(s) = s.w
    BY <1>1, <1>6 DEF Least, Most, LeastOf, MostOf
  <2>2. Middle(s) = s.l
    BY <1>1, <2>1 DEF Middle
  <2> QED
    BY <1>1, <1>6, <2>1, <2>2
<1>7. CASE s.h <= s.w /\ s.w <= s.l
  <2>1. Least(s) = s.h /\ Most(s) = s.l
    BY <1>1, <1>7 DEF Least, Most, LeastOf, MostOf
  <2>2. Middle(s) = s.w
    BY <1>1, <2>1 DEF Middle
  <2> QED
    BY <1>1, <1>7, <2>1, <2>2
<1> QED
  BY <1>1, <1>2, <1>3, <1>4, <1>5, <1>6, <1>7

(* Comparing sorted sides is right: a box fits exactly when it can be      *)
(* turned so that every side does.                                         *)
THEOREM SortedSidesDecide ==
  ASSUME NEW inside \in BoxSizes, NEW outer \in BoxSizes
  PROVE  BoxFits(inside, outer) <=> Holds(outer, inside)
<1> DEFINE Fits(x, y, z) == x <= outer.l /\ y <= outer.w /\ z <= outer.h
<1>1. inside.l \in Nat /\ inside.w \in Nat /\ inside.h \in Nat
  BY DEF BoxSizes
<1>2. outer.l \in Nat /\ outer.w \in Nat /\ outer.h \in Nat
  BY DEF BoxSizes
<1>3. Holds(outer, inside) <=>
        \/ Fits(inside.l, inside.w, inside.h) \/ Fits(inside.l, inside.h, inside.w)
        \/ Fits(inside.w, inside.l, inside.h) \/ Fits(inside.w, inside.h, inside.l)
        \/ Fits(inside.h, inside.l, inside.w) \/ Fits(inside.h, inside.w, inside.l)
  BY DEF Holds, Turns
<1> QED
  <2>1. /\ Least(inside) \in Nat /\ Middle(inside) \in Nat /\ Most(inside) \in Nat
        /\ Least(outer) \in Nat /\ Middle(outer) \in Nat /\ Most(outer) \in Nat
        /\ Least(inside) <= Middle(inside) /\ Middle(inside) <= Most(inside)
        /\ Least(outer) <= Middle(outer) /\ Middle(outer) <= Most(outer)
    BY Sorted
  <2> QED
    BY <1>1, <1>2, <1>3, <2>1, Sorted DEF BoxFits

(* The least of a set of indices.                                          *)
LEMMA FirstIsIn ==
  ASSUME NEW S, S # {}, S \subseteq 1..4
  PROVE  FirstOf(S) \in S /\ \A j \in S : FirstOf(S) <= j
<1>1. \A j \in S : j = 1 \/ j = 2 \/ j = 3 \/ j = 4
  OBVIOUS
<1>2. 1 \in S \/ 2 \in S \/ 3 \in S \/ 4 \in S
  BY <1>1
<1>3. \E i \in S : \A j \in S : i <= j
  BY <1>1, <1>2
<1> QED
  BY <1>3 DEF FirstOf

-----------------------------------------------------------------------------
(* What _resolve_carrier may return.                                       *)
Services == DOMAIN ServiceCarrier

LEMMA TableDomains ==
  /\ DOMAIN UspsServices = 1..4
  /\ DOMAIN FedexServices = 1..3
  /\ DOMAIN UpsServices = 1..3
BY DEF UspsServices, FedexServices, UpsServices

LEMMA ByWordSlots ==
  ASSUME NEW table \in {UspsServices, FedexServices, UpsServices},
         NEW method, NEW default, NEW otherwise
  PROVE  \/ ByWord(method, table, default, otherwise) = otherwise
         \/ \E i \in DOMAIN table :
              ByWord(method, table, default, otherwise) = <<table[i][2], default>>
<1> DEFINE named == {i \in DOMAIN table : table[i][1] \in method}
<1>1. named \subseteq 1..4
  BY TableDomains
<1>2. named # {} => FirstOf(named) \in named
  BY <1>1, FirstIsIn
<1>3. ByWord(method, table, default, otherwise) =
        IF named = {} THEN otherwise ELSE <<table[FirstOf(named)][2], default>>
  BY DEF ByWord
<1>4. named \subseteq DOMAIN table
  OBVIOUS
<1> HIDE DEF named
<1>5. CASE named # {}
  BY <1>2, <1>3, <1>4, <1>5
<1> QED
  BY <1>3, <1>5

(* The first slot tried is one of the carrier the method is taken for.     *)
LEMMA MethodSlotsCarrier ==
  ASSUME NEW method
  PROVE  \E x, y \in Services :
           /\ MethodSlots(method) = <<x>> \/ MethodSlots(method) = <<x, y>>
           /\ ServiceCarrier[x] = IF method \cap {"usps", "post", "media"} # {} THEN "USPS"
                                  ELSE IF "fedex" \in method THEN "FEDEX" ELSE "UPS"
<1>1. CASE method \cap {"usps", "post", "media"} # {}
  <2> DEFINE slots == ByWord(method, UspsServices, "USPS_GROUND_ADV",
                             <<"USPS_GROUND_ADV", "UPS_GROUND">>)
  <2>1. \/ slots = <<"USPS_GROUND_ADV", "UPS_GROUND">>
        \/ \E i \in DOMAIN UspsServices : slots = <<UspsServices[i][2], "USPS_GROUND_ADV">>
    BY ByWordSlots
  <2>2. \A i \in DOMAIN UspsServices :
          /\ UspsServices[i][2] \in Services
          /\ ServiceCarrier[UspsServices[i][2]] = "USPS"
    BY DEF UspsServices, Services, ServiceCarrier
  <2>3. /\ "USPS_GROUND_ADV" \in Services /\ "UPS_GROUND" \in Services
        /\ ServiceCarrier["USPS_GROUND_ADV"] = "USPS"
    BY DEF Services, ServiceCarrier
  <2>4. MethodSlots(method) = slots
    BY <1>1 DEF MethodSlots
  <2> HIDE DEF slots
  <2>5. \E x, y \in Services : slots = <<x, y>> /\ ServiceCarrier[x] = "USPS"
    BY <2>1, <2>2, <2>3
  <2> QED
    BY <1>1, <2>4, <2>5
<1>2. CASE method \cap {"usps", "post", "media"} = {} /\ "fedex" \in method
  <2> DEFINE slots == ByWord(method, FedexServices, "FEDEX_GROUND", <<"FEDEX_GROUND">>)
  <2>1. \/ slots = <<"FEDEX_GROUND">>
        \/ \E i \in DOMAIN FedexServices : slots = <<FedexServices[i][2], "FEDEX_GROUND">>
    BY ByWordSlots
  <2>2. \A i \in DOMAIN FedexServices :
          /\ FedexServices[i][2] \in Services
          /\ ServiceCarrier[FedexServices[i][2]] = "FEDEX"
    <3>1. /\ DOMAIN FedexServices = 1..3
          /\ FedexServices[1][2] = "FEDEX_2DAY" /\ FedexServices[2][2] = "FEDEX_OVERNIGHT"
          /\ FedexServices[3][2] = "FEDEX_ONE_RATE"
      BY DEF FedexServices
    <3>2. \A i \in DOMAIN FedexServices : i = 1 \/ i = 2 \/ i = 3
      BY <3>1
    <3>3. \A z \in {"FEDEX_2DAY", "FEDEX_OVERNIGHT", "FEDEX_ONE_RATE"} :
            z \in Services /\ ServiceCarrier[z] = "FEDEX"
      BY DEF Services, ServiceCarrier
    <3> QED
      BY <3>1, <3>2, <3>3
  <2>3. "FEDEX_GROUND" \in Services /\ ServiceCarrier["FEDEX_GROUND"] = "FEDEX"
    BY DEF Services, ServiceCarrier
  <2>4. MethodSlots(method) = slots
    BY <1>2 DEF MethodSlots
  <2> HIDE DEF slots
  <2>5. \E x, y \in Services :
          (slots = <<x>> \/ slots = <<x, y>>) /\ ServiceCarrier[x] = "FEDEX"
    BY <2>1, <2>2, <2>3
  <2> QED
    BY <1>2, <2>4, <2>5
<1>3. CASE method \cap {"usps", "post", "media"} = {} /\ "fedex" \notin method
  <2> DEFINE slots == ByWord(method, UpsServices, "UPS_GROUND", <<"UPS_GROUND">>)
  <2>1. \/ slots = <<"UPS_GROUND">>
        \/ \E i \in DOMAIN UpsServices : slots = <<UpsServices[i][2], "UPS_GROUND">>
    BY ByWordSlots
  <2>2. \A i \in DOMAIN UpsServices :
          /\ UpsServices[i][2] \in Services
          /\ ServiceCarrier[UpsServices[i][2]] = "UPS"
    <3>1. /\ DOMAIN UpsServices = 1..3
          /\ UpsServices[1][2] = "UPS_NEXT_DAY" /\ UpsServices[2][2] = "UPS_2ND_DAY"
          /\ UpsServices[3][2] = "UPS_3_DAY"
      BY DEF UpsServices
    <3>2. \A i \in DOMAIN UpsServices : i = 1 \/ i = 2 \/ i = 3
      BY <3>1
    <3>3. \A z \in {"UPS_NEXT_DAY", "UPS_2ND_DAY", "UPS_3_DAY"} :
            z \in Services /\ ServiceCarrier[z] = "UPS"
      BY DEF Services, ServiceCarrier
    <3> QED
      BY <3>1, <3>2, <3>3
  <2>3. "UPS_GROUND" \in Services /\ ServiceCarrier["UPS_GROUND"] = "UPS"
    BY DEF Services, ServiceCarrier
  <2>4. MethodSlots(method) = slots
    BY <1>3 DEF MethodSlots
  <2> HIDE DEF slots
  <2>5. \E x, y \in Services :
          (slots = <<x>> \/ slots = <<x, y>>) /\ ServiceCarrier[x] = "UPS"
    BY <2>1, <2>2, <2>3
  <2> QED
    BY <1>3, <2>4, <2>5
<1> QED
  BY <1>1, <1>2, <1>3

(* The carrier whose label is bought when every slot is configured.        *)
Intended(method, choice) ==
  IF choice \in Overrides THEN CarrierNamed(choice)
  ELSE IF method \cap {"usps", "post", "media"} # {} THEN "USPS"
  ELSE IF "fedex" \in method THEN "FEDEX" ELSE "UPS"

LEMMA LabelCarrierIntended ==
  ASSUME NEW method, NEW choice, NEW services
  PROVE  /\ LabelCarrier(services, method, choice) \in {"UPS", "USPS", "FEDEX"}
         /\ Services \subseteq services =>
              LabelCarrier(services, method, choice) = Intended(method, choice)
<1> DEFINE slots == Slots(method, choice)
           found == {i \in DOMAIN slots : slots[i] \in services}
<1>1. \E x, y \in Services :
        /\ slots = <<x>> \/ slots = <<x, y>>
        /\ ServiceCarrier[x] = Intended(method, choice)
  <2>1. CASE choice \in Overrides
    <3>1. \/ slots = <<"UPS_GROUND">> /\ choice = "UPS"
          \/ slots = <<"USPS_GROUND_ADV">> /\ choice = "USPS"
          \/ slots = <<"FEDEX_ONE_RATE">> /\ choice = "FEDEX_ONE_RATE_2DAY"
      <4>1. choice = "UPS" \/ choice = "USPS" \/ choice = "FEDEX_ONE_RATE_2DAY"
        BY <2>1 DEF Overrides
      <4>2. choice = "UPS" => slots = <<"UPS_GROUND">>
        BY DEF Slots
      <4>3. choice = "USPS" => slots = <<"USPS_GROUND_ADV">>
        BY DEF Slots
      <4>4. choice = "FEDEX_ONE_RATE_2DAY" => slots = <<"FEDEX_ONE_RATE">>
        BY DEF Slots
      <4> HIDE DEF slots
      <4> QED
        BY <4>1, <4>2, <4>3, <4>4
    <3>2. /\ {"UPS_GROUND", "USPS_GROUND_ADV", "FEDEX_ONE_RATE"} \subseteq Services
          /\ ServiceCarrier["UPS_GROUND"] = "UPS"
          /\ ServiceCarrier["USPS_GROUND_ADV"] = "USPS"
          /\ ServiceCarrier["FEDEX_ONE_RATE"] = "FEDEX"
      BY DEF Services, ServiceCarrier
    <3> HIDE DEF slots
    <3> QED
      BY <2>1, <3>1, <3>2 DEF Intended, CarrierNamed
  <2>2. CASE choice \notin Overrides
    <3>1. slots = MethodSlots(method)
      BY <2>2 DEF Slots, Overrides
    <3> QED
      BY <2>2, <3>1, MethodSlotsCarrier DEF Intended
  <2> QED
    BY <2>1, <2>2
<1>2. PICK x \in Services, y \in Services :
        /\ slots = <<x>> \/ slots = <<x, y>>
        /\ ServiceCarrier[x] = Intended(method, choice)
  BY <1>1
<1>3. \A z \in Services : ServiceCarrier[z] \in {"UPS", "USPS", "FEDEX"}
  BY DEF Services, ServiceCarrier
<1>4. LabelCarrier(services, method, choice) =
        IF found = {} THEN "UPS" ELSE ServiceCarrier[slots[FirstOf(found)]]
  BY DEF LabelCarrier
<1> HIDE DEF slots
<1>5. found \subseteq 1..4 /\ \A i \in found : slots[i] \in Services
  BY <1>2
<1>6. found # {} => FirstOf(found) \in found /\ \A j \in found : FirstOf(found) <= j
  BY <1>5, FirstIsIn
<1>7. Services \subseteq services => 1 \in found
  BY <1>2
<1>8. Services \subseteq services => FirstOf(found) = 1
  BY <1>5, <1>6, <1>7
<1>9. Services \subseteq services => LabelCarrier(services, method, choice) = ServiceCarrier[x]
  BY <1>2, <1>4, <1>7, <1>8
<1> QED
  BY <1>2, <1>3, <1>4, <1>5, <1>6, <1>9

-----------------------------------------------------------------------------
(* What a suggestion says of the order and the package.                    *)
LEMMA DetermineCarrierIs ==
  ASSUME NEW view, NEW b, NEW size, NEW w
  PROVE  LET optimal == DetermineCarrier(view, b, size, w) IN
         /\ optimal.carrier \in {"UPS", "USPS"}
         /\ Preference(view, b) = "USPS" /\ optimal.carrier = "UPS" =>
              TooBigForUsps(view.rules, size, w)
         /\ \/ optimal.reason = NoText
            \/ \E key \in DOMAIN view.reasons \ {"DIM_OVERRIDE"} :
                 optimal.reason = view.reasons[key]
            \/ TooBigForUsps(view.rules, size, w)
<1> DEFINE preferred == Preferred(view, b, size, w)
           big == TooBigForUsps(view.rules, size, w)
           choice == IF preferred[1] = "USPS" /\ big THEN <<"UPS", "DIM_OVERRIDE">> ELSE preferred
<1>1. /\ preferred[1] \in {"UPS", "USPS"}
      /\ preferred[2] # "DIM_OVERRIDE"
      /\ Preference(view, b) = "USPS" => preferred[1] = "USPS"
  BY DEF Preferred
<1>2. DetermineCarrier(view, b, size, w) =
        [carrier |-> choice[1],
         reason  |-> IF choice[2] \in DOMAIN view.reasons THEN view.reasons[choice[2]] ELSE NoText]
  BY DEF DetermineCarrier
<1> HIDE DEF preferred, big
<1>3. /\ choice[1] \in {"UPS", "USPS"}
      /\ choice[2] = "DIM_OVERRIDE" => big
      /\ Preference(view, b) = "USPS" /\ choice[1] = "UPS" => big
  BY <1>1
<1> HIDE DEF choice
<1> QED
  BY <1>2, <1>3 DEF big

LEMMA ConflictIs ==
  ASSUME NEW view, NEW inner, NEW o, NEW b, NEW size, NEW w,
         CarrierAssumption
  PROVE  LET conflict == CheckConflict(view, inner, o, b, size, w)
             optimal == DetermineCarrier(inner, b, size, w)
         IN /\ conflict \in {"UPS", "USPS", None}
            /\ conflict = "UPS" =>
                 /\ CurrentCarrier(o.method) = "USPS"
                 /\ optimal.carrier = "UPS"
                 /\ ~o.poBox
                 /\ o.rural => IsDimOverride(view, optimal.reason)
            /\ conflict = "USPS" =>
                 /\ CurrentCarrier(o.method) = "UPS"
                 /\ optimal.carrier = "USPS" \/ (o.rural /\ Preference(view, b) = "USPS")
<1> DEFINE optimal == DetermineCarrier(inner, b, size, w)
<1>1. optimal.carrier \in {"UPS", "USPS"}
  BY DetermineCarrierIs
<1>2. /\ CurrentCarrier(o.method) \in {"UPS", "USPS", "FEDEX", None}
      /\ CurrentCarrier(o.method) = "FEDEX" => "fedex" \in o.method
  BY DEF CurrentCarrier
<1> HIDE DEF optimal
<1>3. CheckConflict(view, inner, o, b, size, w) =
        IF "fedex" \in o.method \/ o.abroad THEN None
        ELSE IF AvoidsSurcharge(view, o, b, optimal.carrier) THEN "USPS"
        ELSE IF CurrentCarrier(o.method) # None /\ optimal.carrier # CurrentCarrier(o.method)
                  /\ ~KeepsCurrent(view, o, optimal)
          THEN optimal.carrier
        ELSE None
  BY DEF CheckConflict, optimal
<1>4. None \notin {"UPS", "USPS"}
  BY DEF CarrierAssumption, Overrides
<1>5. AvoidsSurcharge(view, o, b, optimal.carrier) =>
        /\ CurrentCarrier(o.method) = "UPS"
        /\ optimal.carrier = "USPS" \/ (o.rural /\ Preference(view, b) = "USPS")
  BY DEF AvoidsSurcharge
<1>6. ~KeepsCurrent(view, o, optimal) /\ optimal.carrier = "UPS" /\ CurrentCarrier(o.method) = "USPS"
        => ~o.poBox /\ (o.rural => IsDimOverride(view, optimal.reason))
  BY DEF KeepsCurrent
<1> QED
  BY <1>1, <1>2, <1>3, <1>4, <1>5, <1>6 DEF optimal

-----------------------------------------------------------------------------
(* Where the request stands tells what has been chosen, suggested and      *)
(* bought so far, and from which settings.                                 *)
Asked ==
  /\ switched => override \in Overrides /\ stage \in {"label", "done"}
  /\ stage = "override" => override \in Overrides
  /\ stage \in {"check", "conflict"} => override = None /\ picked = None
  /\ stage = "conflict" /\ suggested = "UPS" =>
       ~(order.poBox /\ CurrentCarrier(order.method) = "USPS")
  /\ stage # "idle" /\ override # picked =>
       /\ suggested = "UPS" => ~(order.poBox /\ CurrentCarrier(order.method) = "USPS")
       /\ override \in Overrides /\ override \in {suggested, CurrentCarrier(order.method)}

Answered ==
  stage = "conflict" =>
    /\ suggested # None
    /\ \E view, inner \in Views :
         suggested = CheckConflict(view, inner, order, box, packed.size, weight)

Bought ==
  /\ stage \in {"label", "done"} /\ Equipped /\ override # None =>
       switched \/ CurrentCarrier(order.method) = override
  /\ stage = "done" =>
       /\ \E c \in during : label = LabelCarrier(c.services, order.method, override)
       /\ told = SentryCarrier

ReqInv == Asked /\ Answered /\ Bought

(* Every variable keeps its type.                                          *)
THEOREM CarrierTypeCorrect == Spec => [](TypeOK /\ Asked)
<1> USE CarrierAssumption
<1>1. Init => TypeOK /\ Asked
  BY DEF Init, TypeOK, Asked, Unpacked, Packed
<1>2. TypeOK /\ Asked /\ [Next]_vars => TypeOK' /\ Asked'
  <2> SUFFICES ASSUME TypeOK, Asked, [Next]_vars PROVE TypeOK' /\ Asked'
    OBVIOUS
  <2>1. ASSUME NEW c \in Configs, Edit(c) PROVE TypeOK' /\ Asked'
    BY <2>1 DEF Edit, TypeOK, Asked, request
  <2>2. ASSUME NEW o \in Orders, NEW p \in Overrides \cup {None}, NEW b \in Boxes,
               NEW s \in Sizes \cup {None}, NEW w \in Weights, Ship(o, p, b, s, w)
        PROVE  TypeOK' /\ Asked'
    BY <2>2 DEF Ship, TypeOK, Asked
  <2>3. CASE Resolve
    <3>1. DOMAIN packed' = {"box", "size", "code"}
      <4>1. PICK view \in Shelves, inner \in Shelves :
              packed' = ResolveBoxDims(view, inner, box, order.method, measured)
        BY <2>3 DEF Resolve
      <4> QED
        BY <4>1 DEF ResolveBoxDims, BestFedexOneRateBox, AsFedexBox, Packed
    <3> QED
      BY <2>3, <3>1 DEF Resolve, TypeOK, Asked, request
  <2>4. CASE Check
    <3>1. /\ suggested' \in {"UPS", "USPS", None}
          /\ suggested' = "UPS" => ~order.poBox
      BY <2>4, ConflictIs DEF Check
    <3> QED
      BY <2>4, <3>1 DEF Check, TypeOK, Asked, request
  <2>5. ASSUME NEW choice \in Overrides, Choose(choice) PROVE TypeOK' /\ Asked'
    <3>1. choice \in {suggested, CurrentCarrier(order.method)} /\ choice \in Overrides
      BY <2>5 DEF Choose
    <3> QED
      BY <2>5, <3>1 DEF Choose, TypeOK, Asked, request
  <2>6. CASE ApplyOverride
    <3>1. DOMAIN packed' = {"box", "size", "code"}
      <4>1. \/ packed' = packed
            \/ \E view, inner \in Shelves : packed' = OneRateOverride(view, inner, box, packed)
        BY <2>6 DEF ApplyOverride
      <4> QED
        BY <4>1 DEF OneRateOverride, BestFedexOneRateBox, AsFedexBox, Packed, TypeOK
    <3> QED
      BY <2>6, <3>1 DEF ApplyOverride, TypeOK, Asked, request
  <2>7. CASE BuyLabel
    <3>1. label' \in {"UPS", "USPS", "FEDEX"}
      BY <2>7, LabelCarrierIntended DEF BuyLabel
    <3>2. told' \in Overrides \cup {"FEDEX", "UNKNOWN"}
      BY <2>7 DEF BuyLabel, SentryCarrier, CurrentCarrier, Asked, Overrides
    <3> QED
      BY <2>7, <3>1, <3>2 DEF BuyLabel, TypeOK, Asked, request, Overrides
  <2>8. CASE Clear
    BY <2>8 DEF Clear, TypeOK, Asked, Unpacked, Packed
  <2>9. CASE UNCHANGED vars
    BY <2>9 DEF vars, request, TypeOK, Asked
  <2> QED
    BY <2>1, <2>2, <2>3, <2>4, <2>5, <2>6, <2>7, <2>8, <2>9 DEF Next
<1> QED
  BY <1>1, <1>2, PTL DEF Spec

(* The invariant the other properties follow from.                         *)
THEOREM ReqInvHolds == Spec => []ReqInv
<1> USE CarrierAssumption
<1>1. Init => ReqInv
  BY DEF Init, ReqInv, Asked, Answered, Bought
<1>2. TypeOK /\ Asked /\ Asked' /\ ReqInv /\ [Next]_vars => ReqInv'
  <2> SUFFICES ASSUME TypeOK, Asked, Asked', Answered, Bought, [Next]_vars
               PROVE  Answered' /\ Bought'
    BY DEF ReqInv
  <2>1. ASSUME NEW c \in Configs, Edit(c) PROVE Answered' /\ Bought'
    <3>1. during \subseteq during'
      BY <2>1 DEF Edit
    <3>2. Views \subseteq Views'
      BY <3>1 DEF Views
    <3>3. Equipped' => Equipped
      BY <3>1 DEF Equipped
    <3> QED
      BY <2>1, <3>1, <3>2, <3>3 DEF Edit, Answered, Bought, SentryCarrier, request
  <2>2. ASSUME NEW o \in Orders, NEW p \in Overrides \cup {None}, NEW b \in Boxes,
               NEW s \in Sizes \cup {None}, NEW w \in Weights, Ship(o, p, b, s, w)
        PROVE  Answered' /\ Bought'
    BY <2>2 DEF Ship, Answered, Bought
  <2>3. CASE Resolve
    BY <2>3 DEF Resolve, Answered, Bought
  <2>4. CASE Check
    <3>1. PICK view \in Views, inner \in Views :
            /\ suggested' = CheckConflict(view, inner, order, box, packed.size, weight)
            /\ stage' = IF suggested' = None THEN "label" ELSE "conflict"
      BY <2>4 DEF Check
    <3>2. Views' = Views /\ UNCHANGED <<order, box, packed, weight, override>>
      BY <2>4 DEF Check, Views, request
    <3>3. Answered'
      BY <3>1, <3>2 DEF Answered
    <3>4. override = None
      BY <2>4 DEF Check, Asked
    <3>5. Bought'
      BY <3>1, <3>2, <3>4 DEF Bought
    <3> QED
      BY <3>3, <3>5
  <2>5. ASSUME NEW choice \in Overrides, Choose(choice) PROVE Answered' /\ Bought'
    BY <2>5 DEF Choose, Answered, Bought
  <2>6. CASE ApplyOverride
    <3>1. override \in Overrides
      BY <2>6 DEF ApplyOverride, Asked
    <3>2. Equipped => \A c \in during : override \in c.methods
      BY <3>1 DEF Equipped
    <3>3. Equipped' <=> Equipped
      BY <2>6 DEF ApplyOverride, Equipped
    <3>4. Equipped => switched' \/ CurrentCarrier(order.method) = override
      BY <2>6, <3>2 DEF ApplyOverride
    <3> QED
      BY <2>6, <3>3, <3>4 DEF ApplyOverride, Answered, Bought, request
  <2>7. CASE BuyLabel
    <3>1. (Equipped' <=> Equipped) /\ told' = SentryCarrier /\ SentryCarrier' = SentryCarrier
      BY <2>7 DEF BuyLabel, Equipped, SentryCarrier, request
    <3> QED
      BY <2>7, <3>1 DEF BuyLabel, Answered, Bought, request
  <2>8. CASE Clear
    BY <2>8 DEF Clear, Answered, Bought
  <2>9. CASE UNCHANGED vars
    <3>1. Views' = Views /\ (Equipped' <=> Equipped) /\ SentryCarrier' = SentryCarrier
      BY <2>9 DEF vars, request, Views, Equipped, SentryCarrier
    <3> QED
      BY <2>9, <3>1 DEF vars, request, Answered, Bought
  <2> QED
    BY <2>1, <2>2, <2>3, <2>4, <2>5, <2>6, <2>7, <2>8, <2>9 DEF Next
<1> QED
  BY <1>1, <1>2, CarrierTypeCorrect, PTL DEF Spec, ReqInv

(* The label is the choice's, and Sentry is told the label's carrier.      *)
LEMMA LabelIsIntended ==
  ASSUME TypeOK, ReqInv, stage = "done", Equipped
  PROVE  /\ label = Intended(order.method, override)
         /\ override # None => told = override
         /\ override = None => told = IF CurrentCarrier(order.method) # None
                                        THEN CurrentCarrier(order.method) ELSE "UNKNOWN"
<1>1. PICK c \in during : label = LabelCarrier(c.services, order.method, override)
  BY DEF ReqInv, Bought
<1>2. label = Intended(order.method, override)
  BY <1>1, LabelCarrierIntended DEF Equipped, Services
<1>3. None \notin Overrides
  BY CarrierAssumption
<1> QED
  BY <1>2, <1>3 DEF ReqInv, Bought, Asked, SentryCarrier

LEMMA NamedCarrier ==
  ASSUME NEW method \in SUBSET STRING, NamesOneCarrier(method)
  PROVE  /\ CurrentCarrier(method) = Intended(method, None)
         /\ CurrentCarrier(method) \in {"UPS", "USPS", "FEDEX"}
<1>1. None \notin Overrides
  BY CarrierAssumption
<1>2. CASE "usps" \in method /\ method \cap {"ups", "fedex"} = {}
  <2>1. "ups" \notin method /\ "fedex" \notin method
    BY <1>2
  <2> QED
    BY <1>1, <1>2, <2>1 DEF CurrentCarrier, Intended
<1>3. CASE method \cap {"usps", "post", "media", "ups", "fedex"} \in {{"ups"}, {"fedex"}}
  <2>1. method \cap {"usps", "post", "media"} = {}
    BY <1>3
  <2>2. \/ "ups" \in method /\ "fedex" \notin method
        \/ "fedex" \in method
    BY <1>3
  <2> QED
    BY <1>1, <2>1, <2>2 DEF CurrentCarrier, Intended
<1> QED
  BY <1>2, <1>3 DEF NamesOneCarrier

(* The label is of the carrier chosen last, or of the one the method names. *)
THEOREM ChoiceHolds == Spec => []ChoiceShips
<1>1. TypeOK /\ ReqInv => ChoiceShips
  <2> SUFFICES ASSUME TypeOK, ReqInv, stage = "done", Equipped PROVE ChoiceShips
    BY DEF ChoiceShips
  <2>1. label = Intended(order.method, override)
    BY LabelIsIntended
  <2>2. order.method \in SUBSET STRING
    BY CarrierAssumption DEF TypeOK
  <2>3. override # None => label = CarrierNamed(override)
    BY <2>1 DEF Intended, TypeOK
  <2>4. override = None /\ NamesOneCarrier(order.method) => label = CurrentCarrier(order.method)
    BY <2>1, <2>2, NamedCarrier
  <2> QED
    BY <2>3, <2>4 DEF ChoiceShips
<1> QED
  BY <1>1, CarrierTypeCorrect, ReqInvHolds, PTL

(* Sentry is told the carrier whose label was bought.                      *)
THEOREM ToldHolds == Spec => []CarrierToldIsLabels
<1>1. TypeOK /\ ReqInv => CarrierToldIsLabels
  <2> SUFFICES ASSUME TypeOK, ReqInv, stage = "done", Equipped,
                      override # None \/ NamesOneCarrier(order.method)
               PROVE  CarrierNamed(told) = label
    BY DEF CarrierToldIsLabels
  <2>1. label = Intended(order.method, override)
    BY LabelIsIntended
  <2>2. order.method \in SUBSET STRING /\ None \notin {"UPS", "USPS", "FEDEX"}
    BY CarrierAssumption DEF TypeOK, Overrides
  <2>3. CASE override # None
    BY <2>1, <2>3, LabelIsIntended DEF Intended, TypeOK
  <2>4. CASE override = None
    <3>1. /\ CurrentCarrier(order.method) = Intended(order.method, None)
          /\ CurrentCarrier(order.method) \in {"UPS", "USPS", "FEDEX"}
      BY <2>2, <2>4, NamedCarrier
    <3>2. told = CurrentCarrier(order.method)
      BY <2>2, <2>4, <3>1, LabelIsIntended
    <3> QED
      BY <2>1, <2>4, <3>1, <3>2 DEF CarrierNamed
  <2> QED
    BY <2>3, <2>4
<1> QED
  BY <1>1, CarrierTypeCorrect, ReqInvHolds, PTL

(* No suggestion sends a USPS order to a PO box with UPS.                  *)
THEOREM PoBoxHolds == Spec => []PoBoxKeepsUsps
<1>1. TypeOK /\ ReqInv => PoBoxKeepsUsps
  <2> SUFFICES ASSUME TypeOK, ReqInv, stage = "done", Equipped, label = "UPS", order.poBox,
                      "usps" \in order.method, NamesOneCarrier(order.method)
               PROVE  picked = "UPS"
    BY DEF PoBoxKeepsUsps
  <2>1. label = Intended(order.method, override)
    BY LabelIsIntended
  <2>2. "fedex" \notin order.method /\ "ups" \notin order.method
    BY DEF NamesOneCarrier
  <2>3. CurrentCarrier(order.method) = "USPS"
    BY <2>2 DEF CurrentCarrier
  <2>4. override = "UPS"
    BY <2>1 DEF Intended, CarrierNamed, Overrides
  <2> QED
    BY <2>3, <2>4 DEF ReqInv, Asked
<1> QED
  BY <1>1, CarrierTypeCorrect, ReqInvHolds, PTL

(* In a rural area UPS is suggested only for what is too big for USPS.     *)
THEOREM RuralHolds == Spec => []RuralStaysUsps
<1>1. TypeOK /\ ReqInv => RuralStaysUsps
  <2> SUFFICES ASSUME TypeOK, ReqInv, stage = "conflict", suggested = "UPS", order.rural,
                      \A c, d \in during : "DIM_OVERRIDE" \in DOMAIN d.reasons =>
                        /\ d.reasons["DIM_OVERRIDE"] # NoText
                        /\ \A key \in DOMAIN c.reasons \ {"DIM_OVERRIDE"} :
                             c.reasons[key] # d.reasons["DIM_OVERRIDE"]
               PROVE  \E c \in during : TooBigForUsps(c.rules, packed.size, weight)
    BY DEF RuralStaysUsps
  <2>1. PICK view \in Views, inner \in Views :
          suggested = CheckConflict(view, inner, order, box, packed.size, weight)
    BY DEF ReqInv, Answered
  <2> DEFINE optimal == DetermineCarrier(inner, box, packed.size, weight)
  <2>2. IsDimOverride(view, optimal.reason)
    BY <2>1, ConflictIs, CarrierAssumption
  <2>3. PICK d \in during : view.reasons = d.reasons
    BY DEF Views
  <2>4. PICK a \in during, c \in during : inner.rules = a.rules /\ inner.reasons = c.reasons
    BY DEF Views
  <2>5. \/ optimal.reason = NoText
        \/ \E key \in DOMAIN inner.reasons \ {"DIM_OVERRIDE"} : optimal.reason = inner.reasons[key]
        \/ TooBigForUsps(inner.rules, packed.size, weight)
    BY DetermineCarrierIs
  <2> HIDE DEF optimal
  <2>6. TooBigForUsps(inner.rules, packed.size, weight)
    BY <2>2, <2>3, <2>4, <2>5 DEF IsDimOverride
  <2> QED
    BY <2>4, <2>6
<1> QED
  BY <1>1, CarrierTypeCorrect, ReqInvHolds, PTL

(* The engine stands by its suggestions.                                   *)
THEOREM StandsHolds == Spec => []SuggestionStands
<1>1. TypeOK /\ ReqInv => SuggestionStands
  <2> SUFFICES ASSUME TypeOK, ReqInv, stage = "conflict", during = {config} PROVE SuggestionStands
    BY DEF SuggestionStands
  <2> DEFINE twin == [order EXCEPT !.method = IF suggested = "UPS" THEN {"ups"} ELSE {"usps"}]
             optimal(view) == DetermineCarrier(view, box, packed.size, weight)
             view0 == [rules |-> config.rules, reasons |-> config.reasons, boxes |-> config.boxes]
  <2>1. suggested = CheckConflict(view0, view0, order, box, packed.size, weight)
    BY DEF ReqInv, Answered, Views
  <2>2. \A o : CheckConflict(config, config, o, box, packed.size, weight) =
               CheckConflict(view0, view0, o, box, packed.size, weight)
    BY DEF CheckConflict, DetermineCarrier, Preferred, Preference, KeepsCurrent, AvoidsSurcharge,
           IsDimOverride, TooBigForUsps
  <2>3. Preference(view0, box) = Preference(config, box) /\ view0.rules = config.rules
    BY DEF Preference
  <2>4. /\ CurrentCarrier(twin.method) = IF suggested = "UPS" THEN "UPS" ELSE "USPS"
        /\ twin.rural = order.rural
    BY CarrierAssumption DEF CurrentCarrier, TypeOK
  <2>5. Preference(view0, box) = "USPS" /\ optimal(view0).carrier = "UPS" =>
          TooBigForUsps(view0.rules, packed.size, weight)
    BY DetermineCarrierIs
  <2> HIDE DEF view0, optimal, twin
  <2>7. ASSUME NEW o
        PROVE  LET answer == CheckConflict(view0, view0, o, box, packed.size, weight) IN
               /\ answer = "UPS" =>
                    CurrentCarrier(o.method) = "USPS" /\ optimal(view0).carrier = "UPS"
               /\ answer = "USPS" =>
                    /\ CurrentCarrier(o.method) = "UPS"
                    /\ optimal(view0).carrier = "USPS"
                         \/ (o.rural /\ Preference(view0, box) = "USPS")
    BY ConflictIs, CarrierAssumption DEF optimal
  <2> DEFINE back == CheckConflict(view0, view0, twin, box, packed.size, weight)
  <2>6. ASSUME back = CurrentCarrier(order.method)
        PROVE  /\ order.rural /\ Preference(view0, box) = "USPS"
               /\ TooBigForUsps(view0.rules, packed.size, weight)
    <3>1. CASE suggested = "UPS"
      <4>1. CurrentCarrier(order.method) = "USPS" /\ optimal(view0).carrier = "UPS"
        BY <2>1, <2>7, <3>1
      <4>2. back = "USPS" => twin.rural /\ Preference(view0, box) = "USPS"
        BY <4>1, <2>7
      <4> QED
        BY <2>4, <2>5, <2>6, <4>1, <4>2
    <3>2. CASE suggested = "USPS"
      <4>1. /\ CurrentCarrier(order.method) = "UPS"
            /\ optimal(view0).carrier = "USPS" \/ (order.rural /\ Preference(view0, box) = "USPS")
        BY <2>1, <2>7, <3>2
      <4>2. back = "UPS" => optimal(view0).carrier = "UPS"
        BY <2>7
      <4> QED
        BY <2>5, <2>6, <4>1, <4>2
    <3> QED
      BY <3>1, <3>2 DEF ReqInv, Answered, TypeOK
  <2> QED
    BY <2>2, <2>3, <2>6 DEF SuggestionStands, twin
<1> QED
  BY <1>1, CarrierTypeCorrect, ReqInvHolds, PTL
-----------------------------------------------------------------------------
ResolvedBox(pack) ==
  \E view, inner \in Shelves : pack = ResolveBoxDims(view, inner, box, order.method, measured)

OverriddenBox ==
  \E pack : \E view, inner \in Shelves : packed = OneRateOverride(view, inner, box, pack)

(* The package is as it was resolved or, once FedEx One Rate has been      *)
(* chosen, as that has changed it, by settings current since the request.  *)
PackInv ==
  stage \notin {"idle", "resolve"} =>
    IF switched /\ override = "FEDEX_ONE_RATE_2DAY" THEN OverriddenBox ELSE ResolvedBox(packed)

THEOREM PackInvHolds == Spec => []PackInv
<1>1. Init => PackInv
  BY DEF Init, PackInv
<1>2. Asked /\ PackInv /\ [Next]_vars => PackInv'
  <2> SUFFICES ASSUME Asked, PackInv, [Next]_vars PROVE PackInv'
    OBVIOUS
  <2>1. ASSUME NEW c \in Configs, Edit(c) PROVE PackInv'
    <3>1. Shelves \subseteq Shelves'
      BY <2>1 DEF Edit, Shelves
    <3>2. ResolvedBox(packed) => ResolvedBox(packed)'
      BY <2>1, <3>1 DEF Edit, ResolvedBox, request
    <3>3. OverriddenBox => OverriddenBox'
      BY <2>1, <3>1 DEF Edit, OverriddenBox, request
    <3> QED
      BY <2>1, <3>2, <3>3 DEF Edit, PackInv
  <2>2. ASSUME NEW o \in Orders, NEW p \in Overrides \cup {None}, NEW b \in Boxes,
               NEW s \in Sizes \cup {None}, NEW w \in Weights, Ship(o, p, b, s, w)
        PROVE  PackInv'
    BY <2>2 DEF Ship, PackInv
  <2>3. CASE Resolve
    <3>1. Shelves' = Shelves /\ UNCHANGED <<order, box, measured, switched>> /\ ~switched
      BY <2>3 DEF Resolve, Shelves, request, Asked
    <3>2. ResolvedBox(packed)'
      BY <2>3, <3>1 DEF Resolve, ResolvedBox
    <3> QED
      BY <3>1, <3>2 DEF PackInv
  <2>4. ASSUME Check \/ BuyLabel \/ UNCHANGED vars PROVE PackInv'
    <3>1. Shelves' = Shelves /\ UNCHANGED <<order, box, measured, switched, override, packed>>
      BY <2>4 DEF Check, BuyLabel, vars, Shelves, request
    <3>2. stage' \notin {"idle", "resolve"} => stage \notin {"idle", "resolve"}
      BY <2>4 DEF Check, BuyLabel, vars
    <3> QED
      BY <3>1, <3>2 DEF PackInv, ResolvedBox, OverriddenBox
  <2>5. ASSUME NEW choice \in Overrides, Choose(choice) PROVE PackInv'
    BY <2>5 DEF Choose, PackInv
  <2>6. CASE ApplyOverride
    <3>1. Shelves' = Shelves /\ UNCHANGED <<order, box, measured, override>> /\ ~switched
      BY <2>6 DEF ApplyOverride, Shelves, request, Asked
    <3>2. ResolvedBox(packed)
      BY <2>6, <3>1 DEF ApplyOverride, PackInv
    <3>3. CASE override = "FEDEX_ONE_RATE_2DAY" /\ switched'
      <4>1. \E view, inner \in Shelves : packed' = OneRateOverride(view, inner, box, packed)
        BY <2>6, <3>1, <3>3 DEF ApplyOverride
      <4>2. OverriddenBox'
        BY <3>1, <4>1 DEF OverriddenBox
      <4> QED
        BY <3>1, <3>3, <4>2 DEF PackInv
    <3>4. CASE ~(override = "FEDEX_ONE_RATE_2DAY" /\ switched')
      <4>1. packed' = packed
        BY <2>6, <3>4 DEF ApplyOverride
      <4> QED
        BY <3>1, <3>2, <3>4, <4>1 DEF PackInv, ResolvedBox
    <3> QED
      BY <3>3, <3>4
  <2>7. CASE Clear
    BY <2>7 DEF Clear, PackInv
  <2> QED
    BY <2>1, <2>2, <2>3, <2>4, <2>5, <2>6, <2>7 DEF Next
<1> QED
  BY <1>1, <1>2, CarrierTypeCorrect, PTL DEF Spec

(* A warehouse box is replaced by the first One Rate box that holds it.    *)
THEOREM OneRateHolds == Spec => []OneRateBoxHolds
<1> USE CarrierAssumption
<1>1. TypeOK /\ PackInv => OneRateBoxHolds
  <2> DEFINE shelf == [boxes |-> config.boxes, fedex |-> config.fedex, oneRate |-> config.oneRate]
             size == config.boxes[box].size
             holding == {i \in DOMAIN config.oneRate :
                           /\ config.oneRate[i] \in DOMAIN config.fedex
                           /\ Holds(config.fedex[config.oneRate[i]].size, size)}
  <2> SUFFICES ASSUME TypeOK, PackInv,
                      stage \notin {"idle", "resolve"}, during = {config},
                      "fedex" \in order.method \/ (switched /\ override = "FEDEX_ONE_RATE_2DAY"),
                      box \in DOMAIN config.boxes \ (DOMAIN config.fedex \cup {"OB", "FXENV"}),
                      holding # {}
               PROVE  packed.box = config.oneRate[FirstOf(holding)]
    BY DEF OneRateBoxHolds
  <2>1. Shelves = {shelf}
    BY DEF Shelves
  <2>2. shelf.boxes = config.boxes /\ shelf.fedex = config.fedex /\ shelf.oneRate = config.oneRate
    OBVIOUS
  <2>3. packed = BestFedexOneRateBox(shelf, size)
    <3>1. CASE switched /\ override = "FEDEX_ONE_RATE_2DAY"
      <4>1. PICK pack : packed = OneRateOverride(shelf, shelf, box, pack)
        BY <2>1, <3>1 DEF PackInv, OverriddenBox
      <4> HIDE DEF shelf
      <4> QED
        BY <2>2, <4>1 DEF OneRateOverride
    <3>2. CASE ~(switched /\ override = "FEDEX_ONE_RATE_2DAY")
      <4>1. packed = ResolveBoxDims(shelf, shelf, box, order.method, measured)
        BY <2>1, <3>2 DEF PackInv, ResolvedBox
      <4> HIDE DEF shelf
      <4> QED
        BY <2>2, <3>2, <4>1 DEF ResolveBoxDims
    <3> QED
      BY <3>1, <3>2
  <2> HIDE DEF shelf
  <2>4. size \in BoxSizes /\ \A f \in DOMAIN config.fedex : config.fedex[f].size \in BoxSizes
    BY DEF TypeOK
  <2>5. OneRateFits(shelf, size) = holding
    BY <2>2, <2>4, SortedSidesDecide DEF OneRateFits
  <2> QED
    BY <2>2, <2>3, <2>5 DEF BestFedexOneRateBox, AsFedexBox, Packed
<1> QED
  BY <1>1, CarrierTypeCorrect, PackInvHolds, PTL
=============================================================================
