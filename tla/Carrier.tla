------------------------------ MODULE Carrier ------------------------------
(***************************************************************************)
(* Which carrier an order ships with: the station sends a ship request     *)
(* (shipping.py, ship_order), is perhaps answered with the suggestion of   *)
(* another carrier, and sends the request again with the operator's choice *)
(* as carrier_override; the label is bought and the carrier's name goes to *)
(* Sentry.  Meanwhile an admin edits the settings, which every step reads  *)
(* anew, part by part.                                                     *)
(*                                                                         *)
(* An edit may be taken back at any time, so what a request may read is    *)
(* any of the settings that were current since it began (during).          *)
(***************************************************************************)
EXTENDS CarrierRules

CONSTANTS
  Configs,   \* the settings an admin may put in force
  Orders,    \* what Sentry may hold of an order: method, rural, poBox, abroad, paid
  Boxes,     \* codes the operator may scan
  FedexCodes,\* those of them that are FedEx boxes
  Sizes,     \* sizes of boxes measured by hand
  Weights

Overrides == {"UPS", "USPS", "FEDEX_ONE_RATE_2DAY"}

BoxSizes == [l : Nat, w : Nat, h : Nat]

ASSUME CarrierAssumption ==
  /\ None \notin Overrides \cup {"FEDEX", "UNKNOWN"} \cup Orders \cup Sizes
  /\ Orders \subseteq [method : SUBSET STRING, rural : BOOLEAN, poBox : BOOLEAN,
                       abroad : BOOLEAN, paid : Int]
  /\ \A c \in Configs :
       /\ \A b \in DOMAIN c.boxes : c.boxes[b].size \in BoxSizes
       /\ \A f \in DOMAIN c.fedex : c.fedex[f].size \in BoxSizes

VARIABLES
  config,    \* the settings in force
  during,    \* those that were in force since the request began
  stage,     \* where the request stands
  order,     \* the order
  picked,    \* the carrier picked before the box was scanned, or None
  box, measured, weight,
  override,  \* the carrier_override of the request, or None
  packed,    \* what the package ships as
  suggested, \* the carrier suggested, or None
  switched,  \* carrier_switched
  label,     \* the carrier of the label bought
  told       \* the carrier sent to Sentry

request == <<order, picked, box, measured, weight>>
vars == <<config, during, stage, request, override, packed, suggested, switched, label, told>>

Unpacked == Packed(None, DefaultSize, "02")

TypeOK ==
  /\ config \in Configs
  /\ during \subseteq Configs /\ config \in during
  /\ stage \in {"idle", "resolve", "check", "conflict", "override", "label", "done"}
  /\ IF stage = "idle"
       THEN {order, box, measured, weight} = {None}
       ELSE /\ order \in Orders /\ box \in Boxes /\ weight \in Weights
            /\ measured \in IF box = "OB" THEN Sizes ELSE {None}
  /\ picked \in Overrides \cup {None}
  /\ override \in Overrides \cup {None}
  /\ DOMAIN packed = {"box", "size", "code"}
  /\ suggested \in {"UPS", "USPS", None}
  /\ switched \in BOOLEAN
  /\ label \in {"UPS", "USPS", "FEDEX", None}
  /\ told \in Overrides \cup {"FEDEX", "UNKNOWN", None}
  /\ stage = "done" => label # None /\ told # None

Init ==
  /\ config \in Configs
  /\ during = {config}
  /\ stage = "idle"
  /\ order = None /\ box = None /\ measured = None /\ weight = None
  /\ picked = None
  /\ override = None
  /\ packed = Unpacked
  /\ suggested = None
  /\ switched = FALSE
  /\ label = None
  /\ told = None

(* What the steps of a request may have read.                              *)
Views ==
  {[rules |-> a.rules, reasons |-> b.reasons, boxes |-> c.boxes] : a, b, c \in during}
Shelves ==
  {[boxes |-> a.boxes, fedex |-> b.fedex, oneRate |-> c.oneRate] : a, b, c \in during}

Edit(c) ==
  /\ c # config
  /\ config' = c
  /\ during' = during \cup {c}
  /\ UNCHANGED <<stage, request, override, packed, suggested, switched, label, told>>

(* The station takes a FedEx code only for a FedEx order or choice.        *)
FedexMode(o, p) == IF p = None THEN "fedex" \in o.method ELSE p = "FEDEX_ONE_RATE_2DAY"

\* The operator has loaded the order, perhaps changed its carrier, and scans the box.
Ship(o, p, b, size, w) ==
  /\ stage = "idle"
  /\ b \in FedexCodes => FedexMode(o, p)
  /\ b # "OB" => size = None
  /\ b = "OB" => size # None
  /\ order' = o /\ picked' = p /\ box' = b /\ measured' = size /\ weight' = w
  /\ override' = p
  /\ during' = {config}
  /\ stage' = "resolve"
  /\ UNCHANGED <<config, packed, suggested, switched, label, told>>

Resolve ==
  /\ stage = "resolve"
  /\ \E view, inner \in Shelves :
       packed' = ResolveBoxDims(view, inner, box, order.method, measured)
  /\ stage' = IF override = None THEN "check" ELSE "override"
  /\ UNCHANGED <<config, during, request, override, suggested, switched, label, told>>

Check ==
  /\ stage = "check"
  /\ \E view, inner \in Views :
       LET conflict == CheckConflict(view, inner, order, box, packed.size, weight) IN
       /\ suggested' = conflict
       /\ stage' = IF conflict = None THEN "label" ELSE "conflict"
  /\ UNCHANGED <<config, during, request, override, packed, switched, label, told>>

(* The carrier dialog; a suggestion of UPS has no button to keep USPS.     *)
Choose(choice) ==
  /\ stage = "conflict"
  /\ choice \in {suggested} \cup (IF suggested = "UPS" THEN {} ELSE {CurrentCarrier(order.method)})
  /\ override' = choice
  /\ during' = {config}
  /\ stage' = "resolve"
  /\ UNCHANGED <<config, request, packed, suggested, switched, label, told>>

ApplyOverride ==
  /\ stage = "override"
  /\ stage' = "label"
  /\ \/ /\ \E c \in during : override \notin c.methods
        /\ UNCHANGED <<packed, switched>>
     \/ /\ \E c \in during : override \in c.methods
        /\ IF override = "FEDEX_ONE_RATE_2DAY"
             THEN /\ \E view, inner \in Shelves :
                       packed' = OneRateOverride(view, inner, box, packed)
                  /\ switched' = TRUE
             ELSE /\ switched' = (CurrentCarrier(order.method) # override)
                  /\ UNCHANGED packed
  /\ UNCHANGED <<config, during, request, override, suggested, label, told>>

\* A mistake the runs must detect: Sentry is always told the carrier of the ship method.
Bug_SentryCarrier ==
  IF CurrentCarrier(order.method) # None THEN CurrentCarrier(order.method) ELSE "UNKNOWN"

SentryCarrier ==
  IF switched THEN override
  ELSE IF CurrentCarrier(order.method) # None THEN CurrentCarrier(order.method)
  ELSE "UNKNOWN"

BuyLabel ==
  /\ stage = "label"
  /\ \E c \in during : label' = LabelCarrier(c.services, order.method, override)
  /\ told' = SentryCarrier
  /\ stage' = "done"
  /\ UNCHANGED <<config, during, request, override, packed, suggested, switched>>

\* The screen is cleared after the ship, or instead of a choice.
Clear ==
  /\ stage \in {"conflict", "done"}
  /\ stage' = "idle"
  /\ during' = {config}
  /\ order' = None /\ box' = None /\ measured' = None /\ weight' = None
  /\ picked' = None /\ override' = None /\ packed' = Unpacked /\ suggested' = None
  /\ switched' = FALSE /\ label' = None /\ told' = None
  /\ UNCHANGED config

Next ==
  \/ \E c \in Configs : Edit(c)
  \/ \E o \in Orders, p \in Overrides \cup {None}, b \in Boxes, s \in Sizes \cup {None}, w \in Weights :
       Ship(o, p, b, s, w)
  \/ \E choice \in Overrides : Choose(choice)
  \/ Resolve \/ Check \/ ApplyOverride \/ BuyLabel \/ Clear

Spec == Init /\ [][Next]_vars

-----------------------------------------------------------------------------
CarrierNamed(name) == IF name = "FEDEX_ONE_RATE_2DAY" THEN "FEDEX" ELSE name

(* Every slot of shiprush_services is filled, every override has a method. *)
Equipped ==
  \A c \in during : DOMAIN ServiceCarrier \subseteq c.services /\ Overrides \subseteq c.methods

(* A method whose words both current_carrier and _resolve_carrier take for *)
(* the same carrier ("Priority Mail" or "FedEx SmartPost" are none).       *)
NamesOneCarrier(method) ==
  \/ "usps" \in method /\ method \cap {"ups", "fedex"} = {}
  \/ method \cap {"usps", "post", "media", "ups", "fedex"} \in {{"ups"}, {"fedex"}}

(* What has been sold is what was chosen: the label is the last choice's   *)
(* carrier's or, without a choice, the carrier's the method names.         *)
ChoiceShips ==
  stage = "done" /\ Equipped =>
    label = IF override # None THEN CarrierNamed(override)
            ELSE IF NamesOneCarrier(order.method) THEN CurrentCarrier(order.method)
            ELSE label

(* Sentry is told the carrier whose label was bought, however often the    *)
(* request was sent and whatever was edited ("Resolve the carrier name to  *)
(* send to Sentry") - if the settings name all slots and methods, and the  *)
(* ship method names its carrier or an override stands in for it.          *)
CarrierToldIsLabels ==
  stage = "done" /\ Equipped /\ (override # None \/ NamesOneCarrier(order.method)) =>
    CarrierNamed(told) = label

(* UPS does not deliver to a PO box: a USPS order to one is shipped with   *)
(* UPS only if the operator had picked UPS before, never by suggestion.    *)
PoBoxKeepsUsps ==
  /\ stage = "done" /\ Equipped /\ label = "UPS"
  /\ order.poBox /\ "usps" \in order.method /\ NamesOneCarrier(order.method)
  => picked = "UPS"

(* In a rural area USPS is kept: UPS is suggested only for a package that  *)
(* breaks a USPS limit, unless two reasons are given the same text.        *)
RuralStaysUsps ==
  /\ stage = "conflict" /\ suggested = "UPS" /\ order.rural
  /\ \A c, d \in during : "DIM_OVERRIDE" \in DOMAIN d.reasons =>
       /\ d.reasons["DIM_OVERRIDE"] # NoText
       /\ \A key \in DOMAIN c.reasons \ {"DIM_OVERRIDE"} :
            c.reasons[key] # d.reasons["DIM_OVERRIDE"]
  => \E c \in during : TooBigForUsps(c.rules, packed.size, weight)

(* The engine stands by its suggestion: had the order been with the        *)
(* carrier it suggests, it would not suggest the one it now has - but for  *)
(* a box that prefers USPS, is too big for it, and goes to a rural ZIP.    *)
SuggestionStands ==
  stage = "conflict" /\ during = {config} =>
    LET twin == [order EXCEPT !.method = IF suggested = "UPS" THEN {"ups"} ELSE {"usps"}] IN
    \/ CheckConflict(config, config, twin, box, packed.size, weight)
         # CurrentCarrier(order.method)
    \/ /\ order.rural /\ Preference(config, box) = "USPS"
       /\ TooBigForUsps(config.rules, packed.size, weight)

(* A warehouse box is replaced by the first One Rate box of the order list *)
(* that takes it in some position, if any does.                            *)
Turns == {<<1, 2, 3>>, <<1, 3, 2>>, <<2, 1, 3>>, <<2, 3, 1>>, <<3, 1, 2>>, <<3, 2, 1>>}

Holds(outer, size) ==
  LET sides == <<size.l, size.w, size.h>> IN
  \E t \in Turns : /\ sides[t[1]] <= outer.l
                   /\ sides[t[2]] <= outer.w
                   /\ sides[t[3]] <= outer.h

OneRateBoxHolds ==
  /\ stage \notin {"idle", "resolve"} /\ during = {config}
  /\ "fedex" \in order.method \/ (switched /\ override = "FEDEX_ONE_RATE_2DAY")
  /\ box \in DOMAIN config.boxes \ (DOMAIN config.fedex \cup {"OB", "FXENV"})
  => LET holding == {i \in DOMAIN config.oneRate :
                       /\ config.oneRate[i] \in DOMAIN config.fedex
                       /\ Holds(config.fedex[config.oneRate[i]].size, config.boxes[box].size)}
     IN holding # {} => packed.box = config.oneRate[FirstOf(holding)]
=============================================================================
