--------------------------- MODULE StationProofs ---------------------------
(* What the station's page keeps to in whatever order its calls are        *)
(* answered, for any orders and any number of scans.                       *)
EXTENDS Station, FiniteSetTheorems, TLAPS

USE StationAssumption DEF history, asides

LEMMA PickedIs ==
  ASSUME TypeOK
  PROVE  Picked = IF picks["change"] # None THEN picks["change"]
                  ELSE IF picks["amazon"] # None THEN picks["amazon"]
                  ELSE picks["highvalue"]
<1> DEFINE made == {d \in DOMAIN picks : picks[d] # None}
           wins(d) == \/ d = "change"
                      \/ d = "amazon" /\ "change" \notin made
                      \/ d = "highvalue" /\ made = {"highvalue"}
<1>1. DOMAIN picks = {"amazon", "highvalue", "change"}
  BY DEF TypeOK, NoPicks
<1>2. Picked = IF made = {} THEN None ELSE picks[CHOOSE d \in made : wins(d)]
  BY DEF Picked
<1>3. CASE picks["change"] # None
  <2>1. "change" \in made /\ \A d \in made : wins(d) => d = "change"
    BY <1>1, <1>3
  <2>2. (CHOOSE d \in made : wins(d)) = "change"
    BY <2>1
  <2> QED
    BY <1>2, <1>3, <2>1, <2>2
<1>4. CASE picks["change"] = None /\ picks["amazon"] # None
  <2>1. "amazon" \in made /\ wins("amazon") /\ \A d \in made : wins(d) => d = "amazon"
    BY <1>1, <1>4
  <2>2. (CHOOSE d \in made : wins(d)) = "amazon"
    BY <2>1
  <2> QED
    BY <1>2, <1>4, <2>1, <2>2
<1>5. CASE picks["change"] = None /\ picks["amazon"] = None /\ picks["highvalue"] # None
  <2>1. made = {"highvalue"}
    BY <1>1, <1>5
  <2>2. (CHOOSE d \in made : wins(d)) = "highvalue"
    BY <2>1
  <2> QED
    BY <1>2, <1>5, <2>1, <2>2
<1>6. CASE picks["change"] = None /\ picks["amazon"] = None /\ picks["highvalue"] = None
  <2>1. made = {}
    BY <1>1, <1>6
  <2> QED
    BY <1>2, <1>6, <2>1
<1> QED
  BY <1>3, <1>4, <1>5, <1>6

PickedFirst ==
  TypeOK => Picked = IF picks["change"] # None THEN picks["change"]
                     ELSE IF picks["amazon"] # None THEN picks["amazon"]
                     ELSE picks["highvalue"]

LEMMA PickedIsThen == PickedFirst'
<1>1. PickedFirst
  BY PickedIs DEF PickedFirst
<1> QED
  BY <1>1, PTL

(* A request that is assembled is typed.                                   *)
LEMMA AssembledIs ==
  ASSUME TypeOK, NEW reading \in Reading
  PROVE  Assembled(reading) \in Payload
<1>1. Picked = None \/ Picked \in Pick
  BY PickedIs DEF TypeOK, NoPicks
<1>2. (screen # None /\ checkCompletion) \in BOOLEAN
  BY DEF checkCompletion
<1> QED
  BY <1>1, <1>2 DEF Assembled, TypeOK, Payload, Pick, Reading

-----------------------------------------------------------------------------
(* A suggestion is always about a request, which can be sent again.        *)
Repeatable == sent # {} => pending # None

(* The page's variables are of their types; an order's dialog is open only *)
(* over an order, and the suggestion's only with a request to repeat.      *)
THEOREM StationTypeCorrect == Spec => [](TypeOK /\ Repeatable)
<1>1. Init => TypeOK /\ Repeatable
  <2> SUFFICES ASSUME Init PROVE TypeOK /\ Repeatable
    OBVIOUS
  <2>1. NoPicks \in [DOMAIN NoPicks -> Pick \cup {None}]
    BY DEF NoPicks
  <2>2. fetching \in [Orders -> Nat]
    BY DEF Init
  <2>3. dialogs \cap {"pickup", "amazon", "highvalue", "change", "ob"} = {}
    BY DEF Init
  <2>4. /\ {fetches, scans, toggles, sends, handled, labels, sold, visit, armedIn} \subseteq Nat
        /\ asked \in [Dialogs -> Nat] /\ under \subseteq Nat
    BY DEF Init
  <2>5. /\ weighing \subseteq Reading
        /\ \A request \in sent \cup printing : request.payload \in Payload
    BY DEF Init
  <2>6. Repeatable /\ ("carrier" \in dialogs => pending # None /\ suggested # None)
    BY DEF Init, Repeatable
  <2>7. /\ screen \in Orders \cup {None} /\ unverified \in Nat /\ fedex \in BOOLEAN
        /\ dialogs \subseteq Dialogs /\ armed \in BOOLEAN /\ pending = None
        /\ suggested = None /\ lastShipped = None /\ picks = NoPicks
    BY DEF Init
  <2>8. {timers, byHand, notices} \subseteq Nat
    BY DEF Init
  <2> QED
    BY <2>1, <2>2, <2>3, <2>4, <2>5, <2>6, <2>7, <2>8 DEF TypeOK
<1>2. TypeOK /\ Repeatable /\ [Next]_vars => TypeOK' /\ Repeatable'
  <2> SUFFICES ASSUME TypeOK, Repeatable, [Next]_vars PROVE TypeOK' /\ Repeatable'
    OBVIOUS
  <2>0. DOMAIN NoPicks = {"amazon", "highvalue", "change"}
    BY DEF NoPicks
  <2>a. ASSUME NEW d \in DOMAIN NoPicks, NEW c \in Carriers, MakePick(d, c)
        PROVE  picks' \in [DOMAIN NoPicks -> Pick \cup {None}]
    <3>1. [carrier |-> c, visit |-> asked[d]] \in Pick
      BY <2>0 DEF Pick, TypeOK, Dialogs
    <3> QED
      BY <2>a, <3>1 DEF MakePick, TypeOK
  <2>b. ASSUME NEW d \in DOMAIN NoPicks, picks' = [picks EXCEPT ![d] = None]
        PROVE  picks' \in [DOMAIN NoPicks -> Pick \cup {None}]
    BY <2>b DEF TypeOK
  <2>c. ASSUME NEW d \in Dialogs, NEW v \in Nat, Open(d, v)
        PROVE  asked' \in [Dialogs -> Nat] /\ dialogs' = dialogs \cup {d}
    BY <2>c DEF Open, TypeOK
  <2>d. ASSUME NEW d \in Dialogs, Close(d)
        PROVE  asked' \in [Dialogs -> Nat] /\ dialogs' = dialogs \ {d}
    BY <2>d DEF Close, TypeOK
  <2>e. {"amazon", "highvalue", "change", "carrier", "ob"} \subseteq Dialogs
    BY DEF Dialogs
  <2> USE DEF TypeOK, Repeatable
  <2>1. ASSUME NEW o \in Orders, ScanOrder(o) PROVE TypeOK' /\ Repeatable'
    BY <2>1 DEF ScanOrder, page
  <2>2. ASSUME NEW o \in Orders, OrderLoaded(o) PROVE TypeOK' /\ Repeatable'
    <3>1. picks' \in [DOMAIN NoPicks -> Pick \cup {None}]
      BY <2>2 DEF OrderLoaded, ForgetPicks, NoPicks
    <3>2. fetching' \in [Orders -> Nat]
      BY <2>2 DEF OrderLoaded, Answered
    <3>3. Items[o] \in Nat
      OBVIOUS
    <3>4. visit' \in Nat /\ under' \subseteq Nat
      <4>1. visit' = visit + 1 /\ visit' \in Nat
        BY <2>2 DEF OrderLoaded
      <4>2. under' = under \/ under' = under \cup {visit'}
        BY <2>2 DEF OrderLoaded
      <4> QED
        BY <4>1, <4>2
    <3>5. /\ asked' \in [Dialogs -> Nat] /\ dialogs' \subseteq Dialogs
          /\ "carrier" \in dialogs' => "carrier" \in dialogs
      <4>1. CASE Dialog[o] = None
        BY <2>2, <4>1 DEF OrderLoaded
      <4>2. CASE Dialog[o] # None
        <5>1. Dialog[o] \in Dialogs /\ Dialog[o] # "carrier"
          BY <4>2 DEF Dialogs
        <5> QED
          BY <2>2, <2>c, <3>4, <4>2, <5>1 DEF OrderLoaded
      <4> QED
        BY <4>1, <4>2
    <3> QED
      BY <2>2, <3>1, <3>2, <3>3, <3>4, <3>5 DEF OrderLoaded, counts
  <2>3. ASSUME NEW o \in Orders, OrderFails(o) PROVE TypeOK' /\ Repeatable'
    BY <2>3 DEF OrderFails, Answered, page, ghosts, counts
  <2>4. CASE VerifyItem
    BY <2>4 DEF VerifyItem, calls, ghosts, counts
  <2>5. CASE ScanBox
    BY <2>5 DEF ScanBox, MayScanBox, page, Reading
  <2>6. CASE showOBModal \/ cancelOB
    BY <2>6, <2>c, <2>d, <2>e DEF showOBModal, cancelOB, MayScanBox, calls, counts
  <2>7. CASE confirmOB
    <3>1. asked["ob"] \in Nat
      BY <2>e
    <3> QED
      BY <2>7, <2>d, <2>e, <3>1 DEF confirmOB, Reading
  <2>8. ASSUME NEW reading \in weighing, ScaleAnswers(reading) PROVE TypeOK' /\ Repeatable'
    <3>1. Assembled(reading) \in Payload
      BY AssembledIs
    <3> QED
      BY <2>8, <3>1 DEF ScaleAnswers, doShipRequest
  <2>9. ASSUME NEW reading \in weighing, ScaleFails(reading) PROVE TypeOK' /\ Repeatable'
    BY <2>9 DEF ScaleFails, page, ghosts, counts
  <2>10. ASSUME NEW request \in sent, ShipSucceeds(request) PROVE TypeOK' /\ Repeatable'
    <3>1. {fetches, scans, toggles, sends, handled, labels, sold, visit, armedIn}' \subseteq Nat
      BY <2>10 DEF ShipSucceeds
    <3>2. \A r \in sent' \cup printing' : r.payload \in Payload
      BY <2>10 DEF ShipSucceeds
    <3> QED
      BY <2>10, <3>1, <3>2 DEF ShipSucceeds
  <2>11. ASSUME NEW request \in sent, NEW carrier \in Carriers \ {FedEx},
                ShipConflicts(request, carrier)
         PROVE  TypeOK' /\ Repeatable'
    <3>1. request.payload.visit \in Nat
      BY DEF Payload
    <3> QED
      BY <2>11, <2>c, <2>e, <3>1 DEF ShipConflicts, counts
  <2>12. ASSUME NEW request \in sent, ShipFails(request) PROVE TypeOK' /\ Repeatable'
    BY <2>12 DEF ShipFails, page
  <2>13. ASSUME NEW request \in printing, LabelPrinted(request) PROVE TypeOK' /\ Repeatable'
    BY <2>13 DEF LabelPrinted, ghosts, counts, Dialogs
  <2>14. ASSUME NEW carrier \in Carriers, shipWithCarrier(carrier) PROVE TypeOK' /\ Repeatable'
    <3>1. asked["carrier"] \in Nat /\ asked' \in [Dialogs -> Nat]
      BY <2>14, <2>e DEF shipWithCarrier
    <3>2. pending' \in Payload
      BY <2>14, <3>1 DEF shipWithCarrier, Payload
    <3> QED
      BY <2>14, <3>1, <3>2 DEF shipWithCarrier, AfterChoice, doShipRequest
  <2>15. ASSUME NEW carrier \in Carriers,
                selectAmazonCarrier(carrier) \/ applyManualCarrier(carrier)
         PROVE  TypeOK' /\ Repeatable'
    <3>1. picks' \in [DOMAIN NoPicks -> Pick \cup {None}]
      BY <2>0, <2>a, <2>15 DEF selectAmazonCarrier, applyManualCarrier
    <3>2. CASE selectAmazonCarrier(carrier)
      <4>1. asked' \in [Dialogs -> Nat] /\ dialogs' \subseteq dialogs
        BY <2>d, <2>e, <3>2 DEF selectAmazonCarrier
      <4> QED
        BY <3>1, <3>2, <4>1 DEF selectAmazonCarrier, calls, counts
    <3>3. CASE applyManualCarrier(carrier)
      <4>1. asked' \in [Dialogs -> Nat] /\ dialogs' \subseteq dialogs
        BY <2>d, <2>e, <3>3 DEF applyManualCarrier
      <4>2. fedex' \in BOOLEAN
        BY <3>3 DEF applyManualCarrier, ModeOf
      <4> QED
        BY <3>1, <3>3, <4>1, <4>2 DEF applyManualCarrier, calls, counts
    <3> QED
      BY <2>15, <3>2, <3>3
  <2>16. ASSUME NEW carrier \in Carriers \cup {None}, selectHighValueCarrier(carrier)
         PROVE  TypeOK' /\ Repeatable'
    <3>1. picks' \in [DOMAIN NoPicks -> Pick \cup {None}]
      BY <2>0, <2>a, <2>b, <2>16 DEF selectHighValueCarrier
    <3> QED
      BY <2>16, <2>d, <2>e, <3>1 DEF selectHighValueCarrier, calls, counts
  <2>17. CASE openChangeCarrierModal \/ closeChangeCarrierModal
    BY <2>17, <2>c, <2>d, <2>e DEF openChangeCarrierModal, closeChangeCarrierModal, calls, counts
  <2>18. CASE toggleAdultSignature
    BY <2>18 DEF toggleAdultSignature, calls
  <2>19. CASE Clear \/ confirmPickup \/ TimerFires
    <3>1. picks' \in [DOMAIN NoPicks -> Pick \cup {None}]
      BY <2>0, <2>b, <2>19 DEF Clear, confirmPickup, TimerFires, softReset
    <3>2. dialogs' = {} /\ asked' \in [Dialogs -> Nat]
      BY <2>19 DEF Clear, confirmPickup, TimerFires, softReset
    <3>3. dialogs' \cap {"pickup", "amazon", "highvalue", "change", "ob"} = {}
      BY <3>2
    <3>4. /\ screen' = None /\ unverified' = 0 /\ fedex' = FALSE
          /\ UNCHANGED <<armed, pending, suggested, lastShipped>>
      BY <2>19 DEF Clear, confirmPickup, TimerFires, softReset
    <3>5. /\ timers' \in Nat /\ UNCHANGED <<byHand, notices, under>>
          /\ UNCHANGED <<fetching, weighing, sent, printing>>
      BY <2>19 DEF Clear, confirmPickup, TimerFires, calls
    <3>6. {fetches, scans, toggles, sends, handled, labels, sold, visit, armedIn}' \subseteq Nat
      BY <2>19 DEF Clear, confirmPickup, TimerFires, counts
    <3> QED
      BY <3>1, <3>2, <3>3, <3>4, <3>5, <3>6
  <2>20. CASE submitByHand \/ ByHandSucceeds \/ ByHandFails \/ NoticeEnds
    <3>1. CASE submitByHand
      BY <3>1 DEF submitByHand, page
    <3>2. CASE ByHandSucceeds
      <4>1. byHand' \in Nat /\ notices' \in Nat /\ timers' \in Nat
        BY <3>2 DEF ByHandSucceeds
      <4>2. dialogs' \subseteq Dialogs /\ dialogs' = dialogs \cup {"success"}
        BY <3>2 DEF ByHandSucceeds, Dialogs
      <4> QED
        BY <3>2, <4>1, <4>2 DEF ByHandSucceeds, ghosts, counts
    <3>3. CASE ByHandFails
      BY <3>3 DEF ByHandFails, page, ghosts, counts
    <3>4. CASE NoticeEnds
      BY <3>4 DEF NoticeEnds, ghosts, counts
    <3> QED
      BY <2>20, <3>1, <3>2, <3>3, <3>4
  <2>21. CASE UNCHANGED vars
    BY <2>21 DEF vars, page, calls, ghosts, counts
  <2> QED
    BY <2>1, <2>2, <2>3, <2>4, <2>5, <2>6, <2>7, <2>8, <2>9, <2>10, <2>11, <2>12, <2>13, <2>14,
       <2>15, <2>16, <2>17, <2>18, <2>19, <2>20, <2>21 DEF Next
<1> QED
  BY <1>1, <1>2, PTL DEF Spec

-----------------------------------------------------------------------------
(* What blocks a scan: the dialog of a pickup order stays until the order  *)
(* goes, that of an Amazon order until a carrier is picked.                *)
Decided(o) == /\ Dialog[o] # "pickup"
              /\ Dialog[o] = "amazon" => picks["amazon"] # None

(* A box scanned in visit v has been scanned with everything verified and  *)
(* decided, if v still is what the screen shows.                           *)
Settled(v) == /\ v \in Nat /\ v <= visit
              /\ v = visit /\ screen # None => checkCompletion /\ Decided(screen)

ScanInv ==
  /\ \A reading \in weighing : Settled(reading.visit)
  /\ asked["ob"] <= visit
  /\ "ob" \in dialogs => Settled(asked["ob"])
  /\ screen # None /\ Dialog[screen] = "pickup" => "pickup" \in dialogs
  /\ screen # None /\ Dialog[screen] = "amazon" => "amazon" \in dialogs \/ picks["amazon"] # None

LEMMA PicksDomain == DOMAIN NoPicks = {"amazon", "highvalue", "change"}
  BY DEF NoPicks

(* The dialog that a step opens or closes, and no other, changes.          *)
LEMMA OpenOpens ==
  ASSUME TypeOK, NEW d \in Dialogs, NEW v \in Nat, Open(d, v)
  PROVE  /\ dialogs' = dialogs \cup {d} /\ asked'[d] = v
         /\ \A e \in Dialogs \ {d} : asked'[e] = asked[e]
BY DEF Open, TypeOK

LEMMA CloseCloses ==
  ASSUME TypeOK, NEW d \in Dialogs, Close(d)
  PROVE  /\ d \in dialogs /\ dialogs' = dialogs \ {d} /\ asked'[d] = 0
         /\ \A e \in Dialogs \ {d} : asked'[e] = asked[e]
BY DEF Close, TypeOK

LEMMA Asks == {"amazon", "highvalue", "change", "carrier", "ob", "pickup"} \subseteq Dialogs
BY DEF Dialogs

(* Loading an order opens none of the dialogs that a click or an answer does. *)
LEMMA OpensIts ==
  ASSUME NEW o \in Orders
  PROVE  Dialog[o] \notin {"carrier", "change", "ob", "success"}
BY StationAssumption DEF Dialogs

(* An order that is loaded starts a new visit, and opens its dialog alone. *)
LEMMA LoadIs ==
  ASSUME TypeOK, NEW o \in Orders, OrderLoaded(o)
  PROVE  /\ visit \in Nat /\ visit' = visit + 1 /\ screen' = o /\ picks' = NoPicks
         /\ dialogs' = IF Dialog[o] = None THEN dialogs ELSE dialogs \cup {Dialog[o]}
         /\ \A d \in Dialogs : asked'[d] = IF d = Dialog[o] THEN visit' ELSE asked[d]
<1>1. visit' \in Nat
  BY DEF OrderLoaded, TypeOK
<1>2. CASE Dialog[o] = None
  BY <1>2 DEF OrderLoaded, ForgetPicks, TypeOK
<1>3. CASE Dialog[o] # None
  <2>1. Dialog[o] \in Dialogs
    BY <1>3, Asks
  <2>2. Open(Dialog[o], visit')
    BY <1>3 DEF OrderLoaded
  <2> QED
    BY <1>1, <1>3, <2>1, <2>2, OpenOpens DEF OrderLoaded, ForgetPicks, TypeOK
<1> QED
  BY <1>2, <1>3

(* What is older than an order's load is not about it.                     *)
LEMMA ScanInvLoads ==
  ASSUME TypeOK, ScanInv, NEW o \in Orders, OrderLoaded(o)
  PROVE  ScanInv'
<1>1. visit \in Nat /\ visit' = visit + 1 /\ screen' = o /\ weighing' = weighing
  BY LoadIs DEF OrderLoaded
<1>2. \A v \in Nat : v <= visit => v <= visit' /\ v # visit'
  BY <1>1
<1>3. \A reading \in weighing' : Settled(reading.visit)'
  BY <1>1, <1>2 DEF ScanInv, Settled
<1>4. asked'["ob"] = asked["ob"] /\ asked["ob"] \in Nat
  BY LoadIs, Asks DEF TypeOK
<1>5. asked'["ob"] <= visit' /\ Settled(asked["ob"])'
  BY <1>1, <1>2, <1>4 DEF ScanInv, Settled
<1>6. Dialog[o] # None => Dialog[o] \in dialogs'
  BY LoadIs
<1> QED
  BY <1>1, <1>3, <1>5, <1>6, Asks DEF ScanInv, Dialogs

LEMMA ScanInvClears ==
  ASSUME TypeOK, ScanInv, softReset, UNCHANGED <<weighing, visit>>
  PROVE  ScanInv'
<1>1. screen' = None /\ dialogs' = {} /\ asked'["ob"] = 0
  BY Asks DEF softReset
<1>2. \A reading \in weighing' : Settled(reading.visit)'
  BY <1>1 DEF ScanInv, Settled
<1> QED
  BY <1>1, <1>2 DEF ScanInv, TypeOK

(* A step that leaves the visit and neither takes back a pick nor closes a *)
(* dialog of the order.                                                    *)
LEMMA ScanInvStays ==
  ASSUME TypeOK, ScanInv, UNCHANGED <<screen, visit>>,
         unverified' = unverified \/ (unverified > 0 /\ unverified' \in Nat),
         picks["amazon"] # None => picks'["amazon"] # None,
         "pickup" \in dialogs => "pickup" \in dialogs',
         "amazon" \in dialogs => "amazon" \in dialogs' \/ picks'["amazon"] # None,
         asked'["ob"] \in {asked["ob"], 0} \/ (asked'["ob"] = visit /\ Settled(visit)),
         "ob" \in dialogs' => Settled(asked'["ob"]),
         \A reading \in weighing' : Settled(reading.visit)
  PROVE  ScanInv'
<1>1. checkCompletion => unverified' = unverified
  BY DEF checkCompletion, TypeOK
<1>2. ASSUME NEW v, Settled(v) PROVE Settled(v)'
  BY <1>1, <1>2 DEF Settled, checkCompletion, Decided
<1>3. "ob" \in dialogs' => Settled(asked["ob"])'
  BY <1>2 DEF Settled, Decided, checkCompletion
<1>4. \A reading \in weighing' : Settled(reading.visit)'
  BY <1>2
<1>5. asked'["ob"] <= visit'
  BY DEF ScanInv, TypeOK
<1> QED
  BY <1>3, <1>4, <1>5 DEF ScanInv

LEMMA ScanInvNext ==
  ASSUME TypeOK, ScanInv, [Next]_vars PROVE ScanInv'
<1> USE PicksDomain, Asks
<1>1. ASSUME NEW o \in Orders, ScanOrder(o) \/ OrderFails(o) PROVE ScanInv'
  BY <1>1, ScanInvStays DEF ScanOrder, OrderFails, page, ghosts, counts, ScanInv
<1>2. ASSUME NEW o \in Orders, OrderLoaded(o) PROVE ScanInv'
  BY <1>2, ScanInvLoads
<1>3. CASE VerifyItem
  BY <1>3, ScanInvStays DEF VerifyItem, calls, ghosts, counts, ScanInv, TypeOK
<1>4. CASE ScanBox
  <2>1. Settled(visit)
    BY <1>4 DEF ScanBox, MayScanBox, isModalBlocking, ScanInv, Settled, Decided, TypeOK
  <2>2. \A reading \in weighing' : Settled(reading.visit)
    BY <1>4, <2>1 DEF ScanBox, ScanInv
  <2> QED
    BY <1>4, <2>2, ScanInvStays DEF ScanBox, page, ScanInv
<1>5. CASE showOBModal
  <2>1. Settled(visit)
    BY <1>5 DEF showOBModal, MayScanBox, isModalBlocking, ScanInv, Settled, Decided, TypeOK
  <2>2. dialogs' = dialogs \cup {"ob"} /\ asked'["ob"] = visit
    BY <1>5, OpenOpens DEF showOBModal, TypeOK
  <2> QED
    BY <1>5, <2>1, <2>2, ScanInvStays DEF showOBModal, calls, counts, ScanInv
<1>6. CASE cancelOB
  <2>1. dialogs' = dialogs \ {"ob"} /\ asked'["ob"] = 0
    BY <1>6, CloseCloses DEF cancelOB
  <2> QED
    BY <1>6, <2>1, ScanInvStays DEF cancelOB, calls, counts, ScanInv
<1>7. CASE confirmOB
  <2>1. "ob" \in dialogs /\ dialogs' = dialogs \ {"ob"} /\ asked'["ob"] = 0
    BY <1>7, CloseCloses DEF confirmOB
  <2>2. \A reading \in weighing' : Settled(reading.visit)
    BY <1>7, <2>1 DEF confirmOB, ScanInv
  <2> QED
    BY <1>7, <2>1, <2>2, ScanInvStays DEF confirmOB, ScanInv
<1>8. ASSUME NEW reading \in weighing, ScaleAnswers(reading) \/ ScaleFails(reading) PROVE ScanInv'
  BY <1>8, ScanInvStays DEF ScaleAnswers, ScaleFails, page, ghosts, counts, ScanInv
<1>9. ASSUME NEW request \in sent, ShipSucceeds(request) \/ ShipFails(request) PROVE ScanInv'
  BY <1>9, ScanInvStays DEF ShipSucceeds, ShipFails, page, ScanInv
<1>10. ASSUME NEW request \in sent, NEW carrier, ShipConflicts(request, carrier) PROVE ScanInv'
  <2>1. request.payload.visit \in Nat
    BY DEF TypeOK, Payload
  <2>2. dialogs' = dialogs \cup {"carrier"} /\ asked'["ob"] = asked["ob"]
    BY <1>10, <2>1, OpenOpens DEF ShipConflicts
  <2> QED
    BY <1>10, <2>2, ScanInvStays DEF ShipConflicts, counts, ScanInv
<1>11. ASSUME NEW request \in printing, LabelPrinted(request) PROVE ScanInv'
  BY <1>11, ScanInvStays DEF LabelPrinted, ghosts, counts, ScanInv
<1>12. ASSUME NEW carrier \in Carriers, shipWithCarrier(carrier) PROVE ScanInv'
  <2>1. asked'["ob"] = asked["ob"]
    BY <1>12 DEF shipWithCarrier, TypeOK
  <2> QED
    BY <1>12, <2>1, ScanInvStays DEF shipWithCarrier, AfterChoice, ScanInv
<1>13. ASSUME NEW d \in DOMAIN NoPicks, Close(d),
              UNCHANGED <<screen, visit, unverified, weighing>>,
              \A e \in DOMAIN NoPicks \ {d} : picks'[e] = picks[e],
              d = "amazon" => picks'[d] # None
       PROVE  ScanInv'
  <2>1. dialogs' = dialogs \ {d} /\ asked'["ob"] = asked["ob"]
    BY <1>13, CloseCloses
  <2> QED
    BY <1>13, <2>1, ScanInvStays DEF ScanInv
<1>14. ASSUME NEW d \in DOMAIN NoPicks, NEW carrier \in Carriers, MakePick(d, carrier)
       PROVE  picks'[d] # None /\ \A e \in DOMAIN NoPicks \ {d} : picks'[e] = picks[e]
  <2>1. [carrier |-> carrier, visit |-> asked[d]] \in Pick
    BY DEF Pick, TypeOK
  <2> QED
    BY <1>14, <2>1 DEF MakePick, TypeOK
<1>15. ASSUME NEW carrier \in Carriers, selectAmazonCarrier(carrier) PROVE ScanInv'
  BY <1>13, <1>14, <1>15 DEF selectAmazonCarrier, calls
<1>16. ASSUME NEW carrier \in Carriers, applyManualCarrier(carrier) PROVE ScanInv'
  BY <1>13, <1>14, <1>16 DEF applyManualCarrier, calls
<1>17. ASSUME NEW carrier \in Carriers \cup {None}, selectHighValueCarrier(carrier) PROVE ScanInv'
  <2>1. \A e \in DOMAIN NoPicks \ {"highvalue"} : picks'[e] = picks[e]
    BY <1>14, <1>17 DEF selectHighValueCarrier, TypeOK
  <2> QED
    BY <1>13, <1>17, <2>1 DEF selectHighValueCarrier, calls
<1>18. CASE openChangeCarrierModal
  <2>1. dialogs' = dialogs \cup {"change"} /\ asked'["ob"] = asked["ob"]
    BY <1>18, OpenOpens DEF openChangeCarrierModal, TypeOK
  <2> QED
    BY <1>18, <2>1, ScanInvStays DEF openChangeCarrierModal, calls, counts, ScanInv
<1>19. CASE closeChangeCarrierModal
  BY <1>13, <1>19 DEF closeChangeCarrierModal, calls
<1>20. CASE toggleAdultSignature
  BY <1>20, ScanInvStays DEF toggleAdultSignature, calls, ScanInv
<1>21. CASE submitByHand \/ ByHandSucceeds \/ ByHandFails \/ NoticeEnds
  BY <1>21, ScanInvStays DEF submitByHand, ByHandSucceeds, ByHandFails, NoticeEnds, page, ghosts,
                             counts, ScanInv
<1>22. CASE Clear \/ confirmPickup \/ TimerFires
  BY <1>22, ScanInvClears DEF Clear, confirmPickup, TimerFires, calls
<1>23. CASE UNCHANGED vars
  BY <1>23, ScanInvStays DEF vars, page, calls, ghosts, counts, ScanInv
<1> QED
  BY <1>1, <1>2, <1>3, <1>4, <1>5, <1>6, <1>7, <1>8, <1>9, <1>10, <1>11, <1>12, <1>15, <1>16,
     <1>17, <1>18, <1>19, <1>20, <1>21, <1>22, <1>23 DEF Next

-----------------------------------------------------------------------------
(* Every order loaded since visit v was loaded under a dialog about an     *)
(* earlier one.                                                            *)
Beneath(v) == v \in Nat /\ v <= visit /\ (v + 1)..visit \subseteq under

(* It is so for what an open dialog asks and for what was picked.          *)
PickInv ==
  \A d \in DOMAIN NoPicks :
    /\ d \in dialogs => Beneath(asked[d])
    /\ picks[d] # None => Beneath(picks[d].visit)

(* A dialog stays open over an order that is loaded: the order is then     *)
(* marked, or the dialog is its own now.                                   *)
LEMMA PickInvLoads ==
  ASSUME TypeOK, PickInv, NEW o \in Orders, OrderLoaded(o)
  PROVE  PickInv'
<1> USE PicksDomain, Asks
<1>1. visit \in Nat /\ visit' = visit + 1 /\ \A d \in DOMAIN NoPicks : picks'[d] = None
  BY LoadIs DEF NoPicks
<1>2. ASSUME NEW d \in DOMAIN NoPicks, d \in dialogs' PROVE Beneath(asked[d])'
  <2>1. CASE d = Dialog[o]
    <3>1. asked'[d] = visit'
      BY <2>1, LoadIs
    <3> QED
      BY <1>1, <3>1 DEF Beneath
  <2>2. CASE d # Dialog[o]
    <3>1. d \in dialogs /\ asked'[d] = asked[d]
      BY <1>2, <2>2, LoadIs
    <3>2. under' = under \cup {visit'}
      BY <2>2, <3>1 DEF OrderLoaded
    <3>3. Beneath(asked[d])
      BY <3>1 DEF PickInv
    <3> QED
      BY <1>1, <3>1, <3>2, <3>3 DEF Beneath
  <2> QED
    BY <2>1, <2>2
<1> QED
  BY <1>1, <1>2 DEF PickInv

LEMMA PickInvNext ==
  ASSUME TypeOK, PickInv, [Next]_vars PROVE PickInv'
<1> USE PicksDomain, Asks
<1>1. ASSUME UNCHANGED <<visit, under>>,
             \A d \in DOMAIN NoPicks :
               /\ d \in dialogs' => asked'[d] = visit \/ (d \in dialogs /\ asked'[d] = asked[d])
               /\ picks'[d] # None =>
                    \/ picks'[d] = picks[d]
                    \/ d \in dialogs /\ picks'[d].visit = asked[d]
      PROVE  PickInv'
  <2>1. Beneath(visit)
    BY DEF Beneath, TypeOK
  <2>2. \A v : Beneath(v) => Beneath(v)'
    BY <1>1 DEF Beneath
  <2> QED
    BY <1>1, <2>1, <2>2 DEF PickInv, Beneath
<1>2. ASSUME NEW o \in Orders, OrderLoaded(o) PROVE PickInv'
  BY <1>2, PickInvLoads
<1>3. ASSUME UNCHANGED <<visit, under, asked, picks>>,
             dialogs' \subseteq dialogs \cup {"carrier", "success", "ob"}
      PROVE  PickInv'
  BY <1>1, <1>3
<1>4. ASSUME NEW d \in Dialogs \ DOMAIN NoPicks, NEW v \in Nat,
             Open(d, v) \/ Close(d), UNCHANGED <<visit, under, picks>>
      PROVE  PickInv'
  BY <1>1, <1>4, OpenOpens, CloseCloses
<1>5. ASSUME NEW d \in DOMAIN NoPicks, Close(d), UNCHANGED <<visit, under>>,
             \A e \in DOMAIN NoPicks : picks'[e] # None =>
               picks'[e] = picks[e] \/ (e = d /\ picks'[e].visit = asked[d])
      PROVE  PickInv'
  BY <1>1, <1>5, CloseCloses
<1>6. ASSUME NEW d \in DOMAIN NoPicks, NEW carrier, MakePick(d, carrier)
      PROVE  \A e \in DOMAIN NoPicks :
               picks'[e] = picks[e] \/ (e = d /\ picks'[e].visit = asked[d])
  BY <1>6 DEF MakePick, TypeOK
<1>7. ASSUME NEW o \in Orders, ScanOrder(o) \/ OrderFails(o) PROVE PickInv'
  BY <1>3, <1>7 DEF ScanOrder, OrderFails, page, ghosts
<1>8. CASE VerifyItem \/ ScanBox \/ toggleAdultSignature
  BY <1>3, <1>8 DEF VerifyItem, ScanBox, toggleAdultSignature, page, ghosts
<1>9. CASE showOBModal \/ cancelOB \/ confirmOB
  <2>1. Open("ob", visit) \/ Close("ob")
    BY <1>9 DEF showOBModal, cancelOB, confirmOB
  <2>2. "ob" \in Dialogs \ DOMAIN NoPicks /\ visit \in Nat
    BY DEF TypeOK
  <2>3. UNCHANGED <<visit, under, picks>>
    BY <1>9 DEF showOBModal, cancelOB, confirmOB
  <2> QED
    BY <1>4, <2>1, <2>2, <2>3
<1>10. ASSUME NEW reading, ScaleAnswers(reading) \/ ScaleFails(reading) PROVE PickInv'
  BY <1>3, <1>10 DEF ScaleAnswers, ScaleFails, page, ghosts
<1>11. ASSUME NEW request, ShipSucceeds(request) \/ ShipFails(request) \/ LabelPrinted(request)
       PROVE  PickInv'
  BY <1>3, <1>11 DEF ShipSucceeds, ShipFails, LabelPrinted, page, ghosts
<1>12. ASSUME NEW request \in sent, NEW carrier, ShipConflicts(request, carrier) PROVE PickInv'
  <2>1. request.payload.visit \in Nat
    BY DEF TypeOK, Payload
  <2> QED
    BY <1>4, <1>12, <2>1 DEF ShipConflicts
<1>13. ASSUME NEW carrier, shipWithCarrier(carrier) PROVE PickInv'
  <2>1. \A d \in DOMAIN NoPicks : asked'[d] = asked[d]
    BY <1>13 DEF shipWithCarrier, TypeOK
  <2> QED
    BY <1>1, <1>13, <2>1 DEF shipWithCarrier, AfterChoice
<1>14. ASSUME NEW carrier, selectAmazonCarrier(carrier) \/ applyManualCarrier(carrier)
       PROVE  PickInv'
  BY <1>5, <1>6, <1>14 DEF selectAmazonCarrier, applyManualCarrier
<1>15. ASSUME NEW carrier, selectHighValueCarrier(carrier) PROVE PickInv'
  <2>1. \A e \in DOMAIN NoPicks : picks'[e] # None =>
          picks'[e] = picks[e] \/ (e = "highvalue" /\ picks'[e].visit = asked["highvalue"])
    BY <1>6, <1>15 DEF selectHighValueCarrier, TypeOK
  <2> QED
    BY <1>5, <1>15, <2>1 DEF selectHighValueCarrier
<1>16. CASE openChangeCarrierModal
  <2>1. dialogs' = dialogs \cup {"change"} /\ asked'["change"] = visit
        /\ \A d \in DOMAIN NoPicks \ {"change"} : asked'[d] = asked[d]
    BY <1>16, OpenOpens DEF openChangeCarrierModal, TypeOK
  <2> QED
    BY <1>1, <1>16, <2>1 DEF openChangeCarrierModal
<1>17. CASE closeChangeCarrierModal
  BY <1>5, <1>17 DEF closeChangeCarrierModal
<1>18. CASE submitByHand \/ ByHandSucceeds \/ ByHandFails \/ NoticeEnds
  BY <1>3, <1>18 DEF submitByHand, ByHandSucceeds, ByHandFails, NoticeEnds, page, ghosts
<1>19. CASE Clear \/ confirmPickup \/ TimerFires
  <2>1. softReset /\ UNCHANGED <<visit, under>>
    BY <1>19 DEF Clear, confirmPickup, TimerFires
  <2>2. dialogs' = {} /\ \A d \in DOMAIN NoPicks : picks'[d] # None => picks'[d] = picks[d]
    BY <2>1 DEF softReset, TypeOK
  <2> QED
    BY <1>1, <2>1, <2>2
<1>20. CASE UNCHANGED vars
  BY <1>3, <1>20 DEF vars, page, ghosts
<1> QED
  BY <1>2, <1>7, <1>8, <1>9, <1>10, <1>11, <1>12, <1>13, <1>14, <1>15, <1>16, <1>17, <1>18, <1>19,
     <1>20 DEF Next

-----------------------------------------------------------------------------
(* What holds of a request from the moment it is assembled, also when it   *)
(* is repeated with a carrier chosen from the suggestion.                  *)
Own(payload) ==
  payload.order # None =>
    /\ payload.scanned = payload.visit =>
         /\ payload.complete
         /\ Dialog[payload.order] # "pickup"
         /\ Dialog[payload.order] = "amazon" => payload.override # None
    /\ payload.picked # 0 => /\ payload.picked <= payload.visit
                             /\ (payload.picked + 1)..payload.visit \subseteq under

RequestInv ==
  /\ pending # None => Own(pending)
  /\ \A request \in sent : Own(request.payload)

LEMMA AssembledOwn ==
  ASSUME TypeOK, ScanInv, PickInv, NEW reading \in weighing
  PROVE  Own(Assembled(reading))
<1> DEFINE payload == Assembled(reading)
<1>1. /\ payload.order = screen /\ payload.scanned = reading.visit
      /\ payload.complete = (screen # None /\ checkCompletion)
      /\ payload.override = IF Picked = None THEN None ELSE Picked.carrier
      /\ payload.visit = IF screen = None THEN 0 ELSE visit
      /\ payload.picked = IF Picked = None THEN 0 ELSE Picked.visit
  BY DEF Assembled
<1>2. Settled(reading.visit)
  BY DEF ScanInv
<1>3. Picked # None => Beneath(Picked.visit) /\ Picked.carrier # None
  BY PickedIs, PicksDomain DEF PickInv, TypeOK, Pick
<1>4. picks["amazon"] # None => Picked # None
  BY PickedIs
<1> HIDE DEF payload
<1>5. Own(payload)
  BY <1>1, <1>2, <1>3, <1>4 DEF Own, Settled, Decided, Beneath
<1> QED
  BY <1>5 DEF payload

LEMMA RequestInvNext ==
  ASSUME TypeOK, ScanInv, PickInv, RequestInv, [Next]_vars PROVE RequestInv'
<1>0. under \subseteq under' /\ \A payload : Own(payload) => Own(payload)'
  <2>1. under \subseteq under'
    BY DEF Next, vars, page, calls, ghosts, counts, ScanOrder, OrderLoaded, OrderFails, VerifyItem,
           ScanBox, showOBModal, cancelOB, confirmOB, ScaleAnswers, ScaleFails, ShipSucceeds,
           ShipFails, ShipConflicts, LabelPrinted, shipWithCarrier, selectAmazonCarrier,
           selectHighValueCarrier, applyManualCarrier, openChangeCarrierModal,
           closeChangeCarrierModal, toggleAdultSignature, submitByHand, ByHandSucceeds, ByHandFails,
           NoticeEnds, Clear, confirmPickup, TimerFires
  <2> QED
    BY <2>1 DEF Own
<1>1. ASSUME NEW reading \in weighing, ScaleAnswers(reading) PROVE RequestInv'
  BY <1>0, <1>1, AssembledOwn DEF ScaleAnswers, doShipRequest, RequestInv
<1>2. ASSUME NEW carrier \in Carriers, shipWithCarrier(carrier) PROVE RequestInv'
  <2>1. pending \in Payload /\ Own(pending)
    BY <1>2 DEF shipWithCarrier, TypeOK, RequestInv
  <2>2. /\ pending'.order = pending.order /\ pending'.scanned = pending.scanned
        /\ pending'.visit = pending.visit /\ pending'.complete = pending.complete
        /\ pending'.override # None /\ pending'.picked = 0
    BY <1>2, <2>1 DEF shipWithCarrier, Payload
  <2>3. Own(pending')
    BY <2>1, <2>2 DEF Own
  <2> QED
    BY <1>0, <1>2, <2>3 DEF shipWithCarrier, doShipRequest, RequestInv
<1>3. CASE sent' \subseteq sent /\ pending' = pending
  BY <1>0, <1>3 DEF RequestInv
<1>4. ASSUME NEW request \in sent,
             \/ ShipSucceeds(request) \/ ShipFails(request)
             \/ \E carrier \in Carriers : ShipConflicts(request, carrier)
      PROVE  RequestInv'
  BY <1>3, <1>4 DEF ShipSucceeds, ShipFails, ShipConflicts, page
<1>5. ASSUME NEW o \in Orders, ScanOrder(o) \/ OrderLoaded(o) \/ OrderFails(o) PROVE RequestInv'
  BY <1>3, <1>5 DEF ScanOrder, OrderLoaded, OrderFails, page
<1>6. ASSUME \/ VerifyItem \/ ScanBox \/ showOBModal \/ cancelOB \/ confirmOB
             \/ openChangeCarrierModal \/ closeChangeCarrierModal \/ toggleAdultSignature
      PROVE  RequestInv'
  BY <1>3, <1>6 DEF VerifyItem, ScanBox, showOBModal, cancelOB, confirmOB, page, calls,
     openChangeCarrierModal, closeChangeCarrierModal, toggleAdultSignature
<1>7. ASSUME NEW carrier, \/ selectAmazonCarrier(carrier) \/ applyManualCarrier(carrier)
                          \/ selectHighValueCarrier(carrier)
      PROVE  RequestInv'
  BY <1>3, <1>7 DEF selectAmazonCarrier, applyManualCarrier, selectHighValueCarrier, calls
<1>8. ASSUME NEW reading \in weighing, ScaleFails(reading) PROVE RequestInv'
  BY <1>3, <1>8 DEF ScaleFails, page
<1>9. ASSUME NEW request \in printing, LabelPrinted(request) PROVE RequestInv'
  BY <1>3, <1>9 DEF LabelPrinted
<1>10. CASE Clear \/ confirmPickup \/ TimerFires
  BY <1>3, <1>10 DEF Clear, confirmPickup, TimerFires, softReset, calls
<1>11. CASE submitByHand \/ ByHandSucceeds \/ ByHandFails \/ NoticeEnds
  BY <1>3, <1>11 DEF submitByHand, ByHandSucceeds, ByHandFails, NoticeEnds, page
<1>12. CASE UNCHANGED vars
  BY <1>3, <1>12 DEF vars, page, calls
<1> QED
  BY <1>1, <1>2, <1>4, <1>5, <1>6, <1>7, <1>8, <1>9, <1>10, <1>11, <1>12 DEF Next

THEOREM RequestsAreOwn == Spec => [](ScanInv /\ PickInv /\ RequestInv)
<1>1. Init => ScanInv /\ PickInv /\ RequestInv
  BY Asks DEF Init, ScanInv, PickInv, RequestInv, NoPicks
<1>2. TypeOK /\ ScanInv /\ PickInv /\ RequestInv /\ [Next]_vars
        => ScanInv' /\ PickInv' /\ RequestInv'
  BY ScanInvNext, PickInvNext, RequestInvNext
<1> QED
  BY <1>1, <1>2, StationTypeCorrect, PTL DEF Spec

(* A box is weighed for the verified order it was scanned for, or the      *)
(* screen has changed meanwhile.                                           *)
THEOREM VerifiedShip == Spec => []OnlyVerifiedShip
<1>1. RequestInv => OnlyVerifiedShip
  BY DEF RequestInv, Own, OnlyVerifiedShip
<1> QED
  BY <1>1, RequestsAreOwn, PTL

(* No order ships past the dialog that should have stopped it.             *)
THEOREM AnsweredDialogs == Spec => []DialogsAreAnswered
<1>1. RequestInv => DialogsAreAnswered
  BY DEF RequestInv, Own, DialogsAreAnswered
<1> QED
  BY <1>1, RequestsAreOwn, PTL

-----------------------------------------------------------------------------
(* Every label, request and suggestion stems from a box scan of its own.   *)
Questions == IF "carrier" \in dialogs THEN 1 ELSE 0

CountInv ==
  /\ IsFiniteSet(weighing) /\ IsFiniteSet(sent)
  /\ labels + Cardinality(sent) + Questions + Cardinality(weighing) <= scans

LEMMA Grows ==
  ASSUME NEW S, NEW e, IsFiniteSet(S)
  PROVE  /\ IsFiniteSet(S \cup {e})
         /\ Cardinality(S) \in Nat /\ Cardinality(S \cup {e}) \in Nat
         /\ Cardinality(S \cup {e}) <= Cardinality(S) + 1
<1>1. Cardinality(S) \in Nat
  BY FS_CardinalityType
<1>2. /\ IsFiniteSet(S \cup {e})
      /\ Cardinality(S \cup {e}) = Cardinality(S) \/ Cardinality(S \cup {e}) = Cardinality(S) + 1
  <2>1. CASE e \in S
    <3>1. S \cup {e} = S
      BY <2>1
    <3> QED
      BY <3>1
  <2>2. CASE e \notin S
    BY <2>2, FS_AddElement
  <2> QED
    BY <2>1, <2>2
<1> QED
  BY <1>1, <1>2

LEMMA Shrinks ==
  ASSUME NEW S, NEW e \in S, IsFiniteSet(S)
  PROVE  /\ IsFiniteSet(S \ {e})
         /\ Cardinality(S) \in Nat /\ Cardinality(S \ {e}) \in Nat
         /\ Cardinality(S \ {e}) = Cardinality(S) - 1
<1>1. Cardinality(S) \in Nat /\ Cardinality(S \ {e}) \in Nat /\ IsFiniteSet(S \ {e})
  BY FS_CardinalityType, FS_RemoveElement
<1> QED
  BY <1>1, FS_RemoveElement

LEMMA CountInvNext ==
  ASSUME TypeOK, CountInv, [Next]_vars PROVE CountInv'
<1>0. /\ labels \in Nat /\ scans \in Nat /\ Questions \in {0, 1}
      /\ Cardinality(sent) \in Nat /\ Cardinality(weighing) \in Nat
  BY FS_CardinalityType DEF TypeOK, CountInv, Questions
<1>1. ASSUME UNCHANGED <<labels, sent, weighing, scans>>,
             "carrier" \in dialogs' => "carrier" \in dialogs
      PROVE  CountInv'
  BY <1>0, <1>1 DEF CountInv, Questions
<1>2. CASE ScanBox \/ confirmOB
  <2>1. PICK reading : weighing' = weighing \cup {reading}
    BY <1>2 DEF ScanBox, confirmOB
  <2>2. scans' = scans + 1 /\ UNCHANGED <<labels, sent>> /\ Questions' = Questions
    BY <1>2 DEF ScanBox, confirmOB, Close, page, Questions
  <2>3. IsFiniteSet(weighing') /\ Cardinality(weighing') \in Nat
        /\ Cardinality(weighing') <= Cardinality(weighing) + 1
    <3>1. IsFiniteSet(weighing)
      BY DEF CountInv
    <3> QED
      BY <2>1, <3>1, Grows
  <2> QED
    BY <1>0, <2>2, <2>3 DEF CountInv
<1>3. ASSUME NEW reading \in weighing, ScaleAnswers(reading) \/ ScaleFails(reading) PROVE CountInv'
  <2>1. IsFiniteSet(weighing') /\ Cardinality(weighing') \in Nat
        /\ Cardinality(weighing') = Cardinality(weighing) - 1
    BY <1>3, Shrinks DEF ScaleAnswers, ScaleFails, CountInv
  <2>2. \/ sent' = sent
        \/ \E request : sent' = sent \cup {request}
    BY <1>3 DEF ScaleAnswers, ScaleFails, doShipRequest
  <2>3. IsFiniteSet(sent') /\ Cardinality(sent') \in Nat
        /\ Cardinality(sent') <= Cardinality(sent) + 1
    <3>1. IsFiniteSet(sent)
      BY DEF CountInv
    <3>2. CASE sent' = sent
      BY <1>0, <3>1, <3>2
    <3>3. CASE \E request : sent' = sent \cup {request}
      <4>1. PICK request : sent' = sent \cup {request}
        BY <3>3
      <4> QED
        BY <3>1, <4>1, Grows
    <3> QED
      BY <2>2, <3>2, <3>3
  <2>4. UNCHANGED <<labels, scans>> /\ Questions' = Questions
    BY <1>3 DEF ScaleAnswers, ScaleFails, page, ghosts, counts, Questions
  <2> QED
    BY <1>0, <2>1, <2>3, <2>4 DEF CountInv
<1>4. ASSUME NEW request \in sent,
             \/ ShipSucceeds(request) \/ ShipFails(request)
             \/ \E carrier \in Carriers : ShipConflicts(request, carrier)
      PROVE  CountInv'
  <2>1. IsFiniteSet(sent') /\ Cardinality(sent') \in Nat
        /\ Cardinality(sent') = Cardinality(sent) - 1
    BY <1>4, Shrinks DEF ShipSucceeds, ShipFails, ShipConflicts, CountInv
  <2>2. \/ labels' \in {labels, labels + 1} /\ Questions' = Questions
        \/ labels' = labels /\ Questions' = 1
    BY <1>4 DEF ShipSucceeds, ShipFails, ShipConflicts, Open, page, ghosts, counts, Questions
  <2>3. UNCHANGED <<weighing, scans>>
    BY <1>4 DEF ShipSucceeds, ShipFails, ShipConflicts, ghosts, counts
  <2> QED
    BY <1>0, <2>1, <2>2, <2>3 DEF CountInv
<1>5. ASSUME NEW carrier \in Carriers, shipWithCarrier(carrier) PROVE CountInv'
  <2>1. PICK request : sent' = sent \cup {request}
    BY <1>5 DEF shipWithCarrier, doShipRequest
  <2>2. IsFiniteSet(sent') /\ Cardinality(sent') \in Nat
        /\ Cardinality(sent') <= Cardinality(sent) + 1
    BY <2>1, Grows DEF CountInv
  <2>3. Questions = 1 /\ Questions' = 0 /\ UNCHANGED <<labels, weighing, scans>>
    BY <1>5 DEF shipWithCarrier, AfterChoice, Questions
  <2> QED
    BY <1>0, <2>2, <2>3 DEF CountInv
<1>6. ASSUME NEW o \in Orders, ScanOrder(o) \/ OrderLoaded(o) \/ OrderFails(o) PROVE CountInv'
  <2>1. Dialog[o] # "carrier"
    BY OpensIts
  <2> QED
    BY <1>1, <1>6, <2>1 DEF ScanOrder, OrderLoaded, OrderFails, Open, page, ghosts, counts
<1>7. ASSUME \/ VerifyItem \/ showOBModal \/ cancelOB
             \/ openChangeCarrierModal \/ closeChangeCarrierModal \/ toggleAdultSignature
      PROVE  CountInv'
  BY <1>1, <1>7 DEF VerifyItem, showOBModal, cancelOB, Open, Close, calls, ghosts, counts,
     openChangeCarrierModal, closeChangeCarrierModal, toggleAdultSignature
<1>8. ASSUME NEW carrier, \/ selectAmazonCarrier(carrier) \/ applyManualCarrier(carrier)
                          \/ selectHighValueCarrier(carrier)
      PROVE  CountInv'
  BY <1>1, <1>8 DEF selectAmazonCarrier, applyManualCarrier, selectHighValueCarrier, Close, calls,
                    ghosts, counts
<1>9. ASSUME NEW request \in printing, LabelPrinted(request) PROVE CountInv'
  BY <1>1, <1>9 DEF LabelPrinted, ghosts, counts
<1>10. CASE Clear \/ confirmPickup \/ TimerFires
  BY <1>1, <1>10 DEF Clear, confirmPickup, TimerFires, softReset, calls, ghosts, counts
<1>11. CASE submitByHand \/ ByHandSucceeds \/ ByHandFails \/ NoticeEnds
  BY <1>1, <1>11 DEF submitByHand, ByHandSucceeds, ByHandFails, NoticeEnds, page, ghosts, counts
<1>12. CASE UNCHANGED vars
  BY <1>1, <1>12 DEF vars, page, calls, ghosts, counts
<1> QED
  BY <1>2, <1>3, <1>4, <1>5, <1>6, <1>7, <1>8, <1>9, <1>10, <1>11, <1>12 DEF Next

(* However answers race, no more labels are bought than boxes are scanned. *)
THEOREM LabelsBounded == Spec => []LabelsWithinScans
<1>1. Init => CountInv
  BY FS_EmptySet DEF Init, CountInv, Questions
<1>2. TypeOK /\ CountInv /\ [Next]_vars => CountInv'
  BY CountInvNext
<1>3. TypeOK /\ CountInv => LabelsWithinScans
  BY FS_CardinalityType DEF TypeOK, CountInv, Questions, LabelsWithinScans
<1> QED
  BY <1>1, <1>2, <1>3, StationTypeCorrect, PTL DEF Spec

-----------------------------------------------------------------------------
(* A dialog that opened with its order is the first to pick a carrier, and *)
(* the only one open.                                                      *)
ModeInv ==
  /\ ModeIsFedEx
  /\ \A kind \in {"amazon", "highvalue"} : visit \notin under /\ kind \in dialogs =>
       /\ Dialog[screen] = kind /\ "change" \notin dialogs
       /\ \A d \in DOMAIN NoPicks : picks[d] = None

LEMMA ModeInvNext ==
  ASSUME TypeOK, TypeOK', ModeInv, [Next]_vars PROVE ModeInv'
<1> USE PicksDomain, Asks
<1>0. ASSUME UNCHANGED <<screen, fedex, picks, visit, under>>,
             dialogs' \subseteq dialogs \cup {"carrier", "success", "ob"}
      PROVE  ModeInv'
  BY <1>0 DEF ModeInv, ModeIsFedEx, ShipsFedEx, KeepsMode, Picked
<1>1. ASSUME NEW o \in Orders, ScanOrder(o) \/ OrderFails(o) PROVE ModeInv'
  BY <1>0, <1>1 DEF ScanOrder, OrderFails, page, ghosts
<1>2. ASSUME NEW o \in Orders, OrderLoaded(o) PROVE ModeInv'
  <2>1. \A d \in DOMAIN NoPicks : picks'[d] = None
    BY <1>2 DEF OrderLoaded, ForgetPicks, NoPicks
  <2>2. Picked' = None
    <3>1. picks' = NoPicks
      BY <1>2 DEF OrderLoaded, ForgetPicks
    <3>2. {d \in DOMAIN picks' : picks'[d] # None} = {}
      BY <3>1 DEF NoPicks
    <3> QED
      BY <3>2 DEF Picked
  <2>3. screen' = o /\ fedex' = (o \in FedExMethod)
    BY <1>2 DEF OrderLoaded
  <2>4. visit' \notin under' => (dialogs \ {Dialog[o]}) \cap DOMAIN NoPicks = {}
    BY <1>2 DEF OrderLoaded
  <2>5. dialogs' \subseteq dialogs \cup {Dialog[o]} /\ Dialog[o] # "change"
    BY <1>2, LoadIs
  <2>6. ~KeepsMode' /\ (ShipsFedEx' <=> o \in FedExMethod)
    BY <2>1, <2>2, <2>3 DEF KeepsMode, ShipsFedEx
  <2> QED
    BY <2>1, <2>3, <2>4, <2>5, <2>6 DEF ModeInv, ModeIsFedEx
<1>3. ASSUME VerifyItem \/ ScanBox \/ showOBModal \/ cancelOB \/ confirmOB \/ toggleAdultSignature
      PROVE  ModeInv'
  BY <1>0, <1>3 DEF VerifyItem, ScanBox, showOBModal, cancelOB, confirmOB, toggleAdultSignature,
                    Open, Close, page, ghosts
<1>4. ASSUME NEW reading, ScaleAnswers(reading) \/ ScaleFails(reading) PROVE ModeInv'
  BY <1>0, <1>4 DEF ScaleAnswers, ScaleFails, page, ghosts
<1>5. ASSUME NEW request, \/ ShipSucceeds(request) \/ ShipFails(request) \/ LabelPrinted(request)
                          \/ \E carrier \in Carriers : ShipConflicts(request, carrier)
      PROVE  ModeInv'
  BY <1>0, <1>5 DEF ShipSucceeds, ShipFails, ShipConflicts, LabelPrinted, Open, page, ghosts
<1>6. ASSUME NEW carrier, shipWithCarrier(carrier) PROVE ModeInv'
  BY <1>0, <1>6 DEF shipWithCarrier, AfterChoice
<1>7. ASSUME NEW d \in DOMAIN NoPicks, NEW carrier \in Carriers, MakePick(d, carrier)
      PROVE  /\ picks'[d] # None /\ picks'[d].carrier = carrier
             /\ \A e \in DOMAIN NoPicks \ {d} : picks'[e] = picks[e]
  <2>1. [carrier |-> carrier, visit |-> asked[d]] \in Pick
    BY DEF Pick, TypeOK
  <2> QED
    BY <1>7, <2>1 DEF MakePick, TypeOK
<1>8. Picked' = IF picks'["change"] # None THEN picks'["change"]
                ELSE IF picks'["amazon"] # None THEN picks'["amazon"]
                ELSE picks'["highvalue"]
  BY PickedIsThen DEF PickedFirst
<1>9. ASSUME NEW carrier \in Carriers, selectAmazonCarrier(carrier) PROVE ModeInv'
  <2>1. /\ UNCHANGED <<screen, fedex, visit, under>> /\ dialogs' = dialogs \ {"amazon"}
        /\ "amazon" \in dialogs /\ MakePick("amazon", carrier) /\ carrier # FedEx
    BY <1>9, CloseCloses DEF selectAmazonCarrier, FedEx
  <2>2. ASSUME visit \notin under
        PROVE  /\ Dialog[screen] = "amazon" /\ "highvalue" \notin dialogs
               /\ fedex = (screen \in FedExMethod)
               /\ ~ShipsFedEx' /\ KeepsMode' = (screen \in FedExMethod)
    <3>1. \A d \in DOMAIN NoPicks : picks[d] = None
      BY <2>1, <2>2 DEF ModeInv
    <3>2. Dialog[screen] = "amazon" /\ "highvalue" \notin dialogs
      BY <2>1, <2>2 DEF ModeInv
    <3>3. fedex = (screen \in FedExMethod)
      BY <2>1, <2>2, <3>1, PickedIs DEF ModeInv, ModeIsFedEx, ShipsFedEx, KeepsMode, TypeOK
    <3>4. picks'["amazon"] # None /\ picks'["amazon"].carrier = carrier /\ picks'["change"] = None
      BY <1>7, <2>1, <3>1
    <3>5. ~ShipsFedEx'
      BY <1>8, <2>1, <3>4 DEF ShipsFedEx
    <3>6. KeepsMode' = (screen \in FedExMethod)
      BY <2>1, <3>4 DEF KeepsMode
    <3> QED
      BY <3>2, <3>3, <3>5, <3>6
  <2> QED
    BY <2>1, <2>2 DEF ModeInv, ModeIsFedEx
<1>10. ASSUME NEW carrier \in Carriers, applyManualCarrier(carrier) PROVE ModeInv'
  <2>1. /\ UNCHANGED <<screen, visit, under>> /\ dialogs' = dialogs \ {"change"}
        /\ "change" \in dialogs /\ MakePick("change", carrier) /\ fedex' = (carrier = FedEx)
    BY <1>10, CloseCloses DEF applyManualCarrier, ModeOf
  <2>2. picks'["change"] # None /\ picks'["change"].carrier = carrier
    BY <1>7, <2>1
  <2>3. ~KeepsMode' /\ (ShipsFedEx' <=> carrier = FedEx)
    BY <1>8, <2>2 DEF KeepsMode, ShipsFedEx
  <2> QED
    BY <2>1, <2>3 DEF ModeInv, ModeIsFedEx
<1>11. ASSUME NEW carrier \in Carriers \cup {None}, selectHighValueCarrier(carrier) PROVE ModeInv'
  <2>1. /\ UNCHANGED <<screen, visit, under>> /\ dialogs' = dialogs \ {"highvalue"}
        /\ "highvalue" \in dialogs /\ fedex' = (fedex \/ carrier = FedEx)
    BY <1>11, CloseCloses DEF selectHighValueCarrier
  <2>2. ASSUME visit \notin under
        PROVE  /\ "amazon" \notin dialogs /\ screen \notin FedExMethod /\ fedex = FALSE
               /\ \A d \in DOMAIN NoPicks : picks[d] = None
    <3>1. \A d \in DOMAIN NoPicks : picks[d] = None
      BY <2>1, <2>2 DEF ModeInv
    <3>2. Dialog[screen] = "highvalue" /\ "amazon" \notin dialogs
      BY <2>1, <2>2 DEF ModeInv
    <3>3. screen # None /\ screen \notin FedExMethod
      BY <2>1, <3>2 DEF TypeOK
    <3>4. fedex = FALSE
      BY <2>2, <3>1, <3>3, PickedIs DEF ModeInv, ModeIsFedEx, ShipsFedEx, KeepsMode
    <3> QED
      BY <3>1, <3>2, <3>3, <3>4
  <2>3. ASSUME visit \notin under PROVE ~KeepsMode' /\ (ShipsFedEx' <=> carrier = FedEx)
    <3>1. ~KeepsMode'
      BY <2>1, <2>2, <2>3 DEF KeepsMode
    <3>2. CASE carrier = None
      <4>1. \A d \in DOMAIN NoPicks : picks'[d] = None
        BY <1>11, <2>2, <2>3, <3>2 DEF selectHighValueCarrier, TypeOK
      <4>2. Picked' = None
        BY <1>8, <4>1
      <4>3. ~ShipsFedEx'
        BY <2>1, <2>2, <2>3, <4>2 DEF ShipsFedEx
      <4>4. None # FedEx
        OBVIOUS
      <4> QED
        BY <3>1, <3>2, <4>3, <4>4
    <3>3. CASE carrier # None
      <4>1. MakePick("highvalue", carrier) /\ carrier \in Carriers
        BY <1>11, <3>3 DEF selectHighValueCarrier
      <4>2. Picked' # None /\ Picked'.carrier = carrier
        BY <1>7, <1>8, <2>2, <2>3, <4>1
      <4> QED
        BY <3>1, <4>2 DEF ShipsFedEx
    <3> QED
      BY <3>2, <3>3
  <2> QED
    BY <2>1, <2>2, <2>3 DEF ModeInv, ModeIsFedEx
<1>12. CASE openChangeCarrierModal
  <2>1. UNCHANGED <<screen, fedex, picks, visit, under>> /\ dialogs' = {"change"}
    BY <1>12 DEF openChangeCarrierModal, Open
  <2> QED
    BY <2>1 DEF ModeInv, ModeIsFedEx, ShipsFedEx, KeepsMode, Picked
<1>13. CASE closeChangeCarrierModal
  BY <1>0, <1>13 DEF closeChangeCarrierModal, Close
<1>14. CASE Clear \/ confirmPickup \/ TimerFires
  BY <1>14 DEF Clear, confirmPickup, TimerFires, softReset, ModeInv, ModeIsFedEx
<1>15. CASE submitByHand \/ ByHandSucceeds \/ ByHandFails \/ NoticeEnds
  BY <1>0, <1>15 DEF submitByHand, ByHandSucceeds, ByHandFails, NoticeEnds, page, ghosts
<1>16. CASE UNCHANGED vars
  BY <1>0, <1>16 DEF vars, page, ghosts
<1> QED
  BY <1>1, <1>2, <1>3, <1>4, <1>5, <1>6, <1>9, <1>10, <1>11, <1>12, <1>13, <1>14, <1>15, <1>16
     DEF Next

(* The page takes FedEx's boxes for just the orders that ship with FedEx.  *)
THEOREM ModeFollows == Spec => []ModeIsFedEx
<1>1. Init => ModeInv
  BY DEF Init, ModeInv, ModeIsFedEx
<1>2. TypeOK /\ TypeOK' /\ ModeInv /\ [Next]_vars => ModeInv'
  BY ModeInvNext
<1>3. ModeInv => ModeIsFedEx
  BY DEF ModeInv
<1> QED
  BY <1>1, <1>2, <1>3, StationTypeCorrect, PTL DEF Spec

-----------------------------------------------------------------------------
(* A request of the visit that the screen shows names the order it shows.  *)
Dated(payload) ==
  payload.order # None =>
    /\ payload.visit <= visit
    /\ payload.visit = visit /\ screen # None => payload.order = screen

DateInv ==
  /\ pending # None => Dated(pending)
  /\ \A request \in sent : Dated(request.payload)
  /\ ReprintsLastSold

LEMMA DateInvNext ==
  ASSUME TypeOK, DateInv, [Next]_vars PROVE DateInv'
<1>1. ASSUME UNCHANGED <<visit, lastShipped, lastSold, straight>>, screen' \in {screen, None},
             sent' \subseteq sent, pending' = pending
      PROVE  DateInv'
  BY <1>1 DEF DateInv, Dated, ReprintsLastSold
<1>2. ASSUME NEW o \in Orders, OrderLoaded(o) PROVE DateInv'
  <2>1. visit \in Nat /\ visit' = visit + 1
        /\ UNCHANGED <<lastShipped, lastSold, straight, sent, pending>>
    BY <1>2 DEF OrderLoaded, TypeOK
  <2>2. ASSUME NEW payload \in Payload, Dated(payload) PROVE Dated(payload)'
    BY <2>1, <2>2 DEF Dated, Payload
  <2> QED
    BY <2>1, <2>2 DEF DateInv, ReprintsLastSold, TypeOK
<1>3. ASSUME NEW reading \in weighing, ScaleAnswers(reading) PROVE DateInv'
  <2>1. UNCHANGED <<visit, screen, lastShipped, lastSold, straight>>
    BY <1>3 DEF ScaleAnswers
  <2>2. Dated(Assembled(reading))
    BY DEF Assembled, Dated, TypeOK
  <2>3. pending' = Assembled(reading)
        /\ \E n : sent' = sent \cup {[n |-> n, payload |-> Assembled(reading)]}
    BY <1>3 DEF ScaleAnswers, doShipRequest
  <2> HIDE DEF Assembled
  <2> QED
    BY <2>1, <2>2, <2>3 DEF DateInv, Dated, ReprintsLastSold
<1>4. ASSUME NEW carrier \in Carriers, shipWithCarrier(carrier) PROVE DateInv'
  <2>1. UNCHANGED <<visit, screen, lastShipped, lastSold, straight>>
    BY <1>4 DEF shipWithCarrier
  <2>2. pending \in Payload /\ Dated(pending)
    BY <1>4 DEF shipWithCarrier, TypeOK, DateInv
  <2>3. pending'.order = pending.order /\ pending'.visit = pending.visit
    BY <1>4, <2>2 DEF shipWithCarrier, Payload
  <2>4. \E n : sent' = sent \cup {[n |-> n, payload |-> pending']}
    BY <1>4 DEF shipWithCarrier, doShipRequest
  <2>5. Dated(pending')
    BY <2>2, <2>3 DEF Dated
  <2> QED
    BY <2>1, <2>4, <2>5 DEF DateInv, Dated, ReprintsLastSold
<1>5. ASSUME NEW request \in sent, ShipSucceeds(request) PROVE DateInv'
  BY <1>5 DEF ShipSucceeds, DateInv, Dated, ReprintsLastSold
<1>6. ASSUME NEW request \in sent,
             ShipFails(request) \/ \E carrier \in Carriers : ShipConflicts(request, carrier)
      PROVE  DateInv'
  BY <1>1, <1>6 DEF ShipFails, ShipConflicts, page, ghosts
<1>7. ASSUME NEW o \in Orders, ScanOrder(o) \/ OrderFails(o) PROVE DateInv'
  BY <1>1, <1>7 DEF ScanOrder, OrderFails, page, ghosts
<1>8. ASSUME \/ VerifyItem \/ ScanBox \/ showOBModal \/ cancelOB \/ confirmOB
             \/ openChangeCarrierModal \/ closeChangeCarrierModal \/ toggleAdultSignature
      PROVE  DateInv'
  BY <1>1, <1>8 DEF VerifyItem, ScanBox, showOBModal, cancelOB, confirmOB, page, calls, ghosts,
     openChangeCarrierModal, closeChangeCarrierModal, toggleAdultSignature
<1>9. ASSUME NEW carrier, \/ selectAmazonCarrier(carrier) \/ applyManualCarrier(carrier)
                          \/ selectHighValueCarrier(carrier)
      PROVE  DateInv'
  BY <1>1, <1>9 DEF selectAmazonCarrier, applyManualCarrier, selectHighValueCarrier, calls, ghosts
<1>10. ASSUME NEW reading, ScaleFails(reading) PROVE DateInv'
  BY <1>1, <1>10 DEF ScaleFails, page, ghosts
<1>11. ASSUME NEW request, LabelPrinted(request) PROVE DateInv'
  BY <1>1, <1>11 DEF LabelPrinted, ghosts
<1>12. CASE Clear \/ confirmPickup \/ TimerFires
  BY <1>1, <1>12 DEF Clear, confirmPickup, TimerFires, softReset, calls, ghosts
<1>13. CASE submitByHand \/ ByHandSucceeds \/ ByHandFails \/ NoticeEnds
  BY <1>1, <1>13 DEF submitByHand, ByHandSucceeds, ByHandFails, NoticeEnds, page, ghosts
<1>14. CASE UNCHANGED vars
  BY <1>1, <1>14 DEF vars, page, calls, ghosts
<1> QED
  BY <1>2, <1>3, <1>4, <1>5, <1>6, <1>7, <1>8, <1>9, <1>10, <1>11, <1>12, <1>13, <1>14 DEF Next

(* REPRINT LAST is for the order sold last, if that answer found its order *)
(* on the screen.                                                          *)
THEOREM LastSoldReprints == Spec => []ReprintsLastSold
<1>1. Init => DateInv
  BY DEF Init, DateInv, ReprintsLastSold
<1>2. TypeOK /\ DateInv /\ [Next]_vars => DateInv'
  BY DateInvNext
<1>3. DateInv => ReprintsLastSold
  BY DEF DateInv
<1> QED
  BY <1>1, <1>2, <1>3, StationTypeCorrect, PTL DEF Spec

-----------------------------------------------------------------------------
(* An operator who lets every call be answered before going on has one     *)
(* call on its way at a time, about the order on the screen.               *)
Fetching == \E o \in Orders : fetching[o] > 0
Selling == weighing \cup sent \cup printing # {}

Handling == byHand > 0 \/ notices > 0

\* It is the request kept for repeating, in its own or in its last form.
About(payload) ==
  /\ payload.order = screen
  /\ payload.visit = pending.visit
  /\ payload.advised \in {0, payload.visit}

CallsInv ==
  /\ \A o, p \in Orders : fetching[o] > 0 /\ fetching[p] > 0 => o = p /\ fetching[o] = 1
  /\ Fetching => screen = None /\ dialogs = {}
  /\ screen = None => ~Selling /\ timers = 0 /\ dialogs \subseteq {"success"}
  /\ weighing # {} => sent = {} /\ printing = {}
  /\ sent # {} => printing = {} /\ pending.order = screen
  /\ \A request \in sent : sent = {request} /\ About(request.payload)
  /\ \A reading \in weighing : weighing = {reading}
  /\ \A request \in printing : printing = {request}
  /\ Selling => dialogs \subseteq {"change"} /\ timers = 0
  /\ timers > 0 => timers = 1 /\ "success" \in dialogs /\ dialogs \subseteq {"change", "success"}
  /\ "success" \in dialogs => timers > 0 \/ notices > 0
  /\ "carrier" \in dialogs =>
       /\ pending.order = screen /\ asked["carrier"] = pending.visit
       /\ dialogs \subseteq {"change", "carrier", "success"}
  /\ "ob" \in dialogs => dialogs \subseteq {"ob", "success"}
  /\ Handling => ~Fetching /\ ~Selling /\ timers = 0

(* It is not sold yet, or its sale is counted and the screen still its.    *)
SaleInv ==
  /\ sold <= visit
  /\ screen # None /\ printing = {} /\ timers = 0 => sold < visit
  /\ printing # {} \/ timers > 0 => screen = lastSold

OneAtATime == calm => CallsInv /\ SaleInv

LEMMA WaitingIs == Waiting <=> Fetching \/ Selling \/ Handling
BY DEF Waiting, Fetching, Selling, Handling

(* The calls, the screen and the sales stay, and no dialog opens.          *)
LEMMA CallsStay ==
  ASSUME CallsInv, SaleInv,
         UNCHANGED <<screen, pending, fetching, weighing, sent, printing, timers, sold, visit,
                     lastSold, byHand, notices>>,
         dialogs' = dialogs
           \/ \E d \in {"amazon", "highvalue", "ob", "change"} : dialogs' = dialogs \ {d},
         asked'["carrier"] = asked["carrier"]
  PROVE  CallsInv' /\ SaleInv'
<1>1. CallsInv'
  BY DEF CallsInv, Fetching, Selling, Handling, About
<1>2. SaleInv'
  BY DEF SaleInv
<1> QED
  BY <1>1, <1>2

(* The screen is cleared when no call is on its way but one by hand.       *)
LEMMA CallsClear ==
  ASSUME CallsInv, SaleInv, ~Fetching, ~Selling, softReset, timers' = 0,
         UNCHANGED <<fetching, weighing, sent, printing, sold, visit, byHand, notices>>
  PROVE  CallsInv' /\ SaleInv'
<1>1. /\ screen' = None /\ dialogs' = {} /\ timers' = 0
      /\ ~Fetching' /\ weighing' = {} /\ sent' = {} /\ printing' = {}
  BY DEF softReset, Fetching, Selling
<1>2. CallsInv'
  BY <1>1 DEF CallsInv, Fetching, Selling, Handling
<1> QED
  BY <1>1, <1>2 DEF SaleInv

LEMMA OneAtATimeNext ==
  ASSUME TypeOK, TypeOK', Repeatable, OneAtATime, [Next]_vars PROVE OneAtATime'
<1> USE Asks
<1> SUFFICES ASSUME calm' PROVE CallsInv' /\ SaleInv'
  BY DEF OneAtATime
<1>1. ASSUME NEW o \in Orders, ScanOrder(o) PROVE CallsInv' /\ SaleInv'
  <2>1. calm /\ ~Waiting
    BY <1>1 DEF ScanOrder, ActsCalmly
  <2>2. CallsInv /\ SaleInv /\ ~Fetching /\ ~Selling /\ ~Handling
    BY <2>1, WaitingIs DEF OneAtATime
  <2>3. /\ screen = None /\ dialogs = {} /\ fetching' = [fetching EXCEPT ![o] = @ + 1]
        /\ UNCHANGED <<screen, dialogs, pending, weighing, sent, printing, timers, sold, visit,
                       lastSold, byHand, notices, asked>>
    BY <1>1 DEF ScanOrder, isModalBlocking, page
  <2>4. \A p \in Orders : fetching[p] = 0
    BY <2>2 DEF Fetching, TypeOK
  <2>5. \A p, q \in Orders : fetching'[p] > 0 /\ fetching'[q] > 0 => p = q /\ fetching'[p] = 1
    BY <2>3, <2>4 DEF TypeOK
  <2>6. CallsInv'
    BY <2>2, <2>3, <2>5 DEF CallsInv, Selling, Handling
  <2> QED
    BY <2>2, <2>3, <2>6 DEF SaleInv
<1>2. ASSUME NEW o \in Orders, OrderLoaded(o) PROVE CallsInv' /\ SaleInv'
  <2>1. calm
    BY <1>2 DEF OrderLoaded
  <2>2. CallsInv /\ SaleInv /\ fetching[o] > 0 /\ Fetching
    BY <1>2, <2>1 DEF OneAtATime, OrderLoaded, Answered, Fetching
  <2>3. ~Fetching'
    BY <1>2, <2>2 DEF CallsInv, OrderLoaded, Answered, Fetching, TypeOK
  <2>4. screen = None /\ dialogs = {} /\ ~Selling /\ timers = 0 /\ ~Handling
    BY <2>2 DEF CallsInv
  <2>5. /\ screen' = o /\ screen' # None /\ visit' = visit + 1
        /\ dialogs' = {} \/ dialogs' = {Dialog[o]}
        /\ UNCHANGED <<pending, weighing, sent, printing, timers, sold, lastSold, byHand, notices>>
    BY <1>2, <2>4, LoadIs DEF OrderLoaded, counts
  <2>6. Dialog[o] \notin {"carrier", "ob", "success"}
    BY OpensIts
  <2>7. weighing' = {} /\ sent' = {} /\ printing' = {} /\ timers' = 0
    BY <2>4, <2>5 DEF Selling
  <2>8. CallsInv'
    BY <2>3, <2>4, <2>5, <2>6, <2>7 DEF CallsInv, Fetching, Selling, Handling
  <2>9. sold' < visit'
    BY <2>2, <2>5 DEF SaleInv, TypeOK
  <2> QED
    BY <2>7, <2>8, <2>9 DEF SaleInv, TypeOK
<1>3. ASSUME NEW o \in Orders, OrderFails(o) PROVE CallsInv' /\ SaleInv'
  <2>1. calm
    BY <1>3 DEF OrderFails, ghosts
  <2>2. CallsInv /\ SaleInv /\ fetching[o] > 0 /\ Fetching
    BY <1>3, <2>1 DEF OneAtATime, OrderFails, Answered, Fetching
  <2>3. ~Fetching'
    BY <1>3, <2>2 DEF CallsInv, OrderFails, Answered, Fetching, TypeOK
  <2>4. UNCHANGED <<screen, dialogs, pending, weighing, sent, printing, timers, sold, visit,
                    lastSold, byHand, notices, asked>>
    BY <1>3 DEF OrderFails, page, ghosts, counts
  <2>5. CallsInv'
    BY <2>2, <2>3, <2>4 DEF CallsInv, Fetching, Selling, Handling
  <2> QED
    BY <2>2, <2>4, <2>5 DEF SaleInv
<1>4. CASE \/ VerifyItem \/ cancelOB \/ closeChangeCarrierModal
           \/ toggleAdultSignature \/ UNCHANGED vars
  <2>1. calm
    BY <1>4 DEF VerifyItem, cancelOB, closeChangeCarrierModal, toggleAdultSignature, vars, ghosts
  <2>2. /\ UNCHANGED <<screen, pending, fetching, weighing, sent, printing, timers, sold, visit,
                       lastSold>>
        /\ UNCHANGED <<byHand, notices>> /\ asked'["carrier"] = asked["carrier"]
        /\ dialogs' = dialogs \/ \E d \in {"ob", "change"} : dialogs' = dialogs \ {d}
    BY <1>4, CloseCloses DEF VerifyItem, cancelOB, closeChangeCarrierModal, toggleAdultSignature,
                             vars, page, calls, ghosts, counts
  <2> QED
    BY <2>1, <2>2, CallsStay DEF OneAtATime
<1>5. ASSUME NEW carrier, \/ selectAmazonCarrier(carrier) \/ applyManualCarrier(carrier)
                          \/ selectHighValueCarrier(carrier)
      PROVE  CallsInv' /\ SaleInv'
  <2>1. calm
    BY <1>5 DEF selectAmazonCarrier, applyManualCarrier, selectHighValueCarrier, ghosts
  <2>2. /\ UNCHANGED <<screen, pending, fetching, weighing, sent, printing, timers, sold, visit,
                       lastSold>>
        /\ UNCHANGED <<byHand, notices>> /\ asked'["carrier"] = asked["carrier"]
        /\ \E d \in {"amazon", "highvalue", "change"} : dialogs' = dialogs \ {d}
    BY <1>5, CloseCloses
       DEF selectAmazonCarrier, applyManualCarrier, selectHighValueCarrier, calls, counts
  <2> QED
    BY <2>1, <2>2, CallsStay DEF OneAtATime
<1>6. CASE ScanBox \/ confirmOB
  <2>1. calm /\ ~Waiting
    BY <1>6 DEF ScanBox, confirmOB, ActsCalmly
  <2>2. CallsInv /\ SaleInv /\ ~Fetching /\ ~Selling /\ ~Handling
    BY <2>1, WaitingIs DEF OneAtATime
  <2>3. PICK reading : weighing' = weighing \cup {reading}
    BY <1>6 DEF ScanBox, confirmOB
  <2>4. /\ screen # None /\ (dialogs = {} \/ ("ob" \in dialogs /\ dialogs' = dialogs \ {"ob"}))
        /\ dialogs = {} => dialogs' = {}
        /\ UNCHANGED <<screen, pending, fetching, sent, printing, timers, sold, visit, lastSold,
                       byHand, notices>>
    BY <1>6, CloseCloses DEF ScanBox, confirmOB, MayScanBox, isModalBlocking, page, TypeOK
  <2>5. timers = 0 /\ dialogs' = {}
    BY <2>2, <2>4 DEF CallsInv, Handling, TypeOK
  <2>6. weighing' = {reading} /\ sent' = {} /\ printing' = {} /\ timers' = 0 /\ ~Fetching'
    BY <2>2, <2>3, <2>4, <2>5 DEF Selling, Fetching
  <2>7. CallsInv'
    BY <2>2, <2>4, <2>5, <2>6 DEF CallsInv, Fetching, Selling, Handling
  <2>8. SaleInv'
    BY <2>2, <2>4, <2>6, <2>5 DEF SaleInv, Selling
  <2> QED
    BY <2>7, <2>8
<1>7. CASE showOBModal \/ openChangeCarrierModal
  <2>1. calm /\ (showOBModal => ~Waiting)
    BY <1>7 DEF showOBModal, openChangeCarrierModal, ActsCalmly
  <2>2. CallsInv /\ SaleInv
    BY <2>1 DEF OneAtATime
  <2>3. /\ screen # None /\ dialogs = {}
        /\ dialogs' = {"change"} \/ (dialogs' = {"ob"} /\ ~Selling)
        /\ UNCHANGED <<screen, pending, fetching, weighing, sent, printing, timers, sold, visit,
                       lastSold, byHand, notices>>
    BY <1>7, <2>1, WaitingIs DEF showOBModal, openChangeCarrierModal, MayScanBox, isModalBlocking,
       Open, calls, counts
  <2>4. ~Fetching /\ ~(timers > 0)
    BY <2>2, <2>3 DEF CallsInv
  <2>5. CallsInv'
    BY <2>2, <2>3, <2>4 DEF CallsInv, Fetching, Selling, Handling, About
  <2> QED
    BY <2>2, <2>3, <2>5 DEF SaleInv
<1>8. ASSUME NEW reading \in weighing, ScaleAnswers(reading) \/ ScaleFails(reading)
      PROVE  CallsInv' /\ SaleInv'
  <2>1. calm
    BY <1>8 DEF ScaleAnswers, ScaleFails, ghosts
  <2>2. CallsInv /\ SaleInv
    BY <2>1 DEF OneAtATime
  <2>3. /\ weighing' = {} /\ sent = {} /\ printing = {}
        /\ UNCHANGED <<screen, dialogs, fetching, printing, timers, sold, visit, lastSold, byHand,
                       notices>>
    BY <1>8, <2>2 DEF CallsInv, ScaleAnswers, ScaleFails, page, ghosts, counts
  <2>4. Selling /\ ~Fetching /\ screen # None /\ dialogs \subseteq {"change"} /\ timers = 0
        /\ ~Handling
    BY <2>2 DEF CallsInv, Selling
  <2>5. \/ sent' = {} /\ pending' = pending
        \/ \E n : /\ sent' = {[n |-> n, payload |-> pending']}
                  /\ pending'.order = screen /\ pending'.advised = 0
    <3>1. CASE ScaleFails(reading)
      BY <2>3, <3>1 DEF ScaleFails, page
    <3>2. CASE ScaleAnswers(reading)
      <4>1. pending' = Assembled(reading) /\ Assembled(reading).order = screen
            /\ Assembled(reading).advised = 0
        BY <3>2 DEF ScaleAnswers, Assembled
      <4>2. sent' = sent \cup {[n |-> sends', payload |-> pending']}
        BY <3>2 DEF ScaleAnswers, doShipRequest
      <4> HIDE DEF Assembled
      <4> QED
        BY <2>3, <4>1, <4>2
    <3> QED
      BY <1>8, <3>1, <3>2
  <2>6. CallsInv'
    BY <2>2, <2>3, <2>4, <2>5 DEF CallsInv, Fetching, Selling, Handling, About
  <2> QED
    BY <2>2, <2>3, <2>4, <2>6 DEF SaleInv
<1>9. ASSUME NEW carrier \in Carriers, shipWithCarrier(carrier) PROVE CallsInv' /\ SaleInv'
  <2>1. calm /\ ~Waiting
    BY <1>9 DEF shipWithCarrier, ActsCalmly
  <2>2. CallsInv /\ SaleInv /\ "carrier" \in dialogs /\ ~Fetching /\ ~Selling /\ ~Handling
    BY <1>9, <2>1, WaitingIs DEF OneAtATime, shipWithCarrier
  <2>3. /\ screen # None /\ timers = 0 /\ pending.order = screen
        /\ asked["carrier"] = pending.visit /\ dialogs \subseteq {"change", "carrier"}
    BY <2>2 DEF CallsInv, Handling, TypeOK
  <2>4. pending \in Payload
    BY <2>2 DEF TypeOK
  <2>5. pending'.order = pending.order /\ pending'.visit = pending.visit
        /\ pending'.advised = asked["carrier"]
    BY <1>9, <2>4 DEF shipWithCarrier, Payload
  <2>6. sent' = {[n |-> sends', payload |-> pending']}
    BY <1>9, <2>2 DEF shipWithCarrier, doShipRequest, Selling
  <2>7. /\ dialogs' \subseteq {"change"} /\ weighing' = {} /\ printing' = {}
        /\ UNCHANGED <<screen, fetching, timers, sold, visit, lastSold, printing, byHand, notices>>
    BY <1>9, <2>2, <2>3 DEF shipWithCarrier, AfterChoice, Selling
  <2>8. CallsInv'
    BY <2>2, <2>3, <2>5, <2>6, <2>7 DEF CallsInv, Fetching, Selling, Handling, About
  <2> QED
    BY <2>2, <2>7, <2>8 DEF SaleInv
<1>10. ASSUME NEW request \in sent, ShipSucceeds(request) PROVE CallsInv' /\ SaleInv'
  <2>1. calm
    BY <1>10 DEF ShipSucceeds
  <2>2. CallsInv /\ SaleInv
    BY <2>1 DEF OneAtATime
  <2>3. /\ sent' = {} /\ printing' = {request} /\ weighing' = {} /\ timers = 0
        /\ request.payload.order = screen /\ screen # None /\ ~Fetching /\ ~Handling
        /\ dialogs \subseteq {"change"}
    BY <1>10, <2>2 DEF CallsInv, ShipSucceeds, Selling, About
  <2>4. /\ UNCHANGED <<screen, dialogs, pending, fetching, timers, visit, byHand, notices>>
        /\ sold' = sold + 1 /\ lastSold' = request.payload.order
    BY <1>10 DEF ShipSucceeds
  <2>5. CallsInv'
    BY <2>2, <2>3, <2>4 DEF CallsInv, Fetching, Selling, Handling
  <2>6. sold < visit
    BY <1>10, <2>2, <2>3 DEF CallsInv, SaleInv
  <2>7. sold' <= visit'
    BY <2>4, <2>6 DEF TypeOK
  <2> QED
    BY <2>3, <2>4, <2>5, <2>7 DEF SaleInv
<1>11. ASSUME NEW request \in sent,
              ShipFails(request) \/ \E carrier \in Carriers : ShipConflicts(request, carrier)
       PROVE  CallsInv' /\ SaleInv'
  <2>1. calm
    BY <1>11 DEF ShipFails, ShipConflicts, ghosts
  <2>2. CallsInv /\ SaleInv
    BY <2>1 DEF OneAtATime
  <2>3. /\ sent' = {} /\ printing = {} /\ weighing = {} /\ timers = 0 /\ ~Handling
        /\ pending.order = screen /\ screen # None /\ ~Fetching /\ dialogs \subseteq {"change"}
        /\ request.payload.visit = pending.visit
    BY <1>11, <2>2 DEF CallsInv, ShipFails, ShipConflicts, Selling, About
  <2>4. request.payload.visit \in Nat
    BY DEF TypeOK, Payload
  <2>5. /\ UNCHANGED <<screen, pending, fetching, weighing, printing, timers, sold, visit, lastSold,
                       byHand, notices>>
        /\ \/ dialogs' = dialogs
           \/ dialogs' = dialogs \cup {"carrier"} /\ asked'["carrier"] = request.payload.visit
    BY <1>11, <2>4, OpenOpens DEF ShipFails, ShipConflicts, page, ghosts, counts
  <2>6. CallsInv'
    BY <2>2, <2>3, <2>5 DEF CallsInv, Fetching, Selling, Handling
  <2> QED
    BY <2>2, <2>5, <2>6 DEF SaleInv
<1>12. ASSUME NEW request \in printing, LabelPrinted(request) PROVE CallsInv' /\ SaleInv'
  <2>1. calm
    BY <1>12 DEF LabelPrinted, ghosts
  <2>2. CallsInv /\ SaleInv
    BY <2>1 DEF OneAtATime
  <2>3. /\ printing' = {} /\ sent = {} /\ weighing = {} /\ timers = 0
        /\ screen # None /\ ~Fetching /\ ~Handling /\ dialogs \subseteq {"change"}
    BY <1>12, <2>2 DEF CallsInv, LabelPrinted, Selling
  <2>4. /\ UNCHANGED <<screen, pending, fetching, weighing, sent, sold, visit, lastSold, byHand,
                       notices>>
        /\ dialogs' = dialogs \cup {"success"} /\ timers' = 1
    BY <1>12, <2>3 DEF LabelPrinted, ghosts, counts
  <2>5. CallsInv'
    BY <2>2, <2>3, <2>4 DEF CallsInv, Fetching, Selling, Handling
  <2> QED
    BY <1>12, <2>2, <2>3, <2>4, <2>5 DEF SaleInv
<1>13. CASE Clear \/ TimerFires
  <2>1. calm /\ (Clear => ~Waiting /\ timers = 0)
    BY <1>13 DEF Clear, TimerFires, ActsWhenIdle
  <2>2. CallsInv /\ SaleInv
    BY <2>1 DEF OneAtATime
  <2>3. ~Fetching /\ ~Selling /\ timers' = 0
    <3>1. CASE Clear
      BY <2>1, <3>1, WaitingIs DEF Clear, calls
    <3>2. CASE TimerFires
      <4>1. timers > 0 /\ timers' = timers - 1
        BY <3>2 DEF TimerFires
      <4>2. timers = 1 /\ "success" \in dialogs
        BY <2>2, <4>1 DEF CallsInv
      <4>3. ~Fetching /\ ~Selling
        BY <2>2, <4>2 DEF CallsInv
      <4> QED
        BY <4>1, <4>2, <4>3
    <3> QED
      BY <1>13, <3>1, <3>2
  <2>4. softReset /\ UNCHANGED <<fetching, weighing, sent, printing, sold, visit, byHand, notices>>
    BY <1>13 DEF Clear, TimerFires, calls, counts
  <2> QED
    BY <2>2, <2>3, <2>4, CallsClear
<1>14. CASE confirmPickup
  <2>1. calm
    BY <1>14 DEF confirmPickup
  <2>2. CallsInv /\ SaleInv
    BY <2>1 DEF OneAtATime
  <2>3. ~Fetching /\ ~Selling /\ timers' = 0
    BY <1>14, <2>2 DEF confirmPickup, CallsInv, calls, TypeOK
  <2>4. softReset /\ UNCHANGED <<fetching, weighing, sent, printing, sold, visit, byHand, notices>>
    BY <1>14 DEF confirmPickup, calls, counts
  <2> QED
    BY <2>2, <2>3, <2>4, CallsClear
<1>15. CASE submitByHand \/ ByHandSucceeds \/ ByHandFails \/ NoticeEnds
  <2>1. calm /\ (submitByHand => ~Waiting /\ timers = 0)
    BY <1>15 DEF submitByHand, ByHandSucceeds, ByHandFails, NoticeEnds, ActsWhenIdle, ghosts
  <2>2. CallsInv /\ SaleInv
    BY <2>1 DEF OneAtATime
  <2>3. ~Fetching /\ ~Selling /\ timers = 0
    BY <1>15, <2>1, <2>2, WaitingIs
       DEF CallsInv, ByHandSucceeds, ByHandFails, NoticeEnds, Handling
  <2>4. /\ UNCHANGED <<screen, pending, fetching, weighing, sent, printing, timers, sold, visit,
                       lastSold, asked>>
        /\ \/ dialogs' \subseteq dialogs /\ "success" \notin dialogs'
           \/ dialogs' = dialogs /\ notices' = notices
           \/ dialogs' = dialogs \cup {"success"} /\ notices' > 0
    <3>1. CASE submitByHand
      BY <3>1 DEF submitByHand, page, history
    <3>2. CASE ByHandSucceeds
      BY <3>2 DEF ByHandSucceeds, ghosts, counts, TypeOK
    <3>3. CASE ByHandFails
      BY <3>3 DEF ByHandFails, page, ghosts, counts
    <3>4. CASE NoticeEnds
      BY <3>4 DEF NoticeEnds, ghosts, counts
    <3> QED
      BY <1>15, <3>1, <3>2, <3>3, <3>4
  <2>5. CallsInv'
    BY <2>2, <2>3, <2>4 DEF CallsInv, Fetching, Selling, Handling
  <2> QED
    BY <2>2, <2>4, <2>5 DEF SaleInv
<1> QED
  BY <1>1, <1>2, <1>3, <1>4, <1>5, <1>6, <1>7, <1>8, <1>9, <1>10, <1>11, <1>12, <1>13, <1>14, <1>15
     DEF Next

LEMMA OneAtATimeHolds == Spec => []OneAtATime
<1>1. Init => OneAtATime
  <2> SUFFICES ASSUME Init PROVE CallsInv /\ SaleInv
    BY DEF OneAtATime
  <2>1. \A o \in Orders : fetching[o] = 0
    BY DEF Init
  <2> QED
    BY <2>1 DEF Init, CallsInv, SaleInv, Fetching, Selling, Handling
<1>2. TypeOK /\ TypeOK' /\ Repeatable /\ OneAtATime /\ [Next]_vars => OneAtATime'
  BY OneAtATimeNext
<1> QED
  BY <1>1, <1>2, StationTypeCorrect, PTL DEF Spec

(* A pick goes to the order its dialog was about or to one loaded beneath  *)
(* the dialog, and to no other; a suggestion repeats its own request, to   *)
(* an operator who waits for the answers.                                  *)
THEOREM OwnPicks == Spec => []PicksAreOwn
<1>1. RequestInv /\ OneAtATime => PicksAreOwn
  BY DEF RequestInv, Own, OneAtATime, CallsInv, About, PicksAreOwn
<1> QED
  BY <1>1, RequestsAreOwn, OneAtATimeHolds, PTL

(* An operator who waits for the answers sells an order's label once per   *)
(* load.                                                                   *)
THEOREM SoldOnce == Spec => []SoldOncePerLoad
<1>1. OneAtATime => SoldOncePerLoad
  BY DEF OneAtATime, SaleInv, SoldOncePerLoad
<1> QED
  BY <1>1, OneAtATimeHolds, PTL

(* To the same operator the timer clears the order that was sold.          *)
THEOREM ClearsSold == Spec => []ClearsTheSold
<1>1. OneAtATime => ClearsTheSold
  BY DEF OneAtATime, SaleInv, ClearsTheSold
<1> QED
  BY <1>1, OneAtATimeHolds, PTL

-----------------------------------------------------------------------------
(***************************************************************************)
(* Why a sold label leads back to the waiting screen (the run "station"    *)
(* checks that it does, under the fairness of Spec).                       *)
(***************************************************************************)
\* The dialog of a success, which bars every scan and has no button, has its timer, or that of
\* a call by hand.
SuccessIsTimed == "success" \in dialogs => timers > 0 \/ notices > 0

\* A label goes to the printer until the timer is set, and the timer stays until the screen
\* is cleared: no callback, whatever it finds on the screen, takes either back.
SaleIsFollowedUp ==
  [][/\ \A request \in printing : request \in printing' \/ timers' > 0
     /\ timers > 0 => timers' > 0 \/ (screen' = None /\ dialogs' = {})]_vars

(* The page is never blocked for good by the dialog of a success, however  *)
(* many successes, clearings and late answers overlap.                     *)
THEOREM SuccessTimed == Spec => []SuccessIsTimed
<1>1. Init => SuccessIsTimed
  BY DEF Init, SuccessIsTimed
<1>2. TypeOK /\ SuccessIsTimed /\ [Next]_vars => SuccessIsTimed'
  <2> SUFFICES ASSUME TypeOK, SuccessIsTimed, [Next]_vars PROVE SuccessIsTimed'
    OBVIOUS
  <2> USE StationAssumption DEF TypeOK, SuccessIsTimed
  <2>1. CASE UNCHANGED <<timers, notices>> /\ ("success" \in dialogs' => "success" \in dialogs)
    BY <2>1
  <2>2. ASSUME NEW o \in Orders, ScanOrder(o) \/ OrderLoaded(o) \/ OrderFails(o)
        PROVE  SuccessIsTimed'
    <3>1. Dialog[o] # "success"
      BY OpensIts
    <3> QED
      BY <2>1, <2>2, <3>1 DEF ScanOrder, OrderLoaded, OrderFails, Open, page
  <2>3. CASE VerifyItem \/ ScanBox \/ showOBModal \/ cancelOB \/ confirmOB
    BY <2>1, <2>3 DEF VerifyItem, ScanBox, showOBModal, cancelOB, confirmOB, Open,
                      Close, page, calls
  <2>4. ASSUME NEW reading \in weighing, ScaleAnswers(reading) \/ ScaleFails(reading)
        PROVE  SuccessIsTimed'
    BY <2>1, <2>4 DEF ScaleAnswers, ScaleFails, page
  <2>5. ASSUME NEW request \in sent,
               \/ ShipSucceeds(request) \/ ShipFails(request)
               \/ \E carrier \in Carriers \ {FedEx} : ShipConflicts(request, carrier)
        PROVE  SuccessIsTimed'
    BY <2>1, <2>5 DEF ShipSucceeds, ShipFails, ShipConflicts, Open, page
  <2>6. ASSUME NEW request \in printing, LabelPrinted(request) PROVE SuccessIsTimed'
    BY <2>6 DEF LabelPrinted
  <2>7. ASSUME NEW carrier \in Carriers \cup {None},
               \/ shipWithCarrier(carrier) \/ selectAmazonCarrier(carrier)
               \/ applyManualCarrier(carrier) \/ selectHighValueCarrier(carrier)
        PROVE  SuccessIsTimed'
    BY <2>1, <2>7 DEF shipWithCarrier, selectAmazonCarrier, applyManualCarrier,
                      selectHighValueCarrier, AfterChoice, Close, calls
  <2>8. CASE openChangeCarrierModal \/ closeChangeCarrierModal \/ toggleAdultSignature
    BY <2>1, <2>8 DEF openChangeCarrierModal, closeChangeCarrierModal, toggleAdultSignature,
                      Open, Close, calls
  <2>9. CASE Clear \/ confirmPickup \/ TimerFires
    BY <2>9 DEF Clear, confirmPickup, TimerFires, softReset
  <2>10. CASE submitByHand \/ ByHandSucceeds \/ ByHandFails \/ NoticeEnds
    BY <2>1, <2>10 DEF submitByHand, ByHandSucceeds, ByHandFails, NoticeEnds, page
  <2>11. CASE UNCHANGED vars
    BY <2>1, <2>11 DEF vars, page, calls
  <2> QED
    BY <2>2, <2>3, <2>4, <2>5, <2>6, <2>7, <2>8, <2>9, <2>10, <2>11 DEF Next
<1> QED
  BY <1>1, <1>2, StationTypeCorrect, PTL DEF Spec

(* A sale is followed up to the end: printer, dialog, timer, cleared screen.*)
THEOREM SalesFollowedUp == Spec => SaleIsFollowedUp
<1> DEFINE Followed ==
             /\ \A request \in printing : request \in printing' \/ timers' > 0
             /\ timers > 0 => timers' > 0 \/ (screen' = None /\ dialogs' = {})
<1>1. TypeOK /\ [Next]_vars => [Followed]_vars
  <2> SUFFICES ASSUME TypeOK, Next PROVE Followed
    OBVIOUS
  <2> USE DEF TypeOK
  <2>1. CASE UNCHANGED timers /\ printing \subseteq printing'
    BY <2>1
  <2>2. ASSUME NEW request \in printing, LabelPrinted(request) PROVE Followed
    BY <2>2 DEF LabelPrinted
  <2>3. CASE TimerFires
    BY <2>3 DEF TimerFires, softReset
  <2> QED
    BY <2>1, <2>2, <2>3
       DEF Next, ScanOrder, OrderLoaded, OrderFails, VerifyItem, ScanBox, showOBModal, cancelOB,
           confirmOB, ScaleAnswers, ScaleFails, ShipSucceeds, ShipFails, ShipConflicts,
           shipWithCarrier, selectAmazonCarrier, applyManualCarrier, selectHighValueCarrier,
           openChangeCarrierModal, closeChangeCarrierModal, toggleAdultSignature, Clear,
           confirmPickup, submitByHand, ByHandSucceeds, ByHandFails, NoticeEnds, calls
<1> QED
  BY <1>1, StationTypeCorrect, PTL DEF Spec, SaleIsFollowedUp
=============================================================================
