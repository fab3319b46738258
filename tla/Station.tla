------------------------------ MODULE Station ------------------------------
(***************************************************************************)
(* The packing station's page (templates/index.html): an order is scanned  *)
(* and loaded, its items are verified, a box is scanned, the scale is read *)
(* and the label is bought.  Every call (to the server, to the scale, to   *)
(* the printer) is answered by a callback, in any order and at any time;   *)
(* the callback reads the page's variables as they are then, and nothing   *)
(* withdraws it when the operator clears the screen.                       *)
(*                                                                         *)
(* The server is what the page sees of it.  Visits number the loads of an  *)
(* order; they, and the fields of calls and requests that hold one, are    *)
(* kept for the properties only, like all variables after notices.         *)
(***************************************************************************)
EXTENDS Integers

CONSTANTS
  Orders,
  Dialog,      \* [Orders -> the dialog that its ship method or its total opens, or None]
  FedExMethod, \* the orders whose ship method contains "fedex", whatever dialog it opens
  Items,       \* [Orders -> the number of items to verify]
  Carriers,    \* those the dialogs' buttons offer
  None,
  MaxFetches,  \* bound: order scans
  MaxClicks    \* bound: box scans, clicks on ADULT SIG, calls by hand

FedEx == "FEDEX_ONE_RATE_2DAY"

Dialogs == {"pickup", "amazon", "highvalue", "carrier", "change", "ob", "success"}
Pick == [carrier : Carriers, visit : Nat]
Reading == [scan : Nat, visit : Nat]

Payload ==
  [order : Orders \cup {None}, override : Carriers \cup {None}, adult : BOOLEAN,
   complete : BOOLEAN, scanned : Nat, visit : Nat, picked : Nat, advised : Nat, armedIn : Nat]

ASSUME StationAssumption ==
  /\ Dialog \in [Orders -> {"pickup", "amazon", "highvalue", None}]
  /\ FedExMethod \subseteq {o \in Orders : Dialog[o] # "highvalue"}
  /\ Items \in [Orders -> Nat]
  /\ Carriers \subseteq {"UPS", "USPS", FedEx}
  /\ None \notin Orders \cup {"UPS", "USPS", FedEx} \cup Dialogs \cup Pick \cup Payload
  /\ MaxFetches \in Nat /\ MaxClicks \in Nat

VARIABLES
  screen,      \* currentOrderId
  unverified,  \* items of it that are not scanned yet
  fedex,       \* isFedExMode
  picks,       \* [dialog -> the carrier picked in it, with the visit, or None]
  dialogs,     \* the dialogs that are open
  armed,       \* adultSignatureNext
  pending,     \* pendingShipPayload
  suggested,   \* pendingCarrierConflict's suggestion
  lastShipped, \* lastShippedOrderId
  fetching,    \* [Orders -> number of loads on the way]
  weighing,    \* scale readings on the way
  sent,        \* ship requests on the way
  printing,    \* labels on the way to the printer
  timers,      \* screens to be cleared 2.5 s after a success
  byHand,      \* links, reprints and voids by hand on the way
  notices,     \* success dialogs to be closed 2 s after one of these
  fetches, scans, toggles, sends, handled, \* counted
  visit,       \* the number of orders loaded so far
  asked,       \* [dialog -> the visit whose order it was opened about, 0 while it is closed]
  armedIn,     \* the visit in which the toggle was last turned on, 0 between two
  labels,      \* labels bought
  sold,        \* and those answered with success
  lastSold,    \* the order of the last of these
  under,       \* the visits whose order was loaded under a dialog that asks about an earlier one
  straight,    \* it was answered in the visit it was sent in
  calm         \* the operator has let every call be answered before going on

page == <<screen, unverified, fedex, picks, dialogs, armed, pending, suggested, lastShipped>>
asides == <<byHand, notices>>
calls == <<fetching, weighing, sent, printing, timers, asides>>
counts == <<fetches, scans, toggles, sends, handled, labels, sold>>
history == <<visit, armedIn, lastSold, under, straight>>
ghosts == <<counts, history, asked, calm>>
vars == <<page, calls, ghosts>>

NoPicks == [d \in {"amazon", "highvalue", "change"} |-> None]

TypeOK ==
  /\ screen \in Orders \cup {None}
  /\ unverified \in Nat
  /\ fedex \in BOOLEAN
  /\ picks \in [DOMAIN NoPicks -> Pick \cup {None}]
  /\ dialogs \subseteq Dialogs
  /\ armed \in BOOLEAN
  /\ pending = None \/ pending \in Payload
  /\ suggested \in {"UPS", "USPS", None}
  /\ lastShipped \in Orders \cup {None}
  /\ fetching \in [Orders -> Nat]
  /\ weighing \subseteq Reading
  /\ \A request \in sent \cup printing : request.payload \in Payload
  /\ {timers, byHand, notices} \subseteq Nat
  /\ {fetches, scans, toggles, sends, handled, labels, sold, visit, armedIn} \subseteq Nat
  /\ asked \in [Dialogs -> Nat]
  /\ under \subseteq Nat
  \* an order's dialog is open only over an order, the suggestion's only with a request to repeat
  /\ dialogs \cap {"pickup", "amazon", "highvalue", "change", "ob"} # {} => screen # None
  /\ "carrier" \in dialogs => pending # None /\ suggested # None

Init ==
  /\ screen = None /\ unverified = 0 /\ fedex = FALSE
  /\ picks = NoPicks /\ dialogs = {} /\ armed = FALSE
  /\ pending = None /\ suggested = None /\ lastShipped = None
  /\ fetching = [o \in Orders |-> 0]
  /\ weighing = {} /\ sent = {} /\ printing = {} /\ timers = 0 /\ byHand = 0 /\ notices = 0
  /\ fetches = 0 /\ scans = 0 /\ toggles = 0 /\ sends = 0 /\ handled = 0
  /\ visit = 0 /\ asked = [d \in Dialogs |-> 0] /\ armedIn = 0
  /\ labels = 0 /\ sold = 0 /\ lastSold = None
  /\ under = {} /\ straight = TRUE /\ calm = TRUE

-----------------------------------------------------------------------------
\* A mistake the runs must detect: the dialog for Amazon orders does not block.
Bug_AmazonPassesScans == dialogs \ {"amazon"} # {}

\* A mistake the runs must detect: the dialog for the success does not block.
Bug_SuccessPassesScans == dialogs \ {"success"} # {}

(* isModalBlocking: while a dialog is open nothing is scanned.             *)
isModalBlocking == dialogs # {}

checkCompletion == unverified = 0 /\ Items[screen] > 0

Waiting == \/ \E o \in Orders : fetching[o] > 0
           \/ weighing # {} \/ sent # {} \/ printing # {}
           \/ byHand > 0 \/ notices > 0
ActsCalmly == calm' = (calm /\ ~Waiting)
ActsWhenIdle == calm' = (calm /\ ~Waiting /\ timers = 0)

MayClick == scans + toggles + handled < MaxClicks

(* What a dialog asks is about the visit it is opened for; its buttons act *)
(* on whatever is on the screen, or on its way to be repeated, by then.    *)
Open(dialog, v) ==
  /\ dialogs' = dialogs \cup {dialog}
  /\ asked' = [asked EXCEPT ![dialog] = v]

Close(dialog) ==
  /\ dialog \in dialogs /\ dialogs' = dialogs \ {dialog}
  /\ asked' = [asked EXCEPT ![dialog] = 0]

ScanOrder(o) ==
  /\ ~isModalBlocking /\ screen = None
  /\ fetches < MaxFetches /\ fetches' = fetches + 1
  /\ fetching' = [fetching EXCEPT ![o] = @ + 1]
  /\ ActsCalmly
  /\ UNCHANGED <<page, weighing, sent, printing, timers, asides, scans, toggles, sends, handled,
                 labels, sold, history, asked>>

Answered(o) == fetching[o] > 0 /\ fetching' = [fetching EXCEPT ![o] = @ - 1]

\* A mistake the runs must detect: only the manual pick is forgotten, as softReset does.
Bug_ForgetManual == [picks EXCEPT !["change"] = None]

(* What loading an order leaves of the picks made for another.             *)
ForgetPicks == NoPicks

(* fetchOrder's callback does not ask what the screen shows by now.        *)
OrderLoaded(o) ==
  /\ Answered(o)
  /\ screen' = o
  /\ unverified' = Items[o]
  /\ picks' = ForgetPicks
  /\ visit' = visit + 1
  /\ IF Dialog[o] = None THEN UNCHANGED <<dialogs, asked>> ELSE Open(Dialog[o], visit')
  /\ fedex' = (o \in FedExMethod)
  /\ under' = IF (dialogs \ {Dialog[o]}) \cap DOMAIN NoPicks = {} THEN under
              ELSE under \cup {visit'}
  /\ UNCHANGED <<armed, pending, suggested, lastShipped, weighing, sent, printing, timers, asides,
                 counts, armedIn, lastSold, straight, calm>>

OrderFails(o) ==
  /\ Answered(o)
  /\ UNCHANGED <<page, weighing, sent, printing, timers, asides, ghosts>>

\* An item is scanned, all its pieces are waived with its button, or everything is ("yoda").
VerifyItem ==
  /\ ~isModalBlocking /\ screen # None
  /\ unverified > 0
  /\ unverified' \in 0..(unverified - 1)
  /\ UNCHANGED <<screen, fedex, picks, dialogs, armed, pending, suggested, lastShipped, calls,
                 ghosts>>
-----------------------------------------------------------------------------
\* A mistake the runs must detect: a box may be scanned before the items.
Bug_BoxBeforeItems == ~isModalBlocking /\ screen # None

MayScanBox == ~isModalBlocking /\ screen # None /\ checkCompletion

ScanBox ==
  /\ MayScanBox
  /\ MayClick /\ scans' = scans + 1
  /\ weighing' = weighing \cup {[scan |-> scans', visit |-> visit]}
  /\ ActsCalmly
  /\ UNCHANGED <<page, fetching, sent, printing, timers, asides, fetches, toggles, sends, handled,
                 labels, sold, history, asked>>

showOBModal ==
  /\ MayScanBox
  /\ Open("ob", visit)
  /\ ActsCalmly
  /\ UNCHANGED <<screen, unverified, fedex, picks, armed, pending, suggested, lastShipped, calls,
                 counts, history>>

cancelOB ==
  /\ Close("ob")
  /\ UNCHANGED <<screen, unverified, fedex, picks, armed, pending, suggested, lastShipped, calls,
                 counts, history, calm>>

confirmOB ==
  /\ Close("ob")
  /\ MayClick /\ scans' = scans + 1
  /\ weighing' = weighing \cup {[scan |-> scans', visit |-> asked["ob"]]}
  /\ ActsCalmly
  /\ UNCHANGED <<screen, unverified, fedex, picks, armed, pending, suggested, lastShipped,
                 fetching, sent, printing, timers, asides, fetches, toggles, sends, handled,
                 labels, sold, history>>

(* The pick that counts: manual before Amazon before high value.           *)
Picked ==
  LET made == {d \in DOMAIN picks : picks[d] # None} IN
  IF made = {} THEN None
  ELSE picks[CHOOSE d \in made :
               \/ d = "change"
               \/ d = "amazon" /\ "change" \notin made
               \/ d = "highvalue" /\ made = {"highvalue"}]

(* The scale's callback puts the request together from what the page shows.*)
Assembled(reading) ==
  [order    |-> screen,
   override |-> IF Picked = None THEN None ELSE Picked.carrier,
   adult    |-> armed,
   complete |-> screen # None /\ checkCompletion,
   scanned  |-> reading.visit,
   visit    |-> IF screen = None THEN 0 ELSE visit,
   picked   |-> IF Picked = None THEN 0 ELSE Picked.visit,
   advised  |-> 0,
   armedIn  |-> armedIn]

doShipRequest(payload) ==
  /\ sends' = sends + 1
  /\ sent' = sent \cup {[n |-> sends', payload |-> payload]}

\* A mistake the runs must detect: lastShippedOrderId is set when the request is sent.
Bug_ShippedWhenSent(reading) ==
  /\ reading \in weighing /\ weighing' = weighing \ {reading}
  /\ pending' = Assembled(reading)
  /\ doShipRequest(Assembled(reading))
  /\ lastShipped' = screen
  /\ UNCHANGED <<screen, unverified, fedex, picks, dialogs, armed, suggested, fetching, printing,
                 timers, asides, fetches, scans, toggles, handled, labels, sold, history, asked,
                 calm>>

ScaleAnswers(reading) ==
  /\ reading \in weighing /\ weighing' = weighing \ {reading}
  /\ pending' = Assembled(reading)
  /\ doShipRequest(Assembled(reading))
  /\ UNCHANGED <<screen, unverified, fedex, picks, dialogs, armed, suggested, lastShipped,
                 fetching, printing, timers, asides, fetches, scans, toggles, handled, labels,
                 sold, history, asked, calm>>

ScaleFails(reading) ==
  /\ reading \in weighing /\ weighing' = weighing \ {reading}
  /\ UNCHANGED <<page, fetching, sent, printing, timers, asides, ghosts>>

-----------------------------------------------------------------------------
(* The answers to a ship request.  Without an order number there is none   *)
(* but an error; an override is never answered with a suggestion.          *)
ShipSucceeds(request) ==
  /\ request \in sent /\ sent' = sent \ {request}
  /\ request.payload.order # None
  /\ lastShipped' = screen
  /\ armed' = FALSE
  /\ printing' = printing \cup {request}
  /\ labels' = labels + 1 /\ sold' = sold + 1
  /\ lastSold' = request.payload.order
  /\ straight' = (screen # None /\ request.payload.visit = visit)
  /\ armedIn' = 0
  /\ UNCHANGED <<screen, unverified, fedex, picks, dialogs, pending, suggested, fetching, weighing,
                 timers, asides, fetches, scans, toggles, sends, handled, visit, asked, under,
                 calm>>

ShipConflicts(request, carrier) ==
  /\ request \in sent /\ sent' = sent \ {request}
  /\ request.payload.order # None /\ request.payload.override = None
  /\ request.payload.order \notin FedExMethod
  /\ suggested' = carrier
  /\ Open("carrier", request.payload.visit)
  /\ UNCHANGED <<screen, unverified, fedex, picks, armed, pending, lastShipped, fetching, weighing,
                 printing, timers, asides, counts, history, calm>>

\* Refused, lost, or an error after the label was bought ("Label printed but ...").
ShipFails(request) ==
  /\ request \in sent /\ sent' = sent \ {request}
  /\ \/ UNCHANGED labels
     \/ request.payload.order # None /\ labels' = labels + 1
  /\ UNCHANGED <<page, fetching, weighing, printing, timers, asides, fetches, scans, toggles,
                 sends, handled, sold, history, asked, calm>>

\* A mistake the runs must detect: a printer that cannot be reached ends the callback.
Bug_PrinterEndsIt(request) ==
  /\ request \in printing /\ printing' = printing \ {request}
  /\ \/ dialogs' = dialogs \cup {"success"} /\ timers' = timers + 1
     \/ UNCHANGED <<dialogs, timers>>
  /\ UNCHANGED <<screen, unverified, fedex, picks, armed, pending, suggested, lastShipped,
                 fetching, weighing, sent, asides, ghosts>>

\* The printer has answered, if only with an error.
LabelPrinted(request) ==
  /\ request \in printing /\ printing' = printing \ {request}
  /\ dialogs' = dialogs \cup {"success"}
  /\ timers' = timers + 1
  /\ UNCHANGED <<screen, unverified, fedex, picks, armed, pending, suggested, lastShipped,
                 fetching, weighing, sent, asides, ghosts>>

-----------------------------------------------------------------------------
\* A mistake the runs must detect: the dialog stays until the answer comes.
Bug_DialogStays == dialogs

AfterChoice == dialogs \ {"carrier"}

(* The suggested carrier or, if that is not UPS, the one the order has.    *)
shipWithCarrier(carrier) ==
  /\ "carrier" \in dialogs
  /\ suggested = "UPS" => carrier = "UPS"
  /\ carrier \in {"UPS", "USPS"}
  /\ dialogs' = AfterChoice
  /\ asked' = [asked EXCEPT !["carrier"] = 0]
  /\ pending' = [pending EXCEPT !.override = carrier, !.picked = 0, !.advised = asked["carrier"]]
  /\ doShipRequest(pending')
  /\ ActsCalmly
  /\ UNCHANGED <<screen, unverified, fedex, picks, armed, suggested, lastShipped, fetching,
                 weighing, printing, timers, asides, fetches, scans, toggles, handled, labels,
                 sold, history>>

(* The pick is the screen's from now on, and was asked for the dialog's.   *)
MakePick(dialog, carrier) ==
  picks' = [picks EXCEPT ![dialog] = [carrier |-> carrier, visit |-> asked[dialog]]]

selectAmazonCarrier(carrier) ==
  /\ Close("amazon")
  /\ carrier \in {"UPS", "USPS"}
  /\ MakePick("amazon", carrier)
  /\ UNCHANGED <<screen, unverified, fedex, armed, pending, suggested, lastShipped, calls, counts,
                 history, calm>>

\* None keeps USPS.
selectHighValueCarrier(carrier) ==
  /\ Close("highvalue")
  /\ carrier \in {"UPS", FedEx, None}
  /\ IF carrier = None THEN picks' = [picks EXCEPT !["highvalue"] = None]
                       ELSE MakePick("highvalue", carrier)
  /\ fedex' = (fedex \/ carrier = FedEx)
  /\ UNCHANGED <<screen, unverified, armed, pending, suggested, lastShipped, calls, counts,
                 history, calm>>

\* The sidebar's buttons are covered while a dialog is open.
openChangeCarrierModal ==
  /\ dialogs = {} /\ screen # None
  /\ Open("change", visit)
  /\ UNCHANGED <<screen, unverified, fedex, picks, armed, pending, suggested, lastShipped, calls,
                 counts, history, calm>>

closeChangeCarrierModal ==
  /\ Close("change")
  /\ UNCHANGED <<screen, unverified, fedex, picks, armed, pending, suggested, lastShipped, calls,
                 counts, history, calm>>

\* A mistake the runs must detect: FedEx mode is entered and never left.
Bug_ModeStays(carrier) == fedex \/ carrier = FedEx

ModeOf(carrier) == carrier = FedEx

applyManualCarrier(carrier) ==
  /\ Close("change")
  /\ MakePick("change", carrier)
  /\ fedex' = ModeOf(carrier)
  /\ UNCHANGED <<screen, unverified, armed, pending, suggested, lastShipped, calls, counts,
                 history, calm>>

toggleAdultSignature ==
  /\ dialogs = {}
  /\ MayClick /\ toggles' = toggles + 1
  /\ armed' = ~armed
  /\ armedIn' = IF armed' /\ screen # None THEN visit ELSE 0
  /\ UNCHANGED <<screen, unverified, fedex, picks, dialogs, pending, suggested, lastShipped, calls,
                 fetches, scans, sends, handled, labels, sold, asked, visit, lastSold, under,
                 straight, calm>>

-----------------------------------------------------------------------------
(* Links, reprints and voids by hand.  Their own dialogs block no scan and *)
(* are no state of the packing; their success is shown in the dialog of a  *)
(* sale's, and closes it.                                                  *)
submitByHand ==
  /\ MayClick /\ handled' = handled + 1
  /\ byHand' = byHand + 1
  /\ ActsWhenIdle
  /\ UNCHANGED <<page, fetching, weighing, sent, printing, timers, notices, fetches, scans,
                 toggles, sends, labels, sold, history, asked>>

ByHandSucceeds ==
  /\ byHand > 0 /\ byHand' = byHand - 1
  /\ dialogs' = dialogs \cup {"success"}
  /\ notices' = notices + 1
  /\ UNCHANGED <<screen, unverified, fedex, picks, armed, pending, suggested, lastShipped,
                 fetching, weighing, sent, printing, timers, ghosts>>

ByHandFails ==
  /\ byHand > 0 /\ byHand' = byHand - 1
  /\ UNCHANGED <<page, fetching, weighing, sent, printing, timers, notices, ghosts>>

NoticeEnds ==
  /\ notices > 0 /\ notices' = notices - 1
  /\ dialogs' = dialogs \ {"success"}
  /\ UNCHANGED <<screen, unverified, fedex, picks, armed, pending, suggested, lastShipped,
                 fetching, weighing, sent, printing, timers, byHand, ghosts>>

-----------------------------------------------------------------------------
(* softReset: what was picked for Amazon or high value, the request and    *)
(* the signature stay.                                                     *)
softReset ==
  /\ screen' = None /\ unverified' = 0 /\ fedex' = FALSE
  /\ picks' = [picks EXCEPT !["change"] = None]
  /\ dialogs' = {} /\ asked' = [d \in Dialogs |-> 0]
  /\ UNCHANGED <<armed, pending, suggested, lastShipped>>

\* Esc, or CLEAR.
Clear ==
  /\ softReset
  /\ ActsWhenIdle
  /\ UNCHANGED <<calls, counts, history>>

confirmPickup ==
  /\ "pickup" \in dialogs
  /\ softReset
  /\ UNCHANGED <<calls, counts, history, calm>>

TimerFires ==
  /\ timers > 0 /\ timers' = timers - 1
  /\ softReset
  /\ UNCHANGED <<fetching, weighing, sent, printing, asides, counts, history, calm>>

Next ==
  \/ \E o \in Orders : ScanOrder(o) \/ OrderLoaded(o) \/ OrderFails(o)
  \/ VerifyItem
  \/ ScanBox \/ showOBModal \/ cancelOB \/ confirmOB
  \/ \E reading \in weighing : ScaleAnswers(reading) \/ ScaleFails(reading)
  \/ \E request \in sent :
       \/ ShipSucceeds(request)
       \/ \E carrier \in Carriers \ {FedEx} : ShipConflicts(request, carrier)
       \/ ShipFails(request)
  \/ \E request \in printing : LabelPrinted(request)
  \/ \E carrier \in Carriers :
       shipWithCarrier(carrier) \/ selectAmazonCarrier(carrier) \/ applyManualCarrier(carrier)
  \/ \E carrier \in Carriers \cup {None} : selectHighValueCarrier(carrier)
  \/ openChangeCarrierModal \/ closeChangeCarrierModal
  \/ toggleAdultSignature
  \/ submitByHand \/ ByHandSucceeds \/ ByHandFails \/ NoticeEnds
  \/ Clear \/ confirmPickup \/ TimerFires

(* The printer's agent answers in 10 s at most, timers fire.               *)
Fairness ==
  /\ WF_vars(\E request \in printing : LabelPrinted(request))
  /\ WF_vars(TimerFires)

Spec == Init /\ [][Next]_vars /\ Fairness

-----------------------------------------------------------------------------
(* What a box scan promises ("Verify all items first!"): the request names *)
(* the order that was on the screen, with all its items verified, unless   *)
(* the screen changed between the scan and the scale's answer.             *)
OnlyVerifiedShip ==
  \A request \in sent :
    request.payload.scanned = request.payload.visit /\ request.payload.order # None
      => request.payload.complete

(* A carrier picked in a dialog goes to the order the dialog was about or, *)
(* if others were loaded beneath it while it was open, to the last of      *)
(* these: never further, whatever is cleared, loaded twice or answered     *)
(* late, for loading forgets what clearing does not.  The carrier suggested*)
(* for a request repeats that request, to an operator who lets every call  *)
(* be answered before going on.                                            *)
PicksAreOwn ==
  \A request \in sent :
    LET payload == request.payload IN
    payload.order # None =>
      /\ payload.picked # 0 => /\ payload.picked <= payload.visit
                               /\ (payload.picked + 1)..payload.visit \subseteq under
      /\ calm => payload.advised \in {0, payload.visit}

(* The dialog of an Amazon order cannot be passed by, nor a pickup order   *)
(* be shipped, unless the screen changed while the scale was read.         *)
DialogsAreAnswered ==
  \A request \in sent :
    request.payload.scanned = request.payload.visit /\ request.payload.order # None =>
      /\ Dialog[request.payload.order] # "pickup"
      /\ Dialog[request.payload.order] = "amazon" => request.payload.override # None

(* However answers race, no more labels are bought than boxes were scanned.*)
LabelsWithinScans == labels <= scans

(* To an operator who lets every call be answered before going on, an      *)
(* order's label is sold once per load: the success dialog bars the second *)
(* scan until the screen is cleared.                                       *)
SoldOncePerLoad == calm => sold <= visit

(* To the same operator, the timer that clears the screen 2.5 s after a    *)
(* success clears the order that was sold, not the one scanned next.       *)
ClearsTheSold == calm /\ timers > 0 => screen = lastSold

(* REPRINT LAST is for the order sold last, unless that answer came to a   *)
(* screen that no longer showed it.                                        *)
ReprintsLastSold == straight => lastShipped = lastSold

\* By the pick that counts, or else by its method.
ShipsFedEx == IF Picked = None THEN screen \in FedExMethod ELSE Picked.carrier = FedEx

\* The pick for an Amazon order leaves the mode that its method, of FedEx, set.
KeepsMode == screen \in FedExMethod /\ picks["amazon"] # None /\ picks["change"] = None

(* The page takes FedEx's boxes exactly for an order that will ship with   *)
(* FedEx, by its method or the pick that counts, however it is picked and  *)
(* picked again.  There are two exceptions: an order that was loaded under *)
(* a dialog about an earlier one, and an Amazon order whose method is of   *)
(* FedEx, for which the dialog took UPS or USPS.                           *)
ModeIsFedEx ==
  screen # None /\ visit \notin under => fedex = (ShipsFedEx \/ KeepsMode)

(* A sold label leads back to the waiting screen, printed or not: the next *)
(* order can be scanned.                                                   *)
BackToWaiting == printing # {} ~> screen = None

(* "... so a one-time signature requirement on order N does not silently   *)
(* follow into order N+1": refuted by an order that is cleared instead of  *)
(* shipped after the toggle was turned on for it (index.html:523).         *)
SignatureStaysBehind ==
  \A request \in sent :
    request.payload.order # None /\ request.payload.adult
      => request.payload.armedIn \in {0, request.payload.visit}
=============================================================================
