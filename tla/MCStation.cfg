\* An order of each kind; two of them loaded, two boxes scanned, in every order of answers.
\* X is an Amazon order with a method of FedEx.
SPECIFICATION Spec
CONSTANTS
  Orders = {"A", "F", "H", "P", "X"}
  Dialog <- MCDialog
  FedExMethod = {"F", "X"}
  Items <- MCItems
  Carriers = {"UPS", "FEDEX_ONE_RATE_2DAY"}
  None = None
  MaxFetches = 2
  MaxClicks = 2
INVARIANTS
  OnlyVerifiedShip
  PicksAreOwn
  DialogsAreAnswered
  LabelsWithinScans
  SoldOncePerLoad
  ClearsTheSold
  ReprintsLastSold
  ModeIsFedEx
PROPERTIES
  BackToWaiting
