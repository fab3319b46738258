\* The comment at index.html:523: refuted by clearing the screen with the toggle on.
SPECIFICATION Spec
CONSTANTS
  Orders = {"A", "H"}
  Dialog <- MCDialog
  FedExMethod = {}
  Items <- MCItems
  Carriers = {"UPS"}
  None = None
  MaxFetches = 2
  MaxClicks = 2
INVARIANT SignatureStaysBehind
