\* One order at a time, of every kind the rules tell apart, in every kind of box, while an
\* admin switches between three settings.
SPECIFICATION Spec
CONSTANTS
  None = None
  NoText = NoText
  Configs <- MCConfigs
  Orders <- MCOrders
  Boxes = {"1", "2", "3", "OB", "FXENV", "FDXMED"}
  FedexCodes = {"FXENV", "FDXMED"}
  Sizes <- MCSizes
  Weights = {2, 4, 16}
INVARIANTS
  ChoiceShips
  CarrierToldIsLabels
  PoBoxKeepsUsps
  RuralStaysUsps
  SuggestionStands
  OneRateBoxHolds
