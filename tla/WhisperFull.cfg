CONSTANTS
  ParamSets <- Calls
  Temperatures <- MCTemperatures
  NTextCtx = 16
  KVPad = 16
  MaxTs = 2
  MaxInitialTs = 1
  DeltaMin = 1
  ShortRest = 2
  EntropyLen = 1
  Text <- MCText
  Eot <- MCEot
SPECIFICATION Spec
INVARIANT HistoryIsCached
INVARIANT PositionsFit
INVARIANT SlotsSuffice
PROPERTY ImplementsWindow
PROPERTY Returns
