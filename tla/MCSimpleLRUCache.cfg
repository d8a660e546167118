CONSTANTS
  Keys = {k1, k2}
  Values = {v1, v2, v3}
  NoKey = none
  UnitSizes = {1, 2}
  MaxSizes = {1, 2}
  IdleTimes <- Idle
  UpdateOrder = {TRUE}
  MaxTime = 2
  MaxPins = 2
SYMMETRY Symm
SPECIFICATION Spec
INVARIANTS PinnedValuesStay UnitsExact ListOK OverfullOnlyByPins
PROPERTIES EvictsOldestFirst
