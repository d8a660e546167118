CONSTANTS
  WindowSize = 3
  SlotDuration = 2
  Amounts = {1, 2}
  MaxTime = 11
  MaxTotal = 5
SPECIFICATION CounterSpec
INVARIANTS WindowBounds
