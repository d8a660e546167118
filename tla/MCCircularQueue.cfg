CONSTANTS
  Values = {a, b}
  Fresh = fresh
  InitSize = 2
  MaxCount = 5
SYMMETRY Symm
SPECIFICATION Spec
INVARIANTS TypeOK RingOK
PROPERTIES FifoSpec IterateUnlessFull
