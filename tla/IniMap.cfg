SPECIFICATION MapSpec
CONSTANTS
  m1 = m1
  m2 = m2
  Obj <- MCObj
  Texts <- MCTexts
  EditTexts <- MCEditTexts
  Suffix <- MCSuffix
  Widths = {1, 5}
  Buffers = {0, 9}
  LineMax = 12
  KeyMax = 4
  IndentMax = 2
  FirstTotal = 8
  MaxParses = 2
  MaxOps = 3
INVARIANTS
  RoundTrip
  LinesInOrder
  NoDangling
  BufferHolds
  MapAgrees
  NothingLeft
SYMMETRY Symmetry
CHECK_DEADLOCK FALSE
