SPECIFICATION DemoSpec
CONSTANTS
  Loader = loader
  Prober = {p1, p2}
  Opener = {o1, o2, o3}
  max_items = 2
  MaxMade = 3
  MaxFound = 3
INVARIANTS
  TypeOK
  ReadsFindMemory
  ItemsMatchClass
  LeftAtEnd
  CountMatchesOpeners
  OneOpenerOfReady
SYMMETRY Exchange
CHECK_DEADLOCK FALSE
