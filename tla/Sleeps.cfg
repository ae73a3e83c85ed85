SPECIFICATION Spec
CONSTANTS
  Unit <- TwoTicks
  MaxAsked = 2
  MaxInterrupts = 1
  MaxSlept = 8
PROPERTY SleepEnds
