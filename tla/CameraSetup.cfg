SPECIFICATION Spec
CONSTANTS
  Devices <- FourDevices
  Fourcc = {"NV12"}
  Sizes = {1, 2}
  Rates = {0, 1, 4}
  Fallback = 4
  MaxOthers = 1
INVARIANT SetupHolds
