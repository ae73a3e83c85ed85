SPECIFICATION Spec
CONSTANTS
  MaxBufCount = 2
  CAMERA_V4L2_MAX_PLANE_COUNT = 2
  Candidates <- TwoLists
  Supported = {"MMAP", "USERPTR", "DMABUF"}
  MaxFailures = 1
INVARIANTS
  OnlyRefusedIsLost
  FramesHaveMemory
  SyncedAccess
