SPECIFICATION TestSpec
CONSTANTS
  stopper = stopper
  fetcher = fetcher
  pusher = pusher
  NoThread = NoThread
  Thread = {stopper, fetcher, pusher}
  Client <- TestClients
  Flags = {"NOTIFY_ONE", "NOTIFY_ALL"}
  MaxCalls = 3
  MaxBatch = 1
  MaxSpurious = 1
INVARIANT StopHeard
PROPERTIES
  CallsReturn
  StopWaitersReturn
  FetcherAndPusherEnd
  StopperEnds
CHECK_DEADLOCK FALSE
