SPECIFICATION Spec
CONSTANTS
  Stoppers = {t1, t2}
  SocketRoom = 2
  WakerRoom = 2
  MaxFlows = 2
  Timed = {TRUE, FALSE}
  MaxArrivals = 2
  MaxStops = 2
CHECK_DEADLOCK FALSE
INVARIANTS
  EveryDatagramOnce
  PollAnswersWaiting
  StopsAfterOne
  MessageYieldedWhole
PROPERTY StopEndsWait
