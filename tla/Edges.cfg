SPECIFICATION EdgesSpec
CONSTANTS
  EventListeners = {l1, l2}
  EventTypes = {face, pin}
  MaxMoves = 5
  NativeResults = {0, 12, 2147483647}
  JsFunctions = {f1, f2}
  MaxCalls = 2
  MaxObjects = 1
INVARIANTS ListenersAreHeard RecognitionIsFresh AnswerIsTrue
PROPERTIES RiskReachesExecutor EveryCallSettles
CHECK_DEADLOCK FALSE
