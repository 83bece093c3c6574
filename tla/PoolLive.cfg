SPECIFICATION FairSpec
CONSTANTS
  s1 = s1
  s2 = s2
  p1 = p1
  w1 = w1
  w2 = w2
  EventThread = EventThread
  TimerThread = TimerThread
  Requests = {s1, w1}
  Attr <- TakeoverAttr
  MaxContexts = 2
  MaxCancels = 1
PROPERTY EveryoneLeaves
CHECK_DEADLOCK FALSE
